---------------------------- MODULE EventLogProofs ----------------------------
(***************************************************************************)
(* Proofs about EventLog for every number of events, threads, restarts and *)
(* failing writes: ids are never reused over an existing file, so an event *)
(* that reached the subscribers stays on disk as it was; a page shows what *)
(* the files hold; and a search that ends has seen, in order, all that was *)
(* queued when it began.                                                   *)
(***************************************************************************)
EXTENDS EventLog, TLAPS

\* A new stream in an empty session directory satisfies the invariant.
LEMMA InitLogInv == Init => LogInv
BY SizesAssumption, ContentsAssumption
   DEF Init, LogInv, TypeOK, IdsFresh, FileProgress, HasId, Started, Progress, Id,
       Contents, NoPage

\* Under the lock an event gets an id that no event and no file has.
LEMMA PlaceStep ==
    ASSUME LogInv, NEW e \in Event, Place(e)
    PROVE  LogInv'
<1>1. TypeOK'
  <2>1. curId' \in Id /\ writePage' \in Id /\ curId \in Id /\ writePage \in Id
    BY SizesAssumption DEF LogInv, TypeOK, Place, Id
  <2>2. mem' \in [Id -> Seq(Event)]
    <3>1. Append(mem[writePage], e) \in Seq(Event)
      BY <2>1 DEF LogInv, TypeOK
    <3> QED
      BY <2>1, <3>1 DEF LogInv, TypeOK, Place
  <2>3. pc' \in [Event -> Progress]
    BY DEF LogInv, TypeOK, Place, Progress
  <2>4. id' \in [Event -> Id] /\ page' \in [Event -> Id]
    BY <2>1 DEF LogInv, TypeOK, Place
  <2> QED
    BY <2>1, <2>2, <2>3, <2>4 DEF LogInv, TypeOK, Place
<1>2. IdsFresh'
  <2>1. curId \in Int /\ curId' = curId + 1 /\ file' = file
    BY SizesAssumption DEF LogInv, TypeOK, Place, Id
  <2>2. \A d \in Event : id[d] \in Int
    BY SizesAssumption DEF LogInv, TypeOK, Id
  <2>3. \A d \in Event : d # e => id'[d] = id[d] /\ (HasId(d)' <=> HasId(d))
    BY DEF LogInv, TypeOK, Place, HasId, Started
  <2>4. id'[e] = curId
    BY DEF LogInv, TypeOK, Place
  <2>5. \A d \in Event : HasId(d) => id[d] < curId
    BY DEF LogInv, IdsFresh
  <2>6. \A d \in Event : HasId(d)' => id'[d] < curId'
    BY <2>1, <2>2, <2>3, <2>4, <2>5
  <2>7. \A i \in Id : file'[i] # Absent => i < curId'
    BY <2>1, SizesAssumption DEF LogInv, IdsFresh, Id
  <2>8. \A c, d \in Event : HasId(c)' /\ HasId(d)' /\ c # d => id'[c] # id'[d]
    BY <2>1, <2>2, <2>3, <2>4, <2>5 DEF LogInv, IdsFresh
  <2> QED
    BY <2>6, <2>7, <2>8 DEF IdsFresh
<1>3. FileProgress'
  <2>1. file[curId] = Absent
    BY DEF LogInv, IdsFresh, TypeOK, Id
  <2> QED
    BY <2>1 DEF LogInv, TypeOK, FileProgress, Place
<1> QED
  BY <1>1, <1>2, <1>3 DEF LogInv

\* The two steps that write an event's file touch no other event's file.
LEMMA FileStep ==
    ASSUME LogInv, NEW e \in Event, OpenFile(e) \/ WriteFile(e)
    PROVE  LogInv'
<1>1. TypeOK'
  <2>1. pc' \in [Event -> Progress]
    <3>1. pc \in [Event -> Progress] /\ "opened" \in Progress /\ "written" \in Progress
      BY DEF LogInv, TypeOK, Progress
    <3> QED
      BY <3>1 DEF OpenFile, WriteFile
  <2>2. file' \in [Id -> Contents]
    <3>1. file \in [Id -> Contents] /\ e \in Contents /\ Torn \in Contents
      BY DEF LogInv, TypeOK, Contents
    <3> QED
      BY <3>1 DEF OpenFile, WriteFile
  <2> QED
    BY <2>1, <2>2 DEF LogInv, TypeOK, OpenFile, WriteFile
<1>2. \A d \in Event : HasId(d)' <=> HasId(d)
  BY DEF LogInv, TypeOK, OpenFile, WriteFile, HasId, Started
<1>3. HasId(e)
  BY DEF OpenFile, WriteFile, HasId, Started
<1>4. IdsFresh'
  BY <1>2, <1>3 DEF LogInv, TypeOK, IdsFresh, OpenFile, WriteFile
<1>5. FileProgress'
  <2> SUFFICES ASSUME NEW d \in Event
               PROVE  /\ pc'[d] = "placed" => file'[id[d]] = Absent
                      /\ pc'[d] = "opened" => file'[id[d]] = Torn
                      /\ pc'[d] \in {"written", "pageOpened", "stored", "queued"} =>
                           file'[id[d]] = d
    BY DEF FileProgress, OpenFile, WriteFile
  <2>1. CASE d = e
    BY <2>1 DEF LogInv, TypeOK, OpenFile, WriteFile
  <2>2. CASE d # e /\ HasId(d)
    <3>1. id[d] # id[e]
      BY <1>3, <2>2 DEF LogInv, IdsFresh
    <3> QED
      BY <2>2, <3>1 DEF LogInv, TypeOK, FileProgress, OpenFile, WriteFile
  <2>3. CASE d # e /\ ~HasId(d)
    BY <2>3 DEF LogInv, TypeOK, HasId, Started, OpenFile, WriteFile
  <2> QED
    BY <2>1, <2>2, <2>3
<1> QED
  BY <1>1, <1>4, <1>5 DEF LogInv

\* The page, the queue and a failing write leave ids and event files alone.
LEMMA LaterStep ==
    ASSUME LogInv, NEW e \in Event,
           SkipPage(e) \/ OpenPage(e) \/ WritePage(e) \/ Put(e) \/ WriteError(e)
    PROVE  LogInv'
<1>1. TypeOK'
  <2>1. TornPage \in Seq(Contents)
    BY DEF TornPage, Contents
  <2>2. PageStart(e) \in Id /\ mem[page[e]] \in Seq(Contents)
    BY DEF LogInv, TypeOK, PageStart, Contents
  <2>3. cache' \in [Id -> Seq(Contents)]
    BY <2>1, <2>2 DEF LogInv, TypeOK, SkipPage, OpenPage, WritePage, Put, WriteError
  <2>4. pc' \in [Event -> Progress]
    BY DEF LogInv, TypeOK, SkipPage, OpenPage, WritePage, Put, WriteError, Progress
  <2>5. errors' \in 0..MaxErrors
    BY SizesAssumption
       DEF LogInv, TypeOK, SkipPage, OpenPage, WritePage, Put, WriteError
  <2> QED
    BY <2>3, <2>4, <2>5
       DEF LogInv, TypeOK, SkipPage, OpenPage, WritePage, Put, WriteError
<1>2. IdsFresh'
  <2>1. UNCHANGED <<id, file, curId>>
    BY DEF SkipPage, OpenPage, WritePage, Put, WriteError
  <2>2. \A d \in Event : HasId(d)' => HasId(d)
    BY DEF LogInv, TypeOK, HasId, Started, SkipPage, OpenPage, WritePage, Put, WriteError
  <2> QED
    BY <2>1, <2>2 DEF LogInv, IdsFresh
<1>3. FileProgress'
  BY DEF LogInv, TypeOK, FileProgress,
         SkipPage, OpenPage, WritePage, Put, WriteError
<1> QED
  BY <1>1, <1>2, <1>3 DEF LogInv

\* A restart takes its first id above every file, whole or torn.
LEMMA RestartStep ==
    ASSUME LogInv, Restart
    PROVE  LogInv'
<1>1. TypeOK'
  <2>1. crashes' \in 0..MaxCrashes
    BY SizesAssumption DEF LogInv, TypeOK, Restart
  <2>2. pc' \in [Event -> Progress]
    BY DEF LogInv, TypeOK, Restart, Progress, Started
  <2> QED
    BY <2>1, <2>2 DEF LogInv, TypeOK, Restart
<1>2. \A e \in Event : HasId(e)' <=> pc[e] = "queued"
  BY DEF LogInv, TypeOK, Restart, HasId, Started
<1>3. \A e \in Event : pc[e] = "queued" => file[id[e]] = e /\ file[id[e]] # Absent
  BY ContentsAssumption DEF LogInv, FileProgress
<1>4. IdsFresh'
  <2>1. id' = id /\ file' = file
    BY DEF Restart
  <2>2. \A i \in Id : file[i] # Absent => i < curId'
    BY DEF Restart, IsNextId
  <2>3. \A e \in Event : HasId(e)' => id[e] < curId'
    BY <1>2, <1>3, <2>2 DEF LogInv, TypeOK
  <2>4. \A d, e \in Event : HasId(d)' /\ HasId(e)' /\ d # e => id[d] # id[e]
    BY <1>2, <1>3
  <2> QED
    BY <2>1, <2>2, <2>3, <2>4 DEF IdsFresh
<1>5. FileProgress'
  BY DEF LogInv, TypeOK, FileProgress, Restart, Started, Progress
<1> QED
  BY <1>1, <1>4, <1>5 DEF LogInv

\* Every step preserves the invariant.
LEMMA NextLogInv == LogInv /\ [Next]_vars => LogInv'
<1> SUFFICES ASSUME LogInv, [Next]_vars
             PROVE  LogInv'
  OBVIOUS
<1>1. ASSUME NEW e \in Event, Add(e)
      PROVE  LogInv'
  BY <1>1, PlaceStep, FileStep, LaterStep DEF Add
<1>2. CASE Search
  BY <1>2 DEF Search, SearchStart, SearchLoad, SearchRead, logVars, LogInv, TypeOK,
              IdsFresh, FileProgress, HasId, Started
<1>3. CASE Restart
  BY <1>3, RestartStep
<1>4. CASE UNCHANGED vars
  BY <1>4 DEF vars, logVars, LogInv, TypeOK, IdsFresh, FileProgress, HasId, Started
<1> QED
  BY <1>1, <1>2, <1>3, <1>4 DEF Next

\* LogInv is an invariant of the event log.
THEOREM LogInvariance == Spec => []LogInv
BY InitLogInv, NextLogInv, PTL DEF Spec

\* Every event that add_event has queued is on disk under its id, for good.
THEOREM QueuedIsDurable == Spec => []QueuedDurable
<1>1. LogInv => QueuedDurable
  BY DEF LogInv, FileProgress, QueuedDurable
<1> QED
  BY <1>1, LogInvariance, PTL

\* No step of any thread, and no restart, replaces a written event file.
THEOREM FilesAreImmutable == Spec => FilesImmutable
<1> DEFINE Kept == \A i \in Id : file[i] \in Event => file'[i] = file[i]
<1>1. LogInv /\ [Next]_vars => [Kept]_file
  <2> SUFFICES ASSUME LogInv, [Next]_vars, file' # file
               PROVE  Kept
    OBVIOUS
  <2>1. PICK e \in Event : OpenFile(e) \/ WriteFile(e)
    BY DEF Next, vars, logVars, Add, Search, SearchStart, SearchLoad, SearchRead,
           Restart, Place, SkipPage, OpenPage, WritePage, Put, WriteError
  <2>2. file[id[e]] \notin Event
    BY <2>1, ContentsAssumption DEF LogInv, FileProgress, OpenFile, WriteFile
  <2> QED
    BY <2>1, <2>2 DEF OpenFile, WriteFile, LogInv, TypeOK
<1> QED
  BY <1>1, LogInvariance, PTL DEF Spec, FilesImmutable
-----------------------------------------------------------------------------
(* What pages and files hold                                                *)

\* l still lists events with ids from p on after the step.
HoldsAfter(l, p) ==
    \A k \in 1..Len(l) : l[k] \in Event /\ id'[l[k]] = p + k - 1 /\ pc'[l[k]] # "new"

\* Once an event has its id it keeps it; what is queued stays queued, and what
\* is lost stays lost.
LEMMA IdsStay ==
    ASSUME TypeOK, [Next]_vars
    PROVE  \A e \in Event :
             pc[e] # "new" =>
               /\ pc'[e] # "new" /\ id'[e] = id[e]
               /\ pc[e] \in {"queued", "lost"} => pc'[e] = pc[e]
<1>1. ASSUME NEW d \in Event, Add(d), NEW e \in Event, pc[e] # "new"
      PROVE  /\ pc'[e] # "new" /\ id'[e] = id[e]
             /\ pc[e] \in {"queued", "lost"} => pc'[e] = pc[e]
  BY <1>1 DEF TypeOK, Add, Place, OpenFile, WriteFile, SkipPage, OpenPage, WritePage,
              Put, WriteError
<1>2. CASE Restart
  BY <1>2 DEF TypeOK, Restart, Started
<1>3. CASE Search
  BY <1>3 DEF Search, SearchStart, SearchLoad, SearchRead, logVars
<1> QED
  BY <1>1, <1>2, <1>3 DEF Next, vars, logVars

\* Hence a list of events is still one after the step.
LEMMA HoldsStays ==
    ASSUME TypeOK, [Next]_vars
    PROVE  \A l, p : Holds(l, p) => HoldsAfter(l, p)
BY IdsStay DEF Holds, HoldsAfter

LEMMA InitPagesInv == Init => PagesInv
BY SizesAssumption, ContentsAssumption
   DEF Init, PagesInv, WritePages, OnDisk, Holds, Id, NoPage

\* The lock gives the event the next place of the write page.
LEMMA PlacePages ==
    ASSUME LogInv, PagesInv, NEW e \in Event, Place(e)
    PROVE  PagesInv'
<1> DEFINE wp == mem[writePage]
           new == Append(wp, e)
<1>1. TypeOK /\ [Next]_vars
  BY DEF LogInv, Next, Add
<1>2. \A p \in Id : p \in Nat /\ p <= MaxId
  BY SizesAssumption DEF Id
<1>a. /\ wp \in Seq(Event) /\ Len(wp) \in Nat /\ mem \in [Id -> Seq(Event)]
      /\ id \in [Event -> Id] /\ pc \in [Event -> Progress] /\ page \in [Event -> Id]
  <2>1. wp \in Seq(Event) /\ mem \in [Id -> Seq(Event)]
    BY <1>1 DEF TypeOK
  <2> HIDE DEF wp
  <2> QED
    BY <1>1, <2>1 DEF TypeOK
<1>b. /\ curId \in Nat /\ writePage \in Id /\ writePage \in Nat
      /\ CacheSize \in Nat \ {0} /\ MaxId \in Nat /\ curId < MaxId
  BY <1>1, <1>2, SizesAssumption DEF TypeOK, Place
<1>3. /\ curId' = curId + 1 /\ pc[e] = "new"
      /\ pc' = [pc EXCEPT ![e] = "placed"] /\ id' = [id EXCEPT ![e] = curId]
      /\ page' = [page EXCEPT ![e] = writePage]
      /\ mem' = [mem EXCEPT ![writePage] = new]
      /\ writePage' = IF Len(wp) + 1 = CacheSize THEN curId + 1 ELSE writePage
      /\ cache' = cache /\ file' = file
  BY DEF Place
<1>e. curId' = curId + 1
  BY <1>3
<1>4. writePage + Len(wp) = curId /\ Len(wp) < CacheSize
  BY DEF PagesInv, WritePages
<1>5. /\ Len(new) = Len(wp) + 1 /\ new \in Seq(Event)
      /\ \A k \in 1..Len(new) : k <= Len(wp) => new[k] = wp[k]
      /\ new[Len(wp) + 1] = e
  <2> HIDE DEF wp
  <2> QED
    BY <1>a
<1>6. HoldsAfter(new, writePage)
  <2>1. HoldsAfter(wp, writePage)
    BY <1>1, <1>b, HoldsStays DEF PagesInv, WritePages
  <2>2. id'[e] = curId /\ pc'[e] = "placed"
    BY <1>a, <1>3
  <2> HIDE DEF wp, new
  <2> SUFFICES ASSUME NEW k \in 1..Len(new)
               PROVE  new[k] \in Event /\ id'[new[k]] = writePage + k - 1 /\ pc'[new[k]] # "new"
    BY DEF HoldsAfter
  <2>3. CASE k <= Len(wp)
    <3>1. Len(wp) \in Nat /\ k \in Nat /\ 1 <= k
      BY <1>a, <1>5
    <3>2. new[k] = wp[k]
      BY <1>5, <2>3
    <3>3. k \in 1..Len(wp)
      BY <2>3, <3>1
    <3> QED
      BY <2>1, <3>2, <3>3 DEF HoldsAfter
  <2>4. CASE k = Len(wp) + 1
    <3>1. new[k] = e
      BY <1>5, <2>4
    <3>2. Len(wp) \in Nat
      BY <1>a
    <3>3. writePage + k - 1 = curId
      BY <1>b, <1>4, <2>4, <3>2
    <3> QED
      BY <2>2, <3>1, <3>3
  <2> QED
    BY <1>a, <1>5, <2>3, <2>4
<1> HIDE DEF wp, new
<1>7. \A p \in Id : mem'[p] = IF p = writePage THEN new ELSE mem[p]
  BY <1>a, <1>3
<1>c. \/ Len(wp) + 1 = CacheSize /\ writePage' = curId + 1 /\ writePage' > writePage
      \/ Len(wp) + 1 < CacheSize /\ writePage' = writePage
  <2>1. Len(wp) \in Nat
    BY <1>a
  <2> QED
    BY <1>b, <1>3, <1>4, <2>1
<1>d. \A p \in Id : p > writePage => mem[p] = <<>>
  BY DEF PagesInv, WritePages
<1>8. writePage' + Len(mem'[writePage']) = curId' /\ Len(mem'[writePage']) < CacheSize
  <2>1. CASE writePage' = curId + 1 /\ writePage' > writePage
    <3>1. writePage' \in Id
      BY <1>b, <2>1 DEF Id
    <3>2. mem'[writePage'] = <<>>
      BY <1>2, <1>b, <1>7, <1>d, <2>1, <3>1
    <3>3. Len(mem'[writePage']) = 0
      BY <3>2
    <3> QED
      BY <1>b, <1>e, <2>1, <3>3
  <2>2. CASE Len(wp) + 1 < CacheSize /\ writePage' = writePage
    <3>1. Len(mem'[writePage']) = Len(wp) + 1
      BY <1>b, <1>5, <1>7, <2>2
    <3>2. Len(wp) \in Nat
      BY <1>a
    <3> QED
      BY <1>b, <1>e, <1>4, <2>2, <3>1, <3>2
  <2> QED
    BY <1>c, <2>1, <2>2
<1>9. \A p \in Id : p > writePage' => mem'[p] = <<>>
  <2> SUFFICES ASSUME NEW p \in Id, p > writePage'
               PROVE  mem'[p] = <<>>
    OBVIOUS
  <2>1. p > writePage /\ p # writePage
    BY <1>2, <1>b, <1>c
  <2>2. mem'[p] = mem[p]
    BY <1>7, <2>1
  <2> QED
    BY <1>d, <2>1, <2>2
<1>10. \A p \in Id : Len(mem'[p]) <= CacheSize /\ HoldsAfter(mem'[p], p)
  <2> SUFFICES ASSUME NEW p \in Id
               PROVE  Len(mem'[p]) <= CacheSize /\ HoldsAfter(mem'[p], p)
    OBVIOUS
  <2>1. CASE p = writePage
    <3>1. Len(wp) \in Nat
      BY <1>a
    <3> QED
      BY <1>b, <1>4, <1>5, <1>6, <1>7, <2>1, <3>1
  <2>2. CASE p # writePage
    BY <1>1, <1>7, <2>2, HoldsStays DEF PagesInv, WritePages
  <2> QED
    BY <2>1, <2>2
<1>11. \A d \in Event : pc'[d] = "pageOpened" => Len(mem'[page'[d]]) = CacheSize
  <2> SUFFICES ASSUME NEW d \in Event, pc'[d] = "pageOpened"
               PROVE  Len(mem'[page'[d]]) = CacheSize
    OBVIOUS
  <2>1. d # e /\ pc[d] = "pageOpened" /\ page'[d] = page[d] /\ page[d] \in Id
    BY <1>a, <1>3
  <2>2. Len(mem[page[d]]) = CacheSize
    BY <2>1 DEF PagesInv, WritePages
  <2>3. page[d] # writePage
    BY <1>b, <1>4, <2>2 DEF wp
  <2> QED
    BY <1>7, <2>1, <2>2, <2>3
<1>12. WritePages'
  BY <1>8, <1>9, <1>10, <1>11 DEF WritePages, Holds, HoldsAfter
<1>13. OnDisk'
  BY <1>1, <1>3, HoldsStays, IdsStay DEF PagesInv, OnDisk, Holds, HoldsAfter
<1> QED
  BY <1>12, <1>13 DEF PagesInv

\* The steps of add_event outside the lock: a page is opened when it is full, and
\* what is written to it then is the whole page.
LEMMA WritePagesStep ==
    ASSUME LogInv, PagesInv, NEW e \in Event, Add(e), ~Place(e)
    PROVE  PagesInv'
<1>1. TypeOK /\ [Next]_vars
  BY DEF LogInv, Next
<1>2. UNCHANGED <<mem, curId, writePage, page, id>>
  BY DEF Add, OpenFile, WriteFile, SkipPage, OpenPage, WritePage, Put, WriteError
<1>3. WritePages'
  <2>1. \A p \in Id : Len(mem'[p]) <= CacheSize /\ HoldsAfter(mem'[p], p)
    BY <1>1, <1>2, HoldsStays DEF PagesInv, WritePages
  <2>2. ASSUME NEW d \in Event, pc'[d] = "pageOpened"
        PROVE  Len(mem[page[d]]) = CacheSize
    <3>1. CASE pc[d] = "pageOpened"
      BY <3>1 DEF PagesInv, WritePages
    <3>2. CASE pc[d] # "pageOpened"
      <4>1. d = e /\ OpenPage(e)
        BY <1>1, <2>2, <3>2
           DEF TypeOK, Add, OpenFile, WriteFile, SkipPage, OpenPage, WritePage, Put, WriteError
      <4>2. page[e] \in Id /\ Len(mem[page[e]]) \in Nat
        BY <1>1 DEF TypeOK
      <4>3. Len(mem[page[e]]) >= CacheSize /\ Len(mem[page[e]]) <= CacheSize
        BY <4>1, <4>2 DEF OpenPage, PageFull, PagesInv, WritePages
      <4> QED
        BY <4>1, <4>2, <4>3, SizesAssumption
    <3> QED
      BY <3>1, <3>2
  <2> QED
    BY <1>2, <2>1, <2>2 DEF PagesInv, WritePages, Holds, HoldsAfter
<1>4. \A p \in Id : cache'[p] \notin {NoPage, TornPage} =>
        Len(cache'[p]) = CacheSize /\ HoldsAfter(cache'[p], p)
  <2> SUFFICES ASSUME NEW p \in Id, cache'[p] \notin {NoPage, TornPage}
               PROVE  Len(cache'[p]) = CacheSize /\ HoldsAfter(cache'[p], p)
    OBVIOUS
  <2>1. CASE cache'[p] = cache[p]
    BY <1>1, <2>1, HoldsStays DEF PagesInv, OnDisk
  <2>2. CASE cache'[p] # cache[p]
    <3>1. WritePage(e) /\ p = page[e] /\ cache'[p] = mem[p]
      BY <1>1, <2>2 DEF TypeOK, Add, OpenFile, WriteFile, SkipPage, OpenPage, WritePage,
                        Put, WriteError, PageStart
    <3>2. Len(mem[p]) = CacheSize /\ Holds(mem[p], p)
      BY <3>1 DEF WritePage, PagesInv, WritePages
    <3> QED
      BY <1>1, <3>1, <3>2, HoldsStays
  <2> QED
    BY <2>1, <2>2
<1>5. \A i \in Id : file'[i] \in Event => id[file'[i]] = i /\ pc'[file'[i]] # "new"
  <2> SUFFICES ASSUME NEW i \in Id, file'[i] \in Event
               PROVE  id[file'[i]] = i /\ pc'[file'[i]] # "new"
    OBVIOUS
  <2>1. CASE file'[i] = file[i]
    BY <1>1, <2>1, IdsStay DEF PagesInv, OnDisk
  <2>2. CASE file'[i] # file[i]
    <3>1. WriteFile(e) /\ i = id[e] /\ file'[i] = e
      BY <1>1, <2>2, ContentsAssumption
         DEF TypeOK, Add, OpenFile, WriteFile, SkipPage, OpenPage, WritePage, Put, WriteError
    <3> QED
      BY <1>1, <3>1 DEF WriteFile, TypeOK
  <2> QED
    BY <2>1, <2>2
<1> QED
  BY <1>2, <1>3, <1>4, <1>5 DEF PagesInv, OnDisk, Holds, HoldsAfter

\* A new process starts with an empty write page.
LEMMA RestartPages ==
    ASSUME LogInv, PagesInv, Restart
    PROVE  PagesInv'
<1>1. TypeOK /\ [Next]_vars
  BY DEF LogInv, Next
<1>2. curId' \in Id /\ writePage' = curId' /\ mem' = [p \in Id |-> <<>>]
      /\ UNCHANGED <<id, page, file, cache>>
  BY DEF Restart
<1>3. \A d \in Event : pc'[d] # "pageOpened"
  BY <1>1 DEF TypeOK, Restart, Started
<1>4. WritePages'
  <2>1. Len(<<>>) = 0 /\ \A p \in Id : mem'[p] = <<>>
    BY <1>2
  <2>2. curId' \in Nat
    BY <1>2, SizesAssumption DEF Id
  <2>3. writePage' + Len(mem'[writePage']) = curId' /\ Len(mem'[writePage']) < CacheSize
    <3>1. writePage' = curId' /\ curId' \in Nat /\ writePage' \in Nat
      BY <1>2, <2>2
    <3> DEFINE l == Len(mem'[writePage'])
    <3>2. l = 0
      BY <1>2, <2>1
    <3> HIDE DEF l
    <3>3. CacheSize \in Nat /\ 0 < CacheSize
      BY SizesAssumption
    <3>4. l < CacheSize
      BY <3>2, <3>3
    <3>5. \A n \in Nat : n + l = n
      BY <3>2
    <3>6. writePage' + l = curId'
      BY <3>1, <3>5
    <3> QED
      BY <3>4, <3>6 DEF l
  <2>4. \A p \in Id : Len(mem'[p]) <= CacheSize /\ HoldsAfter(mem'[p], p)
    BY <2>1, SizesAssumption DEF HoldsAfter
  <2> QED
    BY <1>3, <2>1, <2>3, <2>4 DEF WritePages, Holds, HoldsAfter
<1>5. OnDisk'
  <2>1. \A p \in Id : cache'[p] \notin {NoPage, TornPage} =>
          Len(cache'[p]) = CacheSize /\ HoldsAfter(cache'[p], p)
    BY <1>1, <1>2, HoldsStays DEF PagesInv, OnDisk
  <2>2. \A i \in Id : file'[i] \in Event => id'[file'[i]] = i /\ pc'[file'[i]] # "new"
    BY <1>1, <1>2, IdsStay DEF PagesInv, OnDisk
  <2> QED
    BY <2>1, <2>2 DEF OnDisk, Holds, HoldsAfter
<1> QED
  BY <1>4, <1>5 DEF PagesInv

\* Every step preserves what is known of pages and files.
LEMMA NextPagesInv == LogInv /\ PagesInv /\ [Next]_vars => PagesInv'
<1> SUFFICES ASSUME LogInv, PagesInv, [Next]_vars
             PROVE  PagesInv'
  OBVIOUS
<1>1. ASSUME NEW e \in Event, Add(e)
      PROVE  PagesInv'
  BY <1>1, PlacePages, WritePagesStep
<1>2. CASE Search \/ UNCHANGED vars
  BY <1>2 DEF Search, SearchStart, SearchLoad, SearchRead, vars, logVars, PagesInv,
              WritePages, OnDisk, Holds
<1>3. CASE Restart
  BY <1>3, RestartPages
<1> QED
  BY <1>1, <1>2, <1>3 DEF Next

\* PagesInv is an invariant of the event log.
THEOREM PagesInvariance == Spec => []PagesInv
BY InitPagesInv, NextPagesInv, LogInvariance, PTL DEF Spec

\* An event read through its cache page is the one in its file, or one that was
\* lost after a neighbour had stored the page.
THEOREM PagesAgree == Spec => []PageAgrees
<1>1. LogInv /\ PagesInv => PageAgrees
  <2> SUFFICES ASSUME LogInv, PagesInv, NEW p \in Aligned, cache[p] \notin {NoPage, TornPage},
                      NEW i \in Id \cap (p..(p + CacheSize - 1)), file[i] \in Event
               PROVE  cache[p][i - p + 1] = file[i] \/ pc[cache[p][i - p + 1]] = "lost"
    BY DEF PageAgrees
  <2> DEFINE k == i - p + 1
             d == cache[p][k]
  <2>1. p \in Int /\ i \in Int /\ k \in 1..CacheSize /\ p + k - 1 = i
    BY SizesAssumption DEF Aligned, Id
  <2>2. d \in Event /\ id[d] = i /\ pc[d] # "new"
    <3>1. Len(cache[p]) = CacheSize /\ Holds(cache[p], p)
      BY DEF PagesInv, OnDisk, Aligned
    <3> HIDE DEF k
    <3> QED
      BY <2>1, <3>1 DEF Holds
  <2> HIDE DEF d
  <2>3. pc[d] = "lost" \/ file[i] = d
    <3>1. pc[d] \in Progress
      BY <2>2 DEF LogInv, TypeOK
    <3> QED
      BY <2>2, <3>1, ContentsAssumption DEF LogInv, FileProgress, Progress
  <2> QED
    BY <2>3 DEF d, k
<1> QED
  BY <1>1, LogInvariance, PagesInvariance, PTL
-----------------------------------------------------------------------------
(* What a search yields                                                     *)

\* A search that has not begun has promised nothing.
LEMMA IdleSearch == search = NoSearch => SearchInv
<1> SUFFICES ASSUME search = NoSearch
             PROVE  SearchInv
  OBVIOUS
<1>1. SearchType
  BY DEF SearchType, NoSearch, NoPage
<1>2. SearchPlace
  BY SizesAssumption DEF SearchPlace, NoSearch, Id
<1>3. SearchSeen
  BY DEF SearchSeen, NoSearch
<1> QED
  BY <1>1, <1>2, <1>3 DEF SearchInv

\* The adders leave the search alone, and what it has seen as it was.
LEMMA SearchStays ==
    ASSUME TypeOK, SearchInv, [Next]_vars, search' = search
    PROVE  SearchInv'
<1>1. SearchType'
  BY DEF SearchInv, SearchType, Contents
<1>2. SearchPlace'
  <2>1. search.page # NoPage => HoldsAfter(search.page, search.start)
    BY HoldsStays DEF SearchInv, SearchPlace
  <2> QED
    BY <2>1 DEF SearchInv, SearchPlace, Holds, HoldsAfter
<1>3. SearchSeen'
  <2>1. \A k \in 1..Len(search.seen) : search.seen[k] \in Event
    BY DEF SearchInv, SearchType
  <2>2. \A k \in 1..Len(search.seen) :
          /\ pc'[search.seen[k]] # "new"
          /\ id'[search.seen[k]] = id[search.seen[k]]
          /\ pc[search.seen[k]] = "lost" => pc'[search.seen[k]] = "lost"
    BY <2>1, IdsStay DEF SearchInv, SearchSeen
  <2>3. \A e \in search.must : pc'[e] = "queued" /\ id'[e] = id[e]
    BY IdsStay DEF SearchInv, SearchSeen, SearchType
  <2> QED
    BY <2>2, <2>3 DEF SearchInv, SearchSeen, Passed, TakesPlaceOf
<1> QED
  BY <1>1, <1>2, <1>3 DEF SearchInv

\* A search begins before the first id of its direction.
LEMMA StartStep ==
    ASSUME LogInv, SearchInv, SearchStart
    PROVE  SearchInv'
<1>1. PICK s \in {1, -1} :
        search' = [NoSearch EXCEPT
                      !.pc = IF curId = 0 THEN "done" ELSE "on",
                      !.step = s,
                      !.idx = IF s = 1 THEN 0 ELSE curId - 1,
                      !.stop = IF s = 1 THEN curId ELSE -1,
                      !.start = -CacheSize,
                      !.must = {e \in Event : pc[e] = "queued"}]
  BY DEF SearchStart
<1>2. /\ search'.pc = (IF curId = 0 THEN "done" ELSE "on") /\ search'.step = s
      /\ search'.idx = (IF s = 1 THEN 0 ELSE curId - 1)
      /\ search'.stop = (IF s = 1 THEN curId ELSE -1)
      /\ search'.start = -CacheSize /\ search'.page = NoPage /\ search'.seen = <<>>
      /\ search'.must = {e \in Event : pc[e] = "queued"}
  BY <1>1 DEF NoSearch
<1>3. curId \in Nat /\ curId \in Id /\ (\A e \in Event : id[e] \in Nat) /\ CacheSize \in Nat /\ MaxId \in Nat
  BY SizesAssumption DEF LogInv, TypeOK, Id
<1>4. UNCHANGED <<pc, id>>
  BY DEF SearchStart, logVars
<1>5. SearchType'
  <2> DEFINE a == IF curId = 0 THEN "done" ELSE "on"
             i == IF s = 1 THEN 0 ELSE curId - 1
             t == IF s = 1 THEN curId ELSE -1
             m == {e \in Event : pc[e] = "queued"}
  <2>1. a \in {"idle", "on", "done", "raised"} /\ i \in Int /\ t \in Int /\ m \in SUBSET Event
    BY <1>3
  <2>2. -CacheSize \in Int /\ NoPage \in Seq(Contents) /\ <<>> \in Seq(Event)
    BY <1>3 DEF NoPage
  <2>3. search' = [pc |-> a, step |-> s, idx |-> i, stop |-> t, start |-> -CacheSize,
                   page |-> NoPage, seen |-> <<>>, must |-> m]
    BY <1>1 DEF NoSearch
  <2> HIDE DEF a, i, t, m
  <2> QED
    BY <2>1, <2>2, <2>3 DEF SearchType, Contents
<1>6. SearchPlace'
  <2>1. search'.pc = "on" => search'.idx \in Id
    BY <1>2, <1>3 DEF Id
  <2> QED
    BY <1>2, <1>3, <2>1 DEF SearchPlace, Id
<1>7. SearchSeen'
  <2>1. \A e \in search'.must : pc'[e] = "queued" /\ id'[e] < curId /\ id'[e] \in Nat
    BY <1>2, <1>3, <1>4 DEF LogInv, IdsFresh, HasId
  <2>2. \A e \in search'.must : ~(Passed(id[e])')
    BY <1>2, <1>3, <2>1 DEF Passed
  <2> QED
    BY <1>2, <2>1, <2>2 DEF SearchSeen
<1> QED
  BY <1>5, <1>6, <1>7 DEF SearchInv

\* The page of an index starts at a multiple of CacheSize.
LEMMA PageOfIndex ==
    ASSUME NEW i \in Id
    PROVE  i - (i % CacheSize) \in Id
BY SizesAssumption DEF Id

\* A search that raises promises nothing more.
LEMMA RaisedSearch ==
    ASSUME SearchInv, search' = [search EXCEPT !.pc = "raised"], UNCHANGED <<pc, id>>
    PROVE  SearchInv'
<1>1. /\ search'.pc = "raised" /\ search'.step = search.step /\ search'.idx = search.idx
      /\ search'.stop = search.stop /\ search'.start = search.start /\ search'.page = search.page
      /\ search'.seen = search.seen /\ search'.must = search.must
  BY DEF SearchInv, SearchType
<1>2. SearchType'
  BY DEF SearchInv, SearchType, Contents
<1>3. SearchPlace'
  BY <1>1 DEF SearchInv, SearchPlace, Holds
<1>4. SearchSeen'
  BY <1>1 DEF SearchInv, SearchSeen, Passed, TakesPlaceOf
<1> QED
  BY <1>2, <1>3, <1>4 DEF SearchInv

\* A search takes the page as it is on disk now.
LEMMA LoadStep ==
    ASSUME LogInv, PagesInv, SearchInv, SearchLoad
    PROVE  SearchInv'
<1> DEFINE p == search.idx - (search.idx % CacheSize)
<1>1. search.pc = "on" /\ UNCHANGED <<pc, id>> /\ p \in Id
  BY PageOfIndex DEF SearchLoad, logVars, SearchInv, SearchPlace
<1>2. CASE cache[p] = TornPage
  BY <1>1, <1>2, RaisedSearch DEF SearchLoad
<1>3. CASE cache[p] # TornPage
  <2>1. search' = [search EXCEPT !.start = p, !.page = cache[p]]
    BY <1>3 DEF SearchLoad
  <2> HIDE DEF p
  <2>2. cache[p] \in Seq(Contents) /\ p \in Int
    BY <1>1, SizesAssumption DEF LogInv, TypeOK, Id
  <2>3. SearchType'
    BY <2>1, <2>2 DEF SearchInv, SearchType, Contents
  <2>4. /\ search'.pc = search.pc /\ search'.step = search.step /\ search'.idx = search.idx
        /\ search'.stop = search.stop /\ search'.start = p /\ search'.page = cache[p]
        /\ search'.seen = search.seen /\ search'.must = search.must
    BY <2>1 DEF SearchInv, SearchType
  <2>5. cache[p] # NoPage => Len(cache[p]) = CacheSize /\ Holds(cache[p], p)
    BY <1>1, <1>3 DEF PagesInv, OnDisk
  <2>6. SearchPlace'
    BY <1>1, <2>4, <2>5 DEF SearchInv, SearchPlace, Holds
  <2>7. SearchSeen'
    BY <1>1, <2>4 DEF SearchInv, SearchSeen, Passed, TakesPlaceOf
  <2> QED
    BY <2>3, <2>6, <2>7 DEF SearchInv
<1> QED
  BY <1>2, <1>3

\* f is what a search should yield for its index: an event with that id, the one
\* it must see if there is one, or nothing.
Yields(f) ==
    /\ f # Absent => f \in Event /\ id[f] = search.idx /\ pc[f] # "new"
    /\ \A e \in search.must :
         id[e] = search.idx => f \in Event /\ (f = e \/ TakesPlaceOf(f, e))

\* Having yielded it, the search has passed one id more.
LEMMA AdvanceStep ==
    ASSUME LogInv, SearchInv, search.pc = "on", NEW f, Yields(f),
           search' = Advance(f), UNCHANGED <<pc, id>>
    PROVE  SearchInv'
<1> DEFINE seen == search.seen
           next == IF f = Absent THEN seen ELSE Append(seen, f)
           i == search.idx
           j == search.idx + search.step
           PassedAfter(n) == IF search.step = 1 THEN n < j ELSE n > j
<1>1. /\ search.step \in {1, -1} /\ i \in Int /\ search.stop \in Int /\ i \in Nat /\ MaxId \in Nat
      /\ i <= MaxId /\ seen \in Seq(Event) /\ search.must \subseteq Event
      /\ IF search.step = 1 THEN search.stop \in Id /\ i < search.stop ELSE search.stop = -1
  BY SizesAssumption DEF SearchInv, SearchType, SearchPlace, Id
<1>2. f # Absent => f \in Event /\ id[f] = i /\ pc[f] # "new"
  BY DEF Yields
<1>3. \A e \in Event : id[e] \in Nat
  BY SizesAssumption DEF LogInv, TypeOK, Id
<1>4. next \in Seq(Event)
  BY <1>1, <1>2
<1>5. /\ search'.pc = (IF j = search.stop THEN "done" ELSE "on")
      /\ search'.step = search.step /\ search'.idx = j /\ search'.stop = search.stop
      /\ search'.start = search.start /\ search'.page = search.page
      /\ search'.seen = next /\ search'.must = search.must
  BY DEF SearchInv, SearchType, Advance
<1>6. SearchType'
  <2> DEFINE a == IF j = search.stop THEN "done" ELSE "on"
  <2>1. search' = [search EXCEPT !.seen = next, !.idx = j, !.pc = a]
    BY DEF SearchInv, SearchType, Advance
  <2>2. a \in {"idle", "on", "done", "raised"} /\ j \in Int
    BY <1>1
  <2> HIDE DEF a, next, j
  <2> QED
    BY <1>4, <2>1, <2>2 DEF SearchInv, SearchType, Contents
<1> HIDE DEF next
<1>7. SearchPlace'
  <2>1. j # search.stop => j \in Id /\ (search.step = 1 => j < search.stop)
    BY <1>1 DEF Id
  <2> HIDE DEF j
  <2> QED
    BY <1>5, <2>1 DEF SearchInv, SearchPlace, Holds
<1>8. \A n \in Nat : PassedAfter(n) <=> (Passed(n) \/ n = i)
  BY <1>1 DEF Passed
<1> HIDE DEF PassedAfter
<1>9. /\ Len(next) \in Nat /\ Len(seen) \in Nat /\ Len(seen) <= Len(next)
      /\ \A k \in 1..Len(seen) : next[k] = seen[k]
      /\ \A k \in 1..Len(next) : k \notin 1..Len(seen) => next[k] = f /\ f # Absent
      /\ f # Absent => Len(next) = Len(seen) + 1 /\ next[Len(next)] = f
  <2>1. CASE f = Absent
    <3>1. next = seen /\ Len(seen) \in Nat
      BY <1>1, <2>1 DEF next
    <3> QED
      BY <2>1, <3>1
  <2>2. CASE f # Absent
    <3>1. next = Append(seen, f) /\ Len(seen) \in Nat
      BY <1>1, <2>2 DEF next
    <3>2. Len(next) = Len(seen) + 1 /\ next[Len(seen) + 1] = f
      BY <1>1, <1>2, <2>2, <3>1
    <3>3. \A k \in 1..Len(seen) : next[k] = seen[k]
      BY <1>1, <1>2, <2>2, <3>1
    <3>4. \A k \in 1..Len(next) : k \notin 1..Len(seen) => k = Len(seen) + 1
      BY <3>1, <3>2
    <3> HIDE DEF seen
    <3> QED
      BY <2>2, <3>1, <3>2, <3>3, <3>4
  <2> QED
    BY <2>1, <2>2
<1>10. \A k \in 1..Len(seen) : seen[k] \in Event /\ pc[seen[k]] # "new" /\ Passed(id[seen[k]])
  BY <1>1 DEF SearchInv, SearchSeen
<1>11. \A k \in 1..Len(next) : pc[next[k]] # "new" /\ PassedAfter(id[next[k]])
  <2> SUFFICES ASSUME NEW k \in 1..Len(next)
               PROVE  pc[next[k]] # "new" /\ PassedAfter(id[next[k]])
    OBVIOUS
  <2>1. CASE k \in 1..Len(seen)
    BY <1>3, <1>8, <1>9, <1>10, <2>1
  <2>2. CASE next[k] = f /\ f # Absent
    BY <1>1, <1>2, <1>3, <1>8, <2>2
  <2> QED
    BY <1>9, <2>1, <2>2
<1>12. \A h, k \in 1..Len(next) : h < k =>
         IF search.step = 1 THEN id[next[h]] < id[next[k]] ELSE id[next[h]] > id[next[k]]
  <2> SUFFICES ASSUME NEW h \in 1..Len(next), NEW k \in 1..Len(next), h < k
               PROVE  IF search.step = 1 THEN id[next[h]] < id[next[k]]
                                         ELSE id[next[h]] > id[next[k]]
    OBVIOUS
  <2>1. h \in 1..Len(seen) /\ next[h] = seen[h]
    BY <1>9
  <2>2. CASE k \in 1..Len(seen)
    BY <1>9, <2>1, <2>2 DEF SearchInv, SearchSeen
  <2>3. CASE next[k] = f /\ f # Absent
    BY <1>2, <1>10, <2>1, <2>3 DEF Passed
  <2> QED
    BY <1>9, <2>2, <2>3
<1>13. ASSUME NEW e \in search.must, PassedAfter(id[e])
       PROVE  \E k \in 1..Len(next) : next[k] = e \/ TakesPlaceOf(next[k], e)
  <2>1. CASE Passed(id[e])
    <3>1. PICK k \in 1..Len(seen) : seen[k] = e \/ TakesPlaceOf(seen[k], e)
      BY <2>1 DEF SearchInv, SearchSeen
    <3>2. k \in 1..Len(next) /\ next[k] = seen[k]
      BY <1>9
    <3> QED
      BY <3>1, <3>2
  <2>2. CASE id[e] = i
    <3>1. f \in Event /\ (f = e \/ TakesPlaceOf(f, e))
      BY <2>2 DEF Yields
    <3>2. Len(next) \in 1..Len(next) /\ next[Len(next)] = f
      BY <1>9, <3>1, ContentsAssumption
    <3> QED
      BY <3>1, <3>2
  <2> QED
    BY <1>1, <1>3, <1>8, <1>13, <2>1, <2>2
<1>14. \A e \in search.must : pc[e] = "queued" /\ (search.step = 1 => id[e] < search.stop)
  BY DEF SearchInv, SearchSeen
<1>15. SearchSeen'
  <2>1. \A n : PassedAfter(n) <=> IF search'.step = 1 THEN n < search'.idx ELSE n > search'.idx
    BY <1>5 DEF PassedAfter
  <2> HIDE DEF seen, i, j
  <2> QED
    BY <1>5, <1>11, <1>12, <1>13, <1>14, <2>1 DEF SearchSeen, Passed, TakesPlaceOf
<1> QED
  BY <1>6, <1>7, <1>15 DEF SearchInv

\* Both ways of reading an event yield what should be there.
LEMMA ReadStep ==
    ASSUME LogInv, PagesInv, SearchInv, SearchRead
    PROVE  SearchInv'
<1>1. search.pc = "on" /\ search.idx \in Id /\ Covers /\ UNCHANGED <<pc, id>>
  BY DEF SearchRead, logVars, SearchInv, SearchPlace
<1>2. \A e \in search.must : e \in Event /\ pc[e] = "queued" /\ HasId(e) /\ file[id[e]] = e
  BY DEF LogInv, FileProgress, HasId, SearchInv, SearchType, SearchSeen
<1>3. CASE search.page # NoPage
  <2> DEFINE k == search.idx - search.start + 1
             f == search.page[k]
  <2>1. k \in 1..CacheSize /\ search.start + k - 1 = search.idx
    BY <1>1, SizesAssumption DEF Covers, SearchInv, SearchType, Id
  <2>2. f \in Event /\ id[f] = search.idx /\ pc[f] # "new"
    <3>1. Len(search.page) = CacheSize /\ Holds(search.page, search.start)
      BY <1>3 DEF SearchInv, SearchPlace
    <3> HIDE DEF k
    <3> QED
      BY <2>1, <3>1 DEF Holds
  <2>3. search' = Advance(f)
    BY <1>3 DEF SearchRead
  <2> HIDE DEF f
  <2>4. ASSUME NEW e \in search.must, id[e] = search.idx
        PROVE  f = e \/ TakesPlaceOf(f, e)
    <3>1. CASE HasId(f)
      BY <1>2, <2>2, <2>4, <3>1 DEF LogInv, IdsFresh
    <3>2. CASE ~HasId(f)
      BY <2>2, <2>4, <3>2 DEF HasId, Started, TakesPlaceOf
    <3> QED
      BY <3>1, <3>2
  <2>5. Yields(f)
    BY <2>2, <2>4 DEF Yields
  <2> QED
    BY <1>1, <2>3, <2>5, AdvanceStep
<1>4. CASE search.page = NoPage /\ file[search.idx] = Torn
  BY <1>1, <1>4, RaisedSearch DEF SearchRead
<1>5. CASE search.page = NoPage /\ file[search.idx] # Torn
  <2> DEFINE f == file[search.idx]
  <2>1. f \in Event \cup {Absent}
    BY <1>1, <1>5 DEF LogInv, TypeOK, Contents
  <2>2. f # Absent => f \in Event /\ id[f] = search.idx /\ pc[f] # "new"
    BY <1>1, <2>1 DEF PagesInv, OnDisk
  <2>3. Yields(f)
    BY <1>2, <2>2 DEF Yields
  <2>4. search' = Advance(f)
    BY <1>5 DEF SearchRead
  <2> QED
    BY <1>1, <2>3, <2>4, AdvanceStep
<1> QED
  BY <1>3, <1>4, <1>5

\* Every step preserves what is known of the search.
LEMMA NextSearchInv == LogInv /\ PagesInv /\ SearchInv /\ [Next]_vars => SearchInv'
<1> SUFFICES ASSUME LogInv, PagesInv, SearchInv, [Next]_vars
             PROVE  SearchInv'
  OBVIOUS
<1>1. CASE Search
  BY <1>1, StartStep, LoadStep, ReadStep DEF Search
<1>2. CASE Restart
  <2>1. (search = NoSearch)'
    BY <1>2 DEF Restart, NoSearch
  <2> QED
    BY <2>1, IdleSearch, PTL
<1>3. CASE UNCHANGED vars \/ \E e \in Event : Add(e)
  <2>1. search' = search
    BY <1>3 DEF vars, Add, Place, OpenFile, WriteFile, SkipPage, OpenPage, WritePage, Put,
                WriteError
  <2> QED
    BY <2>1, SearchStays DEF LogInv
<1> QED
  BY <1>1, <1>2, <1>3 DEF Next

\* SearchInv is an invariant of the event log.
THEOREM SearchInvariance == Spec => []SearchInv
<1>1. Init => SearchInv
  BY IdleSearch DEF Init
<1> QED
  BY <1>1, NextSearchInv, LogInvariance, PagesInvariance, PTL DEF Spec

\* Every variable has its type, the generator's fields among them.
THEOREM TypeCorrect == Spec => [](TypeOK /\ SearchType)
<1>1. LogInv /\ SearchInv => TypeOK /\ SearchType
  BY DEF LogInv, SearchInv
<1> QED
  BY <1>1, LogInvariance, SearchInvariance, PTL

\* A search that ends has yielded, in order, every event that was queued when it
\* began, or the lost event that a page shows in its place.
THEOREM SearchesAreComplete == Spec => []SearchComplete
<1>1. LogInv /\ SearchInv => SearchComplete
  <2> SUFFICES ASSUME LogInv, SearchInv, search.pc = "done"
               PROVE  /\ \A e \in search.must :
                           \E d \in {search.seen[k] : k \in DOMAIN search.seen} :
                             d = e \/ TakesPlaceOf(d, e)
                      /\ \A j, k \in DOMAIN search.seen :
                           j < k => (id[search.seen[k]] - id[search.seen[j]]) * search.step > 0
    BY DEF SearchComplete
  <2>1. /\ search.step \in {1, -1} /\ search.idx = search.stop
        /\ search.must \subseteq Event /\ DOMAIN search.seen = 1..Len(search.seen)
        /\ \A k \in 1..Len(search.seen) : search.seen[k] \in Event
    BY DEF SearchInv, SearchType, SearchPlace
  <2>2. \A e \in Event : id[e] \in Nat
    BY SizesAssumption DEF LogInv, TypeOK, Id
  <2>3. ASSUME NEW e \in search.must
        PROVE  \E d \in {search.seen[k] : k \in DOMAIN search.seen} : d = e \/ TakesPlaceOf(d, e)
    <3>1. Passed(id[e])
      BY <2>1, <2>2 DEF Passed, SearchInv, SearchPlace, SearchSeen
    <3>2. PICK k \in 1..Len(search.seen) : search.seen[k] = e \/ TakesPlaceOf(search.seen[k], e)
      BY <3>1 DEF SearchInv, SearchSeen
    <3> QED
      BY <2>1, <3>2
  <2>4. ASSUME NEW j \in DOMAIN search.seen, NEW k \in DOMAIN search.seen, j < k
        PROVE  (id[search.seen[k]] - id[search.seen[j]]) * search.step > 0
    <3> DEFINE a == id[search.seen[j]]
               b == id[search.seen[k]]
    <3>1. a \in Nat /\ b \in Nat /\ IF search.step = 1 THEN a < b ELSE a > b
      BY <2>1, <2>2, <2>4 DEF SearchInv, SearchSeen
    <3> HIDE DEF a, b
    <3>2. \A x \in Int : x * 1 = x /\ x * (-1) = -x
      OBVIOUS
    <3>3. b - a \in Int
      BY <3>1
    <3>4. (b - a) * search.step = IF search.step = 1 THEN b - a ELSE -(b - a)
      BY <2>1, <3>2, <3>3
    <3>5. (b - a) * search.step > 0
      BY <3>1, <3>4
    <3> QED
      BY <3>5 DEF a, b
  <2> QED
    BY <2>3, <2>4
<1> QED
  BY <1>1, LogInvariance, SearchInvariance, PTL
=============================================================================
