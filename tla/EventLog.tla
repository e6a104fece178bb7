------------------------------- MODULE EventLog -------------------------------
(***************************************************************************)
(* The persistent side of an OpenHands EventStream                         *)
(* (openhands/events/stream.py, event_store.py): add_event, called by the  *)
(* threads of the controller, the runtime and the memory, gives an event   *)
(* its id and its place in the write page under a lock and does everything *)
(* else outside it: it writes the event's file, stores the page when it is *)
(* full, and hands the event to the subscribers' queue.  search_events     *)
(* reads the events back, by page where the page is there, by file         *)
(* otherwise.  A new EventStream on the same session directory             *)
(* (__post_init__) takes its first id from the files it finds.             *)
(*                                                                         *)
(* A file written with open(path, 'w') is empty between the open and the   *)
(* write: both writes of add_event are two steps here.                     *)
(***************************************************************************)
EXTENDS Integers, Sequences, FiniteSets

CONSTANTS Event,       \* the events that callers may add
          Threads,     \* how many threads call add_event at a time
          CacheSize,   \* cache_size
          MaxId,       \* bound: ids run below it
          MaxCrashes,  \* bound on the restarts of the process
          MaxErrors    \* bound on the writes that raise

ASSUME SizesAssumption ==
    /\ Threads \in Nat \ {0}
    /\ CacheSize \in Nat \ {0}
    /\ MaxId \in Nat
    /\ MaxCrashes \in Nat
    /\ MaxErrors \in Nat

Id == 0..MaxId

\* Contents of a file that is no event and no page: not there, or truncated.
Absent == "absent"
Torn == "torn"
NoPage == <<>>
TornPage == <<Torn>>
ASSUME ContentsAssumption == Absent \notin Event /\ Torn \notin Event

VARIABLES
    pc,         \* pc[e]: how far add_event(e) has come
    id,         \* id[e]: the id it gave to e
    page,       \* page[e]: the write page e is on, named by its first id
    curId,      \* cur_id
    mem,        \* mem[p]: the list of the write page p, in memory
    writePage,  \* _write_page_cache
    file,       \* file[i]: the event file of id i
    cache,      \* cache[p]: the cache page file that starts at id p
    search,     \* one search_events generator
    crashes, errors

logVars == <<pc, id, page, curId, mem, writePage, file, cache>>
vars == <<logVars, search, crashes, errors>>

\* add_event(e) is not called yet; e has its id; its file is open; the file is
\* written; the page is open; the page is dealt with; e is in the queue; the
\* call was cut off by a crash or by an exception.
Progress == {"new", "placed", "opened", "written", "pageOpened", "stored",
             "queued", "lost"}

Started(e) == pc[e] \notin {"new", "queued", "lost"}

\* A search that has not begun.
NoSearch == [pc |-> "idle", step |-> 1, idx |-> 0, stop |-> 0, start |-> 1,
             page |-> NoPage, seen |-> <<>>, must |-> {}]

Init ==
    /\ pc = [e \in Event |-> "new"]
    /\ id = [e \in Event |-> 0]
    /\ page = [e \in Event |-> 0]
    /\ curId = 0
    /\ mem = [p \in Id |-> <<>>]
    /\ writePage = 0
    /\ file = [i \in Id |-> Absent]
    /\ cache = [p \in Id |-> NoPage]
    /\ search = NoSearch
    /\ crashes = 0
    /\ errors = 0

-----------------------------------------------------------------------------
(* add_event                                                                *)

\* The body of "with self._lock": the id, the place on the page and, when that
\* fills it, a new page for later events.
Place(e) ==
    LET full == Len(mem[writePage]) + 1 = CacheSize IN
    /\ pc[e] = "new"
    /\ Cardinality({d \in Event : Started(d)}) < Threads
    /\ curId < MaxId
    /\ pc' = [pc EXCEPT ![e] = "placed"]
    /\ id' = [id EXCEPT ![e] = curId]
    /\ page' = [page EXCEPT ![e] = writePage]
    /\ mem' = [mem EXCEPT ![writePage] = Append(@, e)]
    /\ curId' = curId + 1
    /\ writePage' = IF full THEN curId + 1 ELSE writePage
    /\ UNCHANGED <<file, cache, search, crashes, errors>>

\* file_store.write of the event's own file.
OpenFile(e) ==
    /\ pc[e] = "placed"
    /\ pc' = [pc EXCEPT ![e] = "opened"]
    /\ file' = [file EXCEPT ![id[e]] = Torn]
    /\ UNCHANGED <<id, page, curId, mem, writePage, cache, search, crashes, errors>>

WriteFile(e) ==
    /\ pc[e] = "opened"
    /\ pc' = [pc EXCEPT ![e] = "written"]
    /\ file' = [file EXCEPT ![id[e]] = e]
    /\ UNCHANGED <<id, page, curId, mem, writePage, cache, search, crashes, errors>>

\* _store_cache_page: a page that is not full is left alone.
PageFull(e) == Len(mem[page[e]]) >= CacheSize

SkipPage(e) ==
    /\ pc[e] = "written"
    /\ ~PageFull(e)
    /\ pc' = [pc EXCEPT ![e] = "stored"]
    /\ UNCHANGED <<id, page, curId, mem, writePage, file, cache, search, crashes, errors>>

\* start = current_write_page[0]['id']
PageStart_aligned(e) == page[e] - (page[e] % CacheSize)
PageStart(e) == page[e]

OpenPage(e) ==
    /\ pc[e] = "written"
    /\ PageFull(e)
    /\ pc' = [pc EXCEPT ![e] = "pageOpened"]
    /\ cache' = [cache EXCEPT ![PageStart(e)] = TornPage]
    /\ UNCHANGED <<id, page, curId, mem, writePage, file, search, crashes, errors>>

WritePage(e) ==
    /\ pc[e] = "pageOpened"
    /\ pc' = [pc EXCEPT ![e] = "stored"]
    /\ cache' = [cache EXCEPT ![PageStart(e)] = mem[page[e]]]
    /\ UNCHANGED <<id, page, curId, mem, writePage, file, search, crashes, errors>>

\* _queue.put(event)
Put_early(e) ==
    /\ pc[e] \in {"placed", "stored"}
    /\ pc' = [pc EXCEPT ![e] = "queued"]
    /\ UNCHANGED <<id, page, curId, mem, writePage, file, cache, search, crashes, errors>>
Put(e) ==
    /\ pc[e] = "stored"
    /\ pc' = [pc EXCEPT ![e] = "queued"]
    /\ UNCHANGED <<id, page, curId, mem, writePage, file, cache, search, crashes, errors>>

\* The store raises while the file or the page is written: add_event raises.
WriteError(e) ==
    /\ errors < MaxErrors
    /\ pc[e] \in {"placed", "opened", "written", "pageOpened"}
    /\ pc[e] = "written" => PageFull(e)
    /\ pc' = [pc EXCEPT ![e] = "lost"]
    /\ errors' = errors + 1
    /\ UNCHANGED <<id, page, curId, mem, writePage, file, cache, search, crashes>>

-----------------------------------------------------------------------------
(* search_events, over the whole stream                                     *)

\* for index in range(start_id, end_id, step), with end_id = cur_id.
SearchStart ==
    /\ search.pc = "idle"
    /\ \E s \in {1, -1} :
         search' = [NoSearch EXCEPT
                      !.pc = IF curId = 0 THEN "done" ELSE "on",
                      !.step = s,
                      !.idx = IF s = 1 THEN 0 ELSE curId - 1,
                      !.stop = IF s = 1 THEN curId ELSE -1,
                      !.start = -CacheSize,
                      !.must = {e \in Event : pc[e] = "queued"}]
    /\ UNCHANGED <<logVars, crashes, errors>>

\* _CachePage.covers
Covers == search.start <= search.idx /\ search.idx < search.start + CacheSize

\* _load_cache_page_for_index: a page that is not there becomes a page without
\* events; one that is there and does not parse makes the search raise.
SearchLoad ==
    LET p == search.idx - (search.idx % CacheSize) IN
    /\ search.pc = "on"
    /\ ~Covers
    /\ search' = IF cache[p] = TornPage
                 THEN [search EXCEPT !.pc = "raised"]
                 ELSE [search EXCEPT !.start = p, !.page = cache[p]]
    /\ UNCHANGED <<logVars, crashes, errors>>

\* The next index, after event f was yielded, or nothing.
Advance_stopAtGap(f) ==
    [search EXCEPT !.seen = IF f = Absent THEN @ ELSE Append(@, f),
                   !.idx = @ + search.step,
                   !.pc = IF search.idx + search.step = search.stop \/ f = Absent
                          THEN "done" ELSE "on"]
Advance(f) ==
    [search EXCEPT !.seen = IF f = Absent THEN @ ELSE Append(@, f),
                   !.idx = @ + search.step,
                   !.pc = IF search.idx + search.step = search.stop
                          THEN "done" ELSE "on"]

\* page.get_event(index), or the event's own file; a missing file is skipped.
SearchRead ==
    /\ search.pc = "on"
    /\ Covers
    /\ search' = IF search.page # NoPage
                 THEN Advance(search.page[search.idx - search.start + 1])
                 ELSE IF file[search.idx] = Torn
                 THEN [search EXCEPT !.pc = "raised"]
                 ELSE Advance(file[search.idx])
    /\ UNCHANGED <<logVars, crashes, errors>>

-----------------------------------------------------------------------------
(* The process dies and a new EventStream opens the session.                *)

\* __post_init__: one more than the highest id for which there is a file.
IsNextId_count(n) == n = Cardinality({i \in Id : file[i] # Absent})
IsNextId(n) ==
    /\ \A i \in Id : file[i] # Absent => i < n
    /\ n > 0 => file[n - 1] # Absent

Restart ==
    /\ crashes < MaxCrashes
    /\ crashes' = crashes + 1
    /\ \E n \in Id : IsNextId(n) /\ curId' = n /\ writePage' = n
    /\ mem' = [p \in Id |-> <<>>]
    /\ pc' = [e \in Event |-> IF Started(e) THEN "lost" ELSE pc[e]]
    /\ search' = NoSearch
    /\ UNCHANGED <<id, page, file, cache, errors>>

Add(e) ==
    \/ Place(e) \/ OpenFile(e) \/ WriteFile(e)
    \/ SkipPage(e) \/ OpenPage(e) \/ WritePage(e)
    \/ Put(e) \/ WriteError(e)

Search == SearchStart \/ SearchLoad \/ SearchRead

Next == (\E e \in Event : Add(e)) \/ Search \/ Restart

Spec == Init /\ [][Next]_vars

-----------------------------------------------------------------------------
(* Properties                                                               *)

Contents == Event \cup {Absent, Torn}

\* Every variable has its type.
TypeOK ==
    /\ pc \in [Event -> Progress]
    /\ id \in [Event -> Id]
    /\ page \in [Event -> Id]
    /\ curId \in Id
    /\ mem \in [Id -> Seq(Event)]
    /\ writePage \in Id
    /\ file \in [Id -> Contents]
    /\ cache \in [Id -> Seq(Contents)]
    /\ crashes \in 0..MaxCrashes
    /\ errors \in 0..MaxErrors

\* An event that subscribers may have seen is on disk under its id, whole, and
\* no later event takes that id, through every interleaving of adders, failing
\* writes and restarts.
QueuedDurable == \A e \in Event : pc[e] = "queued" => file[id[e]] = e

\* An event file is written once: what add_event has written is never replaced.
FilesImmutable ==
    [][\A i \in Id : file[i] \in Event => file'[i] = file[i]]_file

\* The pages a search looks for are those that start at a multiple of the size.
Aligned == {p \in Id : p % CacheSize = 0}

\* Reading an event through its cache page gives what reading its file gives
\* ("if it is not present during reads then it will simply be bypassed": the
\* page only saves time).  The exception is an event whose add_event was cut off
\* after a neighbour had stored the page: a restart gives its id to another one,
\* and the page goes on showing the lost event.
PageAgrees ==
    \A p \in Aligned : cache[p] \notin {NoPage, TornPage} =>
        \A i \in Id \cap (p..(p + CacheSize - 1)) :
            LET paged == cache[p][i - p + 1] IN
            file[i] \in Event => paged = file[i] \/ pc[paged] = "lost"

\* Event d, lost before its file was whole, stands where e belongs.
TakesPlaceOf(d, e) == pc[d] = "lost" /\ id[d] = id[e]

\* A search that ends has yielded, in the order of the ids (or against it),
\* every event that was in the queue when it began, or the lost event that
\* stands for it in a page; whatever is added meanwhile, and although it counts
\* ids whose files are not written yet.
SearchComplete ==
    search.pc = "done" =>
        /\ \A e \in search.must :
             \E d \in {search.seen[k] : k \in DOMAIN search.seen} : d = e \/ TakesPlaceOf(d, e)
        /\ \A j, k \in DOMAIN search.seen :
             j < k => (id[search.seen[k]] - id[search.seen[j]]) * search.step > 0

-----------------------------------------------------------------------------
(* The inductive invariant behind the proofs.                               *)

\* e has an id of this run of the process, or one that it can never lose.
HasId(e) == Started(e) \/ pc[e] = "queued"

\* Ids are given once: no two events share one, and no file is beyond cur_id.
IdsFresh ==
    /\ \A i \in Id : file[i] # Absent => i < curId
    /\ \A e \in Event : HasId(e) => id[e] < curId
    /\ \A d, e \in Event : HasId(d) /\ HasId(e) /\ d # e => id[d] # id[e]

\* What the file of an event holds follows from how far add_event has come.
FileProgress ==
    \A e \in Event :
        /\ pc[e] = "placed" => file[id[e]] = Absent
        /\ pc[e] = "opened" => file[id[e]] = Torn
        /\ pc[e] \in {"written", "pageOpened", "stored", "queued"} => file[id[e]] = e

LogInv == TypeOK /\ IdsFresh /\ FileProgress

\* l lists events that have their ids, which run from p on.
Holds(l, p) ==
    \A k \in 1..Len(l) : l[k] \in Event /\ id[l[k]] = p + k - 1 /\ pc[l[k]] # "new"

\* The write page ends where the next id begins, and no page is longer than
\* CacheSize: one that add_event found full cannot change any more.
WritePages ==
    /\ writePage + Len(mem[writePage]) = curId
    /\ Len(mem[writePage]) < CacheSize
    /\ \A p \in Id : p > writePage => mem[p] = <<>>
    /\ \A p \in Id : Len(mem[p]) <= CacheSize /\ Holds(mem[p], p)
    /\ \A e \in Event : pc[e] = "pageOpened" => Len(mem[page[e]]) = CacheSize

\* A page or an event's file that was written holds events under their ids.
OnDisk ==
    /\ \A p \in Id : cache[p] \notin {NoPage, TornPage} =>
         Len(cache[p]) = CacheSize /\ Holds(cache[p], p)
    /\ \A i \in Id : file[i] \in Event => id[file[i]] = i /\ pc[file[i]] # "new"

PagesInv == WritePages /\ OnDisk

\* The search has passed id i.
Passed(i) == IF search.step = 1 THEN i < search.idx ELSE i > search.idx

SearchType ==
    search \in [pc : {"idle", "on", "done", "raised"}, step : {1, -1},
                idx : Int, stop : Int, start : Int,
                page : Seq(Contents), seen : Seq(Event), must : SUBSET Event]

\* Where a search is.
SearchPlace ==
    /\ IF search.step = 1 THEN search.stop \in Id ELSE search.stop = -1
    /\ search.pc = "on" => search.idx \in Id /\ (search.step = 1 => search.idx < search.stop)
    /\ search.pc = "done" => search.idx = search.stop
    /\ search.page # NoPage =>
         Len(search.page) = CacheSize /\ Holds(search.page, search.start)

\* What a search has seen: events that it has passed, in order, and among them
\* all that it must see, or those that stand for them.
SearchSeen ==
    /\ \A k \in 1..Len(search.seen) : pc[search.seen[k]] # "new" /\ Passed(id[search.seen[k]])
    /\ \A j, k \in 1..Len(search.seen) : j < k =>
         IF search.step = 1 THEN id[search.seen[j]] < id[search.seen[k]]
                            ELSE id[search.seen[j]] > id[search.seen[k]]
    /\ \A e \in search.must :
         /\ pc[e] = "queued"
         /\ search.step = 1 => id[e] < search.stop
         /\ Passed(id[e]) => \E k \in 1..Len(search.seen) :
              search.seen[k] = e \/ TakesPlaceOf(search.seen[k], e)

SearchInv == SearchType /\ SearchPlace /\ SearchSeen
=============================================================================
