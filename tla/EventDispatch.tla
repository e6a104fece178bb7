---------------------------- MODULE EventDispatch ----------------------------
(***************************************************************************)
(* The live side of an OpenHands EventStream (openhands/events/stream.py): *)
(* one daemon thread (_process_queue) takes events from the queue and      *)
(* submits each to the thread pool, with one worker, of every registered   *)
(* callback.  The thread that owns the stream subscribes, unsubscribes and *)
(* closes it meanwhile.  The registry (_subscribers) and the pools         *)
(* (_thread_pools) are two dictionaries changed one after the other, with  *)
(* no lock.                                                                *)
(*                                                                         *)
(* Events are numbered in the order of _queue.                             *)
(***************************************************************************)
EXTENDS Integers, Sequences, FiniteSets

CONSTANTS Callback,        \* pairs of a subscriber id and a callback id
          KeyOf,           \* KeyOf[c]: rank of its subscriber id in sorted order
          Initial,         \* callbacks subscribed before the first event
          Late,            \* callbacks the owner may subscribe later, once each
          MayUnsubscribe,  \* callbacks the owner may unsubscribe
          MayClose,        \* whether the owner may close the stream
          MaxEvents        \* bound: how many events are put

ASSUME SetsAssumption ==
    /\ KeyOf \in [Callback -> Nat]
    /\ Initial \subseteq Callback
    /\ Late \subseteq Callback \ Initial
    /\ MayUnsubscribe \subseteq Callback
    /\ MayClose \in BOOLEAN
    /\ MaxEvents \in Nat

Ev == 1..MaxEvents
NoEvent == 0
Nobody == "nobody"

VARIABLES
    queue,       \* _queue
    putCount,    \* events put so far
    stopFlag,    \* _stop_flag
    registered,  \* the callbacks in _subscribers
    known,       \* the callbacks that ever were: a subscriber id keeps its entry
    pool,        \* pool[c]: its thread pool: not in _thread_pools, open, shut down
    pending,     \* pending[c]: work queue of that pool
    running,     \* running[c]: the event its worker is handling
    handled,     \* handled[c]: the events its callback has been run with
    disp,        \* where the dispatcher thread is
    cur,         \* the event it distributes
    keysLeft,    \* subscriber ids it has not come to yet
    idsLeft,     \* callbacks of the current one it has not come to yet
    target,      \* the callback it is about to submit to
    owner        \* what the owner thread does: its step and its callback

queueVars == <<queue, putCount>>
workVars == <<running, handled>>
dispVars == <<disp, cur, keysLeft, idsLeft, target>>
vars == <<queueVars, stopFlag, registered, known, pool, pending, workVars, dispVars, owner>>

DispPC == {"top", "get", "iter", "lookup", "submit", "stopped", "dead"}

\* The owner between two calls; within subscribe; within _clean_up_subscriber
\* called by unsubscribe or by close; within close; after close.
OwnerPC == {"idle", "addPool", "shutdown", "delPool", "delCallback",
            "join", "closing", "closed"}

Init ==
    /\ queue = <<>>
    /\ putCount = 0
    /\ stopFlag = FALSE
    /\ registered = Initial
    /\ known = Initial
    /\ pool = [c \in Callback |-> IF c \in Initial THEN "open" ELSE "none"]
    /\ pending = [c \in Callback |-> <<>>]
    /\ running = [c \in Callback |-> NoEvent]
    /\ handled = [c \in Callback |-> <<>>]
    /\ disp = "top"
    /\ cur = NoEvent
    /\ keysLeft = {}
    /\ idsLeft = {}
    /\ target = Nobody
    /\ owner = [pc |-> "idle", on |-> Nobody]

\* add_event, once the event is stored.
Put ==
    /\ putCount < MaxEvents
    /\ putCount' = putCount + 1
    /\ queue' = Append(queue, putCount + 1)
    /\ UNCHANGED <<stopFlag, registered, known, pool, pending, workVars, dispVars, owner>>

-----------------------------------------------------------------------------
(* _process_queue                                                           *)

\* while not self._stop_flag.is_set()
DispatchTop_neverStops ==
    /\ disp = "top"
    /\ disp' = "get"
    /\ UNCHANGED <<queueVars, stopFlag, registered, known, pool, pending, workVars,
                   cur, keysLeft, idsLeft, target, owner>>
DispatchTop ==
    /\ disp = "top"
    /\ disp' = IF stopFlag THEN "stopped" ELSE "get"
    /\ UNCHANGED <<queueVars, stopFlag, registered, known, pool, pending, workVars,
                   cur, keysLeft, idsLeft, target, owner>>

\* The keys of _subscribers.
Keys == {KeyOf[c] : c \in known}

\* queue.get(timeout=0.1), with an event
DispatchGet ==
    /\ disp = "get"
    /\ queue # <<>>
    /\ cur' = Head(queue)
    /\ queue' = Tail(queue)
    /\ keysLeft' = Keys
    /\ disp' = "iter"
    /\ UNCHANGED <<putCount, stopFlag, registered, known, pool, pending, workVars,
                   idsLeft, target, owner>>

\* queue.get(timeout=0.1), without
DispatchEmpty ==
    /\ disp = "get"
    /\ queue = <<>>
    /\ disp' = "top"
    /\ UNCHANGED <<queueVars, stopFlag, registered, known, pool, pending, workVars,
                   cur, keysLeft, idsLeft, target, owner>>

\* for key in sorted(...): the callbacks of the next key, as a copy
DispatchKey ==
    /\ disp = "iter"
    /\ idsLeft = {}
    /\ \E k \in keysLeft :
         /\ \A j \in keysLeft : k <= j
         /\ keysLeft' = keysLeft \ {k}
         /\ idsLeft' = {c \in registered : KeyOf[c] = k}
    /\ UNCHANGED <<queueVars, stopFlag, registered, known, pool, pending, workVars,
                   disp, cur, target, owner>>

DispatchDone ==
    /\ disp = "iter"
    /\ idsLeft = {}
    /\ keysLeft = {}
    /\ disp' = "top"
    /\ UNCHANGED <<queueVars, stopFlag, registered, known, pool, pending, workVars,
                   cur, keysLeft, idsLeft, target, owner>>

\* if callback_id in callbacks
DispatchCheck_break(c) ==
    /\ disp = "iter"
    /\ c \in idsLeft
    /\ idsLeft' = {}
    /\ IF c \in registered
       THEN disp' = "lookup" /\ target' = c
       ELSE UNCHANGED <<disp, target>>
    /\ UNCHANGED <<queueVars, stopFlag, registered, known, pool, pending, workVars,
                   cur, keysLeft, owner>>
DispatchCheck(c) ==
    /\ disp = "iter"
    /\ c \in idsLeft
    /\ idsLeft' = idsLeft \ {c}
    /\ IF c \in registered
       THEN disp' = "lookup" /\ target' = c
       ELSE UNCHANGED <<disp, target>>
    /\ UNCHANGED <<queueVars, stopFlag, registered, known, pool, pending, workVars,
                   cur, keysLeft, owner>>

\* callbacks[callback_id] and self._thread_pools[key][callback_id]: a KeyError
\* in either ends the thread.
DispatchLookup ==
    /\ disp = "lookup"
    /\ disp' = IF target \in registered /\ pool[target] # "none"
               THEN "submit" ELSE "dead"
    /\ UNCHANGED <<queueVars, stopFlag, registered, known, pool, pending, workVars,
                   cur, keysLeft, idsLeft, target, owner>>

\* pool.submit(callback, event): on a pool that was shut down it raises, and
\* ends the thread.
DispatchSubmit ==
    /\ disp = "submit"
    /\ IF pool[target] = "open"
       THEN /\ pending' = [pending EXCEPT ![target] = Append(@, cur)]
            /\ disp' = "iter"
       ELSE /\ disp' = "dead"
            /\ UNCHANGED pending
    /\ UNCHANGED <<queueVars, stopFlag, registered, known, pool, workVars,
                   cur, keysLeft, idsLeft, target, owner>>

Dispatch ==
    \/ DispatchTop \/ DispatchGet \/ DispatchEmpty
    \/ DispatchKey \/ DispatchDone
    \/ \E c \in Callback : DispatchCheck(c)
    \/ DispatchLookup \/ DispatchSubmit

-----------------------------------------------------------------------------
(* The single worker of each pool; a callback may raise, which is logged.   *)

Begin_newest(c) ==
    /\ running[c] = NoEvent
    /\ pending[c] # <<>>
    /\ running' = [running EXCEPT ![c] = pending[c][Len(pending[c])]]
    /\ pending' = [pending EXCEPT ![c] = SubSeq(@, 1, Len(@) - 1)]
    /\ UNCHANGED <<queueVars, stopFlag, registered, known, pool, handled, dispVars, owner>>
Begin(c) ==
    /\ running[c] = NoEvent
    /\ pending[c] # <<>>
    /\ running' = [running EXCEPT ![c] = Head(pending[c])]
    /\ pending' = [pending EXCEPT ![c] = Tail(@)]
    /\ UNCHANGED <<queueVars, stopFlag, registered, known, pool, handled, dispVars, owner>>

End(c) ==
    /\ running[c] # NoEvent
    /\ handled' = [handled EXCEPT ![c] = Append(@, running[c])]
    /\ running' = [running EXCEPT ![c] = NoEvent]
    /\ UNCHANGED <<queueVars, stopFlag, registered, known, pool, pending, dispVars, owner>>

Work(c) == Begin(c) \/ End(c)

-----------------------------------------------------------------------------
(* The owner: subscribe, unsubscribe, close                                 *)

Goto(p, c) == owner' = [pc |-> p, on |-> c]

\* subscribe: the callback first, ...
Subscribe(c) ==
    /\ owner.pc = "idle"
    /\ c \in Late \ known
    /\ registered' = registered \cup {c}
    /\ known' = known \cup {c}
    /\ Goto("addPool", c)
    /\ UNCHANGED <<queueVars, stopFlag, pool, pending, workVars, dispVars>>

\* ... its pool second.
SubscribePool ==
    /\ owner.pc = "addPool"
    /\ pool' = [pool EXCEPT ![owner.on] = "open"]
    /\ Goto("idle", Nobody)
    /\ UNCHANGED <<queueVars, stopFlag, registered, known, pending, workVars, dispVars>>

Unsubscribe(c) ==
    /\ owner.pc = "idle"
    /\ c \in MayUnsubscribe
    /\ c \in registered
    /\ pool' = [pool EXCEPT ![c] = "shut"]
    /\ Goto("shutdown", c)
    /\ UNCHANGED <<queueVars, stopFlag, registered, known, pending, workVars, dispVars>>

\* _clean_up_subscriber.  pool.shutdown() refuses new work, then waits until the
\* worker has drained the pool.
CleanShutdown_noWait ==
    /\ owner.pc = "shutdown"
    /\ Goto("delPool", owner.on)
    /\ UNCHANGED <<queueVars, stopFlag, registered, known, pool, pending, workVars, dispVars>>
CleanShutdown ==
    /\ owner.pc = "shutdown"
    /\ pending[owner.on] = <<>> /\ running[owner.on] = NoEvent
    /\ Goto("delPool", owner.on)
    /\ UNCHANGED <<queueVars, stopFlag, registered, known, pool, pending, workVars, dispVars>>

\* del self._thread_pools[subscriber_id][callback_id]
CleanPool ==
    /\ owner.pc = "delPool"
    /\ pool' = [pool EXCEPT ![owner.on] = "none"]
    /\ Goto("delCallback", owner.on)
    /\ UNCHANGED <<queueVars, stopFlag, registered, known, pending, workVars, dispVars>>

\* del self._subscribers[subscriber_id][callback_id]
CleanCallback ==
    /\ owner.pc = "delCallback"
    /\ registered' = registered \ {owner.on}
    /\ Goto(IF stopFlag THEN "closing" ELSE "idle", Nobody)
    /\ UNCHANGED <<queueVars, stopFlag, known, pool, pending, workVars, dispVars>>

\* close: set the flag, ...
Close ==
    /\ MayClose
    /\ owner.pc = "idle"
    /\ stopFlag' = TRUE
    /\ Goto("join", Nobody)
    /\ UNCHANGED <<queueVars, registered, known, pool, pending, workVars, dispVars>>

\* ... join the dispatcher, ...
CloseJoin ==
    /\ owner.pc = "join"
    /\ disp \in {"stopped", "dead"}
    /\ Goto("closing", Nobody)
    /\ UNCHANGED <<queueVars, stopFlag, registered, known, pool, pending, workVars, dispVars>>

\* ... clean up every subscriber, ...
CloseSubscriber(c) ==
    /\ owner.pc = "closing"
    /\ c \in registered
    /\ pool' = [pool EXCEPT ![c] = "shut"]
    /\ Goto("shutdown", c)
    /\ UNCHANGED <<queueVars, stopFlag, registered, known, pending, workVars, dispVars>>

\* ... and clear the queue.
CloseQueue ==
    /\ owner.pc = "closing"
    /\ registered = {}
    /\ queue' = <<>>
    /\ Goto("closed", Nobody)
    /\ UNCHANGED <<putCount, stopFlag, registered, known, pool, pending, workVars, dispVars>>

\* What a call of the owner does once it has begun.
OwnerStep ==
    \/ SubscribePool
    \/ CleanShutdown \/ CleanPool \/ CleanCallback
    \/ CloseJoin \/ CloseQueue
    \/ \E c \in Callback : CloseSubscriber(c)

OwnerCall == Close \/ \E c \in Callback : Subscribe(c) \/ Unsubscribe(c)

Next ==
    \/ Put
    \/ Dispatch
    \/ \E c \in Callback : Work(c)
    \/ OwnerStep
    \/ OwnerCall

Spec == Init /\ [][Next]_vars

\* Threads are scheduled and callbacks return; nothing makes anyone put an
\* event or call the stream.
Fairness ==
    /\ WF_vars(Dispatch)
    /\ \A c \in Callback : WF_vars(Work(c))
    /\ WF_vars(OwnerStep)

FairSpec == Spec /\ Fairness

-----------------------------------------------------------------------------
(* Properties                                                               *)

\* Every variable has its type: a callback is only ever given an event.
TypeOK ==
    /\ queue \in Seq(Ev)
    /\ putCount \in 0..MaxEvents
    /\ stopFlag \in BOOLEAN
    /\ registered \subseteq known /\ known \subseteq Callback
    /\ pool \in [Callback -> {"none", "open", "shut"}]
    /\ pending \in [Callback -> Seq(Ev)]
    /\ running \in [Callback -> Ev \cup {NoEvent}]
    /\ handled \in [Callback -> Seq(Ev)]
    /\ disp \in DispPC
    /\ cur \in Ev \cup {NoEvent}
    /\ idsLeft \subseteq Callback
    /\ owner \in [pc : OwnerPC, on : Callback \cup {Nobody}]

\* What a callback has handled, is handling and will handle.
Stream(c) ==
    handled[c] \o (IF running[c] = NoEvent THEN <<>> ELSE <<running[c]>>) \o pending[c]

\* A callback gets the events in the order of the queue and, from the first one
\* it gets, without a gap, whoever else is subscribed or removed meanwhile
\* ("pass each event to each callback in order").
InOrder ==
    \A c \in Callback : \A k \in 1..(Len(Stream(c)) - 1) :
        Stream(c)[k + 1] = Stream(c)[k] + 1

\* When unsubscribe or close has returned, the callbacks it removed are not
\* running and will not run again.
QuietAfterCleanup ==
    \A c \in Callback :
        c \notin registered => pending[c] = <<>> /\ running[c] = NoEvent

\* close returns, whatever the dispatcher and the callbacks are doing.
CloseReturns == (owner.pc = "join") ~> (owner.pc = "closed")

\* Every event that is put is handled by every callback subscribed before it,
\* unless the callback leaves, the stream is closed or the dispatcher has died.
AllDelivered ==
    \A e \in Ev : \A c \in Initial :
        (putCount >= e) ~> \/ \E k \in DOMAIN handled[c] : handled[c][k] = e
                           \/ pool[c] # "open"
                           \/ stopFlag
                           \/ disp = "dead"

\* The dispatcher outlives changes of the registry ("Check if callback_id still
\* exists (might have been removed during iteration)").
DispatcherSurvives == disp # "dead"
=============================================================================
