------------------------- MODULE EventDispatchProofs -------------------------
(***************************************************************************)
(* Proofs about EventDispatch, for every set of callbacks and any number   *)
(* of events.  InOrder rests on Progress: between two events each open     *)
(* callback has been given the event the dispatcher distributes or, while  *)
(* the dispatcher has not come to it yet, the one before.                  *)
(***************************************************************************)
EXTENDS EventDispatch, TLAPS, SequenceTheorems

Stopped == {"stopped", "dead"}

Types ==
    /\ TypeOK
    /\ keysLeft \subseteq Nat
    /\ target \in Callback \cup {Nobody}

\* An open pool belongs to a registered callback; the one being removed is
\* registered until the last step, with its pool shut, then drained, then gone.
Removal ==
    /\ \A c \in Callback : pool[c] = "open" => c \in registered
    /\ owner.pc \in {"addPool", "shutdown", "delPool", "delCallback"} =>
           owner.on \in registered
    /\ owner.pc \in {"shutdown", "delPool"} => pool[owner.on] = "shut"
    /\ owner.pc = "delCallback" => pool[owner.on] = "none"
    /\ owner.pc \in {"delPool", "delCallback"} =>
           pending[owner.on] = <<>> /\ running[owner.on] = NoEvent

\* A callback without a pool yet has been given nothing.
Fresh ==
    \A c \in Callback :
        c \notin known \/ (owner.pc = "addPool" /\ owner.on = c) =>
            /\ pool[c] = "none"
            /\ pending[c] = <<>> /\ running[c] = NoEvent /\ handled[c] = <<>>

\* What close has set and waited for.
Closing ==
    /\ owner.pc \in {"join", "closing", "closed"} => stopFlag
    /\ stopFlag /\ owner.pc # "join" => disp \in Stopped

\* The queue holds the events after the current one.
Consecutive ==
    disp \notin Stopped =>
        /\ cur + Len(queue) = putCount
        /\ \A k \in 1..Len(queue) : queue[k] = cur + k

\* The dispatcher comes to each callback once per event.
Turn ==
    /\ disp \in {"top", "get"} => idsLeft = {} /\ keysLeft = {}
    /\ \A c \in idsLeft : KeyOf[c] \notin keysLeft
    /\ disp \in {"lookup", "submit"} =>
           target \in Callback /\ target \notin idsLeft /\ KeyOf[target] \notin keysLeft
    /\ disp \in {"iter", "lookup", "submit"} => cur # NoEvent

\* The dispatcher has yet to come to c with the current event.
Awaits(c) ==
    \/ KeyOf[c] \in keysLeft
    \/ c \in idsLeft
    \/ disp \in {"lookup", "submit"} /\ target = c

Progress ==
    disp \notin Stopped =>
        \A c \in Callback :
            pool[c] = "open" /\ Stream(c) # <<>> =>
                Stream(c)[Len(Stream(c))] = IF Awaits(c) THEN cur - 1 ELSE cur

Orderly ==
    /\ Types
    /\ Removal
    /\ Fresh
    /\ Closing
    /\ Consecutive
    /\ Turn
    /\ Progress
    /\ InOrder
    /\ QuietAfterCleanup

-----------------------------------------------------------------------------
(* Orderly is inductive: first the parts that say nothing about Stream.      *)

LEMMA OrderlyInit == Init => Orderly
<1> SUFFICES ASSUME Init PROVE Orderly
  OBVIOUS
<1> USE SetsAssumption DEF Init, NoEvent
<1>1. Types
  <2>1. <<>> \in Seq(Ev) /\ 0 \in 0..MaxEvents
    BY EmptySeq
  <2>2. owner \in [pc : OwnerPC, on : Callback \cup {Nobody}]
    BY DEF OwnerPC
  <2> QED BY <2>1, <2>2 DEF Types, TypeOK, DispPC
<1>2. Removal /\ Fresh /\ Closing /\ Consecutive /\ Turn /\ QuietAfterCleanup
  BY DEF Removal, Fresh, Closing, Consecutive, Turn, QuietAfterCleanup, Stopped, Nobody
<1>3. \A c \in Callback : Stream(c) = <<>>
  BY DEF Stream
<1>4. Progress /\ InOrder
  BY <1>3 DEF Progress, InOrder
<1> QED BY <1>1, <1>2, <1>4 DEF Orderly

\* Every step of the type invariant.
LEMMA TypesStep == Orderly /\ [Next]_vars => Types'
<1> SUFFICES ASSUME Orderly, [Next]_vars PROVE Types'
  OBVIOUS
<1> USE SetsAssumption DEF Orderly, Types, TypeOK, queueVars, workVars, dispVars, Goto, Ev,
        DispPC, OwnerPC, NoEvent
<1>1. CASE UNCHANGED vars
  BY <1>1 DEF vars
<1>2. CASE Put
  <2>1. putCount + 1 \in Ev /\ putCount' \in 0..MaxEvents
    BY <1>2 DEF Put
  <2>2. queue' \in Seq(Ev)
    BY <1>2, <2>1, AppendProperties DEF Put
  <2>3. UNCHANGED <<stopFlag, registered, known, pool, pending, workVars, dispVars, owner>>
    BY <1>2 DEF Put
  <2> QED BY <2>1, <2>2, <2>3
<1>3. CASE DispatchTop
  BY <1>3 DEF DispatchTop
<1>4. CASE DispatchGet
  <2>1. Head(queue) \in Ev /\ Tail(queue) \in Seq(Ev)
    BY <1>4, HeadTailProperties DEF DispatchGet
  <2>2. Keys \subseteq Nat
    BY DEF Keys
  <2> QED BY <1>4, <2>1, <2>2 DEF DispatchGet
<1>5. CASE DispatchEmpty
  BY <1>5 DEF DispatchEmpty
<1>6. CASE DispatchKey
  BY <1>6 DEF DispatchKey
<1>7. CASE DispatchDone
  BY <1>7 DEF DispatchDone
<1>8. ASSUME NEW c \in Callback, DispatchCheck(c) PROVE Types'
  BY <1>8 DEF DispatchCheck
<1>9. CASE DispatchLookup
  BY <1>9 DEF DispatchLookup
<1>10. CASE DispatchSubmit
  <2>1. pool[target] = "open" => cur \in Ev /\ target \in Callback
    BY <1>10 DEF DispatchSubmit, Turn
  <2>2. \A d \in Callback : cur \in Ev => Append(pending[d], cur) \in Seq(Ev)
    BY AppendProperties
  <2>3. CASE pool[target] = "open"
    <3>1. pending' = [pending EXCEPT ![target] = Append(pending[target], cur)] /\ disp' = "iter"
      BY <1>10, <2>3 DEF DispatchSubmit
    <3>2. pending' \in [Callback -> Seq(Ev)]
      BY <3>1, <2>1, <2>2, <2>3
    <3> QED BY <1>10, <3>1, <3>2 DEF DispatchSubmit
  <2>4. CASE pool[target] # "open"
    BY <1>10, <2>4 DEF DispatchSubmit
  <2> QED BY <2>3, <2>4
<1>11. ASSUME NEW c \in Callback, Begin(c) PROVE Types'
  <2>1. Head(pending[c]) \in Ev /\ Tail(pending[c]) \in Seq(Ev)
    BY <1>11, HeadTailProperties DEF Begin
  <2>2. pending' \in [Callback -> Seq(Ev)] /\ running' \in [Callback -> Ev \cup {NoEvent}]
    BY <1>11, <2>1 DEF Begin
  <2> QED BY <1>11, <2>2 DEF Begin
<1>12. ASSUME NEW c \in Callback, End(c) PROVE Types'
  <2>1. Append(handled[c], running[c]) \in Seq(Ev)
    BY <1>12, AppendProperties DEF End
  <2> QED BY <1>12, <2>1 DEF End
<1>13. ASSUME NEW c \in Callback, Subscribe(c) PROVE Types'
  BY <1>13 DEF Subscribe
<1>14. CASE SubscribePool
  BY <1>14 DEF SubscribePool
<1>15. ASSUME NEW c \in Callback, Unsubscribe(c) PROVE Types'
  BY <1>15 DEF Unsubscribe
<1>16. CASE CleanShutdown
  BY <1>16 DEF CleanShutdown
<1>17. CASE CleanPool
  BY <1>17 DEF CleanPool
<1>18. CASE CleanCallback
  BY <1>18 DEF CleanCallback
<1>19. CASE Close
  BY <1>19 DEF Close
<1>20. CASE CloseJoin
  BY <1>20 DEF CloseJoin
<1>21. ASSUME NEW c \in Callback, CloseSubscriber(c) PROVE Types'
  BY <1>21 DEF CloseSubscriber
<1>22. CASE CloseQueue
  BY <1>22 DEF CloseQueue
<1> QED BY <1>1, <1>2, <1>3, <1>4, <1>5, <1>6, <1>7, <1>8, <1>9, <1>10, <1>11, <1>12, <1>13,
     <1>14, <1>15, <1>16, <1>17, <1>18, <1>19, <1>20, <1>21, <1>22 DEF Next, Dispatch, Work,
     OwnerStep, OwnerCall

LEMMA RemovalStep == Orderly /\ [Next]_vars => Removal'
<1> SUFFICES ASSUME Orderly, [Next]_vars PROVE Removal'
  OBVIOUS
<1> USE SetsAssumption DEF Orderly, Types, TypeOK, Removal, Fresh, queueVars, workVars,
        dispVars, Goto, NoEvent
<1>1. CASE UNCHANGED vars
  BY <1>1 DEF vars
<1>2. CASE Put
  BY <1>2 DEF Put
<1>3. CASE DispatchTop
  BY <1>3 DEF DispatchTop
<1>4. CASE DispatchGet
  BY <1>4 DEF DispatchGet
<1>5. CASE DispatchEmpty
  BY <1>5 DEF DispatchEmpty
<1>6. CASE DispatchKey
  BY <1>6 DEF DispatchKey
<1>7. CASE DispatchDone
  BY <1>7 DEF DispatchDone
<1>8. ASSUME NEW c \in Callback, DispatchCheck(c) PROVE Removal'
  BY <1>8 DEF DispatchCheck
<1>9. CASE DispatchLookup
  BY <1>9 DEF DispatchLookup
<1>10. CASE DispatchSubmit
  BY <1>10 DEF DispatchSubmit
<1>11. ASSUME NEW c \in Callback, Begin(c) PROVE Removal'
  BY <1>11 DEF Begin
<1>12. ASSUME NEW c \in Callback, End(c) PROVE Removal'
  BY <1>12 DEF End
<1>13. ASSUME NEW c \in Callback, Subscribe(c) PROVE Removal'
  BY <1>13 DEF Subscribe
<1>14. CASE SubscribePool
  BY <1>14 DEF SubscribePool
<1>15. ASSUME NEW c \in Callback, Unsubscribe(c) PROVE Removal'
  BY <1>15 DEF Unsubscribe
<1>16. CASE CleanShutdown
  BY <1>16 DEF CleanShutdown
<1>17. CASE CleanPool
  BY <1>17 DEF CleanPool
<1>18. CASE CleanCallback
  BY <1>18 DEF CleanCallback
<1>19. CASE Close
  BY <1>19 DEF Close
<1>20. CASE CloseJoin
  BY <1>20 DEF CloseJoin
<1>21. ASSUME NEW c \in Callback, CloseSubscriber(c) PROVE Removal'
  BY <1>21 DEF CloseSubscriber
<1>22. CASE CloseQueue
  BY <1>22 DEF CloseQueue
<1> QED BY <1>1, <1>2, <1>3, <1>4, <1>5, <1>6, <1>7, <1>8, <1>9, <1>10, <1>11, <1>12, <1>13,
     <1>14, <1>15, <1>16, <1>17, <1>18, <1>19, <1>20, <1>21, <1>22 DEF Next, Dispatch, Work,
     OwnerStep, OwnerCall

LEMMA FreshStep == Orderly /\ [Next]_vars => Fresh'
<1> SUFFICES ASSUME Orderly, [Next]_vars PROVE Fresh'
  OBVIOUS
<1> USE SetsAssumption DEF Orderly, Types, TypeOK, Removal, Fresh, queueVars, workVars,
        dispVars, Goto, NoEvent
<1>1. CASE UNCHANGED vars
  BY <1>1 DEF vars
<1>2. CASE Put
  BY <1>2 DEF Put
<1>3. CASE DispatchTop
  BY <1>3 DEF DispatchTop
<1>4. CASE DispatchGet
  BY <1>4 DEF DispatchGet
<1>5. CASE DispatchEmpty
  BY <1>5 DEF DispatchEmpty
<1>6. CASE DispatchKey
  BY <1>6 DEF DispatchKey
<1>7. CASE DispatchDone
  BY <1>7 DEF DispatchDone
<1>8. ASSUME NEW c \in Callback, DispatchCheck(c) PROVE Fresh'
  BY <1>8 DEF DispatchCheck
<1>9. CASE DispatchLookup
  BY <1>9 DEF DispatchLookup
<1>10. CASE DispatchSubmit
  BY <1>10 DEF DispatchSubmit
<1>11. ASSUME NEW c \in Callback, Begin(c) PROVE Fresh'
  BY <1>11 DEF Begin
<1>12. ASSUME NEW c \in Callback, End(c) PROVE Fresh'
  BY <1>12 DEF End
<1>13. ASSUME NEW c \in Callback, Subscribe(c) PROVE Fresh'
  BY <1>13 DEF Subscribe
<1>14. CASE SubscribePool
  BY <1>14 DEF SubscribePool
<1>15. ASSUME NEW c \in Callback, Unsubscribe(c) PROVE Fresh'
  BY <1>15 DEF Unsubscribe
<1>16. CASE CleanShutdown
  BY <1>16 DEF CleanShutdown
<1>17. CASE CleanPool
  BY <1>17 DEF CleanPool
<1>18. CASE CleanCallback
  BY <1>18 DEF CleanCallback
<1>19. CASE Close
  BY <1>19 DEF Close
<1>20. CASE CloseJoin
  BY <1>20 DEF CloseJoin
<1>21. ASSUME NEW c \in Callback, CloseSubscriber(c) PROVE Fresh'
  BY <1>21 DEF CloseSubscriber
<1>22. CASE CloseQueue
  BY <1>22 DEF CloseQueue
<1> QED BY <1>1, <1>2, <1>3, <1>4, <1>5, <1>6, <1>7, <1>8, <1>9, <1>10, <1>11, <1>12, <1>13,
     <1>14, <1>15, <1>16, <1>17, <1>18, <1>19, <1>20, <1>21, <1>22 DEF Next, Dispatch, Work,
     OwnerStep, OwnerCall

LEMMA ClosingStep == Orderly /\ [Next]_vars => Closing'
<1> SUFFICES ASSUME Orderly, [Next]_vars PROVE Closing'
  OBVIOUS
<1> USE SetsAssumption DEF Orderly, Types, TypeOK, Closing, Stopped, queueVars, workVars,
        dispVars, Goto, OwnerPC
<1>1. CASE UNCHANGED vars
  BY <1>1 DEF vars
<1>2. CASE Put
  BY <1>2 DEF Put
<1>3. CASE DispatchTop
  BY <1>3 DEF DispatchTop
<1>4. CASE DispatchGet
  BY <1>4 DEF DispatchGet
<1>5. CASE DispatchEmpty
  BY <1>5 DEF DispatchEmpty
<1>6. CASE DispatchKey
  BY <1>6 DEF DispatchKey
<1>7. CASE DispatchDone
  BY <1>7 DEF DispatchDone
<1>8. ASSUME NEW c \in Callback, DispatchCheck(c) PROVE Closing'
  BY <1>8 DEF DispatchCheck
<1>9. CASE DispatchLookup
  BY <1>9 DEF DispatchLookup
<1>10. CASE DispatchSubmit
  BY <1>10 DEF DispatchSubmit
<1>11. ASSUME NEW c \in Callback, Begin(c) PROVE Closing'
  BY <1>11 DEF Begin
<1>12. ASSUME NEW c \in Callback, End(c) PROVE Closing'
  BY <1>12 DEF End
<1>13. ASSUME NEW c \in Callback, Subscribe(c) PROVE Closing'
  BY <1>13 DEF Subscribe
<1>14. CASE SubscribePool
  BY <1>14 DEF SubscribePool
<1>15. ASSUME NEW c \in Callback, Unsubscribe(c) PROVE Closing'
  BY <1>15 DEF Unsubscribe
<1>16. CASE CleanShutdown
  BY <1>16 DEF CleanShutdown
<1>17. CASE CleanPool
  BY <1>17 DEF CleanPool
<1>18. CASE CleanCallback
  BY <1>18 DEF CleanCallback
<1>19. CASE Close
  BY <1>19 DEF Close
<1>20. CASE CloseJoin
  BY <1>20 DEF CloseJoin
<1>21. ASSUME NEW c \in Callback, CloseSubscriber(c) PROVE Closing'
  BY <1>21 DEF CloseSubscriber
<1>22. CASE CloseQueue
  BY <1>22 DEF CloseQueue
<1> QED BY <1>1, <1>2, <1>3, <1>4, <1>5, <1>6, <1>7, <1>8, <1>9, <1>10, <1>11, <1>12, <1>13,
     <1>14, <1>15, <1>16, <1>17, <1>18, <1>19, <1>20, <1>21, <1>22 DEF Next, Dispatch, Work,
     OwnerStep, OwnerCall

LEMMA QuietStep == Orderly /\ [Next]_vars => QuietAfterCleanup'
<1> SUFFICES ASSUME Orderly, [Next]_vars PROVE QuietAfterCleanup'
  OBVIOUS
<1> USE SetsAssumption DEF Orderly, Types, TypeOK, Removal, QuietAfterCleanup, queueVars,
        workVars, dispVars, Goto, NoEvent
<1>1. CASE UNCHANGED vars
  BY <1>1 DEF vars
<1>2. CASE Put
  BY <1>2 DEF Put
<1>3. CASE DispatchTop
  BY <1>3 DEF DispatchTop
<1>4. CASE DispatchGet
  BY <1>4 DEF DispatchGet
<1>5. CASE DispatchEmpty
  BY <1>5 DEF DispatchEmpty
<1>6. CASE DispatchKey
  BY <1>6 DEF DispatchKey
<1>7. CASE DispatchDone
  BY <1>7 DEF DispatchDone
<1>8. ASSUME NEW c \in Callback, DispatchCheck(c) PROVE QuietAfterCleanup'
  BY <1>8 DEF DispatchCheck
<1>9. CASE DispatchLookup
  BY <1>9 DEF DispatchLookup
<1>10. CASE DispatchSubmit
  BY <1>10 DEF DispatchSubmit
<1>11. ASSUME NEW c \in Callback, Begin(c) PROVE QuietAfterCleanup'
  BY <1>11 DEF Begin
<1>12. ASSUME NEW c \in Callback, End(c) PROVE QuietAfterCleanup'
  BY <1>12 DEF End
<1>13. ASSUME NEW c \in Callback, Subscribe(c) PROVE QuietAfterCleanup'
  BY <1>13 DEF Subscribe
<1>14. CASE SubscribePool
  BY <1>14 DEF SubscribePool
<1>15. ASSUME NEW c \in Callback, Unsubscribe(c) PROVE QuietAfterCleanup'
  BY <1>15 DEF Unsubscribe
<1>16. CASE CleanShutdown
  BY <1>16 DEF CleanShutdown
<1>17. CASE CleanPool
  BY <1>17 DEF CleanPool
<1>18. CASE CleanCallback
  BY <1>18 DEF CleanCallback
<1>19. CASE Close
  BY <1>19 DEF Close
<1>20. CASE CloseJoin
  BY <1>20 DEF CloseJoin
<1>21. ASSUME NEW c \in Callback, CloseSubscriber(c) PROVE QuietAfterCleanup'
  BY <1>21 DEF CloseSubscriber
<1>22. CASE CloseQueue
  BY <1>22 DEF CloseQueue
<1> QED BY <1>1, <1>2, <1>3, <1>4, <1>5, <1>6, <1>7, <1>8, <1>9, <1>10, <1>11, <1>12, <1>13,
     <1>14, <1>15, <1>16, <1>17, <1>18, <1>19, <1>20, <1>21, <1>22 DEF Next, Dispatch, Work,
     OwnerStep, OwnerCall

LEMMA TurnStep == Orderly /\ [Next]_vars => Turn'
<1> SUFFICES ASSUME Orderly, [Next]_vars PROVE Turn'
  OBVIOUS
<1> USE SetsAssumption DEF Orderly, Types, TypeOK, Turn, Ev, NoEvent, queueVars, workVars,
        dispVars, Goto, DispPC
<1>1. CASE UNCHANGED vars
  BY <1>1 DEF vars
<1>2. CASE Put
  BY <1>2 DEF Put
<1>3. CASE DispatchTop
  BY <1>3 DEF DispatchTop
<1>4. CASE DispatchGet
  BY <1>4 DEF DispatchGet
<1>5. CASE DispatchEmpty
  BY <1>5 DEF DispatchEmpty
<1>6. CASE DispatchKey
  BY <1>6 DEF DispatchKey
<1>7. CASE DispatchDone
  BY <1>7 DEF DispatchDone
<1>8. ASSUME NEW c \in Callback, DispatchCheck(c) PROVE Turn'
  BY <1>8 DEF DispatchCheck
<1>9. CASE DispatchLookup
  BY <1>9 DEF DispatchLookup
<1>10. CASE DispatchSubmit
  BY <1>10 DEF DispatchSubmit
<1>11. ASSUME NEW c \in Callback, Begin(c) PROVE Turn'
  BY <1>11 DEF Begin
<1>12. ASSUME NEW c \in Callback, End(c) PROVE Turn'
  BY <1>12 DEF End
<1>13. ASSUME NEW c \in Callback, Subscribe(c) PROVE Turn'
  BY <1>13 DEF Subscribe
<1>14. CASE SubscribePool
  BY <1>14 DEF SubscribePool
<1>15. ASSUME NEW c \in Callback, Unsubscribe(c) PROVE Turn'
  BY <1>15 DEF Unsubscribe
<1>16. CASE CleanShutdown
  BY <1>16 DEF CleanShutdown
<1>17. CASE CleanPool
  BY <1>17 DEF CleanPool
<1>18. CASE CleanCallback
  BY <1>18 DEF CleanCallback
<1>19. CASE Close
  BY <1>19 DEF Close
<1>20. CASE CloseJoin
  BY <1>20 DEF CloseJoin
<1>21. ASSUME NEW c \in Callback, CloseSubscriber(c) PROVE Turn'
  BY <1>21 DEF CloseSubscriber
<1>22. CASE CloseQueue
  BY <1>22 DEF CloseQueue
<1> QED BY <1>1, <1>2, <1>3, <1>4, <1>5, <1>6, <1>7, <1>8, <1>9, <1>10, <1>11, <1>12, <1>13,
     <1>14, <1>15, <1>16, <1>17, <1>18, <1>19, <1>20, <1>21, <1>22 DEF Next, Dispatch, Work,
     OwnerStep, OwnerCall

LEMMA ConsecutiveStep == Orderly /\ [Next]_vars => Consecutive'
<1> SUFFICES ASSUME Orderly, [Next]_vars PROVE Consecutive'
  OBVIOUS
<1> USE SetsAssumption DEF Orderly, Types, TypeOK, Closing, Consecutive, Stopped, queueVars,
        workVars, dispVars, Goto, Ev, DispPC
<1>1. CASE UNCHANGED vars
  BY <1>1 DEF vars
<1>2. CASE Put
  <2>1. /\ Len(Append(queue, putCount + 1)) = Len(queue) + 1
        /\ \A k \in 1..Len(queue) : Append(queue, putCount + 1)[k] = queue[k]
        /\ Append(queue, putCount + 1)[Len(queue) + 1] = putCount + 1
        /\ Len(queue) \in Nat
    BY <1>2, AppendProperties, LenProperties DEF Put
  <2>2. queue' = Append(queue, putCount + 1) /\ putCount' = putCount + 1 /\ UNCHANGED
     <<disp, cur>>
    BY <1>2 DEF Put
  <2>3. CASE disp \in Stopped
    BY <2>2, <2>3
  <2>4. CASE disp \notin Stopped
    <3>1. cur + Len(queue) = putCount /\ \A k \in 1..Len(queue) : queue[k] = cur + k
      BY <2>4
    <3>2. cur \in Int /\ putCount \in Int
      OBVIOUS
    <3>3. cur' + Len(queue') = putCount'
      <4>1. Len(queue') = Len(queue) + 1 /\ putCount' = putCount + 1 /\ cur' = cur
        BY <2>1, <2>2
      <4> HIDE DEF Orderly, Types, TypeOK, Ev
      <4> QED BY <3>1, <3>2, <4>1, <2>1
    <3>4. ASSUME NEW k \in 1..Len(queue') PROVE queue'[k] = cur' + k
      <4>1. k \in 1..(Len(queue) + 1) /\ cur' = cur
        BY <2>1, <2>2, <3>4
      <4>2. queue'[k] = IF k = Len(queue) + 1 THEN putCount + 1 ELSE queue[k]
        BY <2>1, <2>2, <4>1
      <4>3. CASE k = Len(queue) + 1
        BY <3>1, <3>2, <4>1, <4>2, <4>3, <2>1
      <4>4. CASE k # Len(queue) + 1
        <5>1. k \in 1..Len(queue)
          <6>1. Len(queue) \in Nat
            BY <2>1
          <6> HIDE DEF Orderly
          <6> QED BY <4>1, <4>4, <6>1
        <5> QED BY <3>1, <4>1, <4>2, <4>4, <5>1
      <4> QED BY <4>3, <4>4
    <3> QED BY <3>3, <3>4
  <2> QED BY <2>3, <2>4
<1>3. CASE DispatchTop
  BY <1>3 DEF DispatchTop
<1>4. CASE DispatchGet
  <2>1. /\ Len(queue) \in Nat \ {0}
        /\ Len(Tail(queue)) = Len(queue) - 1
        /\ \A k \in 1..Len(Tail(queue)) : Tail(queue)[k] = queue[k + 1]
        /\ Head(queue) = queue[1]
    BY <1>4, HeadTailProperties, EmptySeq DEF DispatchGet
  <2>2. queue' = Tail(queue) /\ cur' = Head(queue) /\ putCount' = putCount /\ disp \notin
     Stopped
    BY <1>4 DEF DispatchGet
  <2>3. cur + Len(queue) = putCount /\ \A k \in 1..Len(queue) : queue[k] = cur + k
    BY <2>2
  <2>4. cur \in Int /\ putCount \in Int
    OBVIOUS
  <2>5. cur' = cur + 1 /\ cur' + Len(queue') = putCount'
    BY <2>1, <2>2, <2>3, <2>4
  <2>6. ASSUME NEW k \in 1..Len(queue') PROVE queue'[k] = cur' + k
    BY <2>1, <2>2, <2>3, <2>4, <2>5, <2>6
  <2> QED BY <2>5, <2>6
<1>5. CASE DispatchEmpty
  BY <1>5 DEF DispatchEmpty
<1>6. CASE DispatchKey
  BY <1>6 DEF DispatchKey
<1>7. CASE DispatchDone
  BY <1>7 DEF DispatchDone
<1>8. ASSUME NEW c \in Callback, DispatchCheck(c) PROVE Consecutive'
  BY <1>8 DEF DispatchCheck
<1>9. CASE DispatchLookup
  BY <1>9 DEF DispatchLookup
<1>10. CASE DispatchSubmit
  BY <1>10 DEF DispatchSubmit
<1>11. ASSUME NEW c \in Callback, Begin(c) PROVE Consecutive'
  BY <1>11 DEF Begin
<1>12. ASSUME NEW c \in Callback, End(c) PROVE Consecutive'
  BY <1>12 DEF End
<1>13. ASSUME NEW c \in Callback, Subscribe(c) PROVE Consecutive'
  BY <1>13 DEF Subscribe
<1>14. CASE SubscribePool
  BY <1>14 DEF SubscribePool
<1>15. ASSUME NEW c \in Callback, Unsubscribe(c) PROVE Consecutive'
  BY <1>15 DEF Unsubscribe
<1>16. CASE CleanShutdown
  BY <1>16 DEF CleanShutdown
<1>17. CASE CleanPool
  BY <1>17 DEF CleanPool
<1>18. CASE CleanCallback
  BY <1>18 DEF CleanCallback
<1>19. CASE Close
  BY <1>19 DEF Close
<1>20. CASE CloseJoin
  BY <1>20 DEF CloseJoin
<1>21. ASSUME NEW c \in Callback, CloseSubscriber(c) PROVE Consecutive'
  BY <1>21 DEF CloseSubscriber
<1>22. CASE CloseQueue
  BY <1>22 DEF CloseQueue
<1> QED BY <1>1, <1>2, <1>3, <1>4, <1>5, <1>6, <1>7, <1>8, <1>9, <1>10, <1>11, <1>12, <1>13,
     <1>14, <1>15, <1>16, <1>17, <1>18, <1>19, <1>20, <1>21, <1>22 DEF Next, Dispatch, Work,
     OwnerStep, OwnerCall

-----------------------------------------------------------------------------
(* What a callback has been given changes only by a submission.             *)

LEMMA HeadThenTail ==
  ASSUME NEW S, NEW p \in Seq(S), p # <<>>
  PROVE  <<Head(p)>> \o Tail(p) = p
<1>1. Head(p) \in S /\ Tail(p) \in Seq(S) /\ Len(Tail(p)) = Len(p) - 1 /\ Len(p) \in Nat \ {0}
  BY HeadTailProperties, EmptySeq
<1>2. <<Head(p)>> \in Seq(S) /\ Len(<<Head(p)>>) = 1
  BY <1>1
<1>3. /\ <<Head(p)>> \o Tail(p) \in Seq(S)
      /\ Len(<<Head(p)>> \o Tail(p)) = Len(p)
      /\ \A i \in 1..Len(p) : (<<Head(p)>> \o Tail(p))[i] =
             IF i <= 1 THEN <<Head(p)>>[i] ELSE Tail(p)[i - 1]
  BY <1>1, <1>2, ConcatProperties
<1>4. ASSUME NEW i \in 1..Len(p) PROVE (<<Head(p)>> \o Tail(p))[i] = p[i]
  <2>1. CASE i = 1
    BY <1>3, <2>1
  <2>2. CASE i > 1
    <3>1. i - 1 \in 1..Len(Tail(p))
      BY <1>1, <1>4, <2>2
    <3>2. Tail(p)[i - 1] = p[i]
      BY <3>1, HeadTailProperties
    <3> QED BY <1>3, <2>2, <3>2
  <2> QED BY <2>1, <2>2, <1>1
<1> QED BY <1>3, <1>4, SeqEqual

LEMMA HeadMoves ==
  ASSUME NEW S, NEW h \in Seq(S), NEW p \in Seq(S), p # <<>>
  PROVE  h \o <<Head(p)>> \o Tail(p) = h \o p
<1>1. <<Head(p)>> \in Seq(S) /\ Tail(p) \in Seq(S)
  BY HeadTailProperties
<1>2. (h \o <<Head(p)>>) \o Tail(p) = h \o (<<Head(p)>> \o Tail(p))
  BY <1>1, ConcatAssociative
<1> QED BY <1>2, HeadThenTail

LEMMA StreamType == Orderly => \A c \in Callback : Stream(c) \in Seq(Ev)
<1> SUFFICES ASSUME Orderly, NEW c \in Callback PROVE Stream(c) \in Seq(Ev)
  OBVIOUS
<1> USE DEF Orderly, Types, TypeOK
<1>1. (IF running[c] = NoEvent THEN <<>> ELSE <<running[c]>>) \in Seq(Ev)
  BY EmptySeq
<1> QED BY <1>1, ConcatProperties DEF Stream

LEMMA BeginKeepsStream ==
  ASSUME Orderly, NEW c \in Callback, Begin(c)
  PROVE  \A d \in Callback : Stream(d)' = Stream(d)
<1> USE DEF Orderly, Types, TypeOK
<1>1. ASSUME NEW d \in Callback, d # c PROVE Stream(d)' = Stream(d)
  BY <1>1 DEF Begin, Stream
<1>2. Stream(c)' = Stream(c)
  <2> DEFINE p == pending[c]
             h == handled[c]
  <2>1. h \in Seq(Ev) /\ p \in Seq(Ev) /\ p # <<>>
    BY DEF Begin
  <2>2. Head(p) \in Ev /\ Tail(p) \in Seq(Ev) /\ <<Head(p)>> \in Seq(Ev)
    BY <2>1, HeadTailProperties
  <2>3. running[c] = NoEvent /\ running'[c] = Head(p) /\ pending'[c] = Tail(p) /\
     handled'[c] = h
    BY DEF Begin
  <2>4. Head(p) # NoEvent
    BY <2>2 DEF Ev, NoEvent
  <2>5. Stream(c)' = h \o <<Head(p)>> \o Tail(p)
    BY <2>3, <2>4 DEF Stream
  <2>6. Stream(c) = h \o p
    BY <2>1, <2>3, ConcatEmptySeq DEF Stream
  <2> HIDE DEF p, h
  <2> QED BY <2>1, <2>5, <2>6, HeadMoves
<1> QED BY <1>1, <1>2

LEMMA EndKeepsStream ==
  ASSUME Orderly, NEW c \in Callback, End(c)
  PROVE  \A d \in Callback : Stream(d)' = Stream(d)
<1> USE DEF Orderly, Types, TypeOK
<1>1. ASSUME NEW d \in Callback, d # c PROVE Stream(d)' = Stream(d)
  BY <1>1 DEF End, Stream
<1>2. Stream(c)' = Stream(c)
  <2> DEFINE h == handled[c]
             r == running[c]
             p == pending[c]
  <2>1. h \in Seq(Ev) /\ p \in Seq(Ev) /\ r \in Ev /\ r # NoEvent
    BY DEF End
  <2>2. running'[c] = NoEvent /\ handled'[c] = Append(h, r) /\ pending'[c] = p
    BY DEF End
  <2>3. Append(h, r) = h \o <<r>> /\ Append(h, r) \in Seq(Ev)
    BY <2>1, AppendIsConcat, AppendProperties
  <2>4. Stream(c)' = Append(h, r) \o <<>> \o p
    BY <2>2 DEF Stream
  <2>5. Stream(c) = h \o <<r>> \o p
    BY <2>1 DEF Stream
  <2> HIDE DEF p, h, r
  <2> QED BY <2>3, <2>4, <2>5, ConcatEmptySeq
<1> QED BY <1>1, <1>2

\* The dispatcher submits to an open pool.
Submits == DispatchSubmit /\ pool[target] = "open"

LEMMA SubmitExtendsStream ==
  ASSUME Orderly, Submits
  PROVE  /\ target \in Callback /\ cur \in Ev
         /\ \A c \in Callback :
                Stream(c)' = IF c = target THEN Append(Stream(c), cur) ELSE Stream(c)
<1> USE DEF Orderly, Types, TypeOK
<1>1. target \in Callback /\ cur \in Ev
  BY DEF Submits, DispatchSubmit, Turn
<1>2. /\ pending' = [pending EXCEPT ![target] = Append(pending[target], cur)]
      /\ UNCHANGED <<running, handled>>
  BY DEF Submits, DispatchSubmit, workVars
<1>3. ASSUME NEW c \in Callback, c # target PROVE Stream(c)' = Stream(c)
  BY <1>1, <1>2, <1>3 DEF Stream
<1>4. ASSUME NEW c \in Callback, c = target PROVE Stream(c)' = Append(Stream(c), cur)
  <2> DEFINE a == handled[c] \o (IF running[c] = NoEvent THEN <<>> ELSE <<running[c]>>)
             p == pending[c]
  <2>1. a \in Seq(Ev) /\ p \in Seq(Ev)
    <3>1. (IF running[c] = NoEvent THEN <<>> ELSE <<running[c]>>) \in Seq(Ev)
      BY EmptySeq
    <3> QED BY <3>1, ConcatProperties
  <2>2. Stream(c) = a \o p
    BY DEF Stream
  <2>3. Stream(c)' = a \o Append(p, cur)
    <3>1. pending'[c] = Append(p, cur) /\ running'[c] = running[c] /\ handled'[c] = handled[c]
      BY <1>2, <1>4
    <3> QED BY <3>1 DEF Stream
  <2>4. Append(p, cur) = p \o <<cur>> /\ <<cur>> \in Seq(Ev) /\ a \o p \in Seq(Ev)
    BY <1>1, <2>1, AppendIsConcat, ConcatProperties
  <2>5. Append(a \o p, cur) = (a \o p) \o <<cur>>
    BY <1>1, <2>4, AppendIsConcat
  <2> HIDE DEF a, p
  <2> QED BY <2>1, <2>2, <2>3, <2>4, <2>5, ConcatAssociative
<1> QED BY <1>1, <1>3, <1>4

LEMMA StreamStep ==
  ASSUME Orderly, [Next]_vars, ~Submits
  PROVE  \A d \in Callback : Stream(d)' = Stream(d)
<1> SUFFICES ASSUME UNCHANGED <<pending, running, handled>>
             PROVE  \A d \in Callback : Stream(d)' = Stream(d)
  <2>1. CASE \E c \in Callback : Work(c)
    BY <2>1, BeginKeepsStream, EndKeepsStream DEF Work
  <2>2. CASE ~ \E c \in Callback : Work(c)
    BY <2>2 DEF Submits, Next, Dispatch, Work, OwnerStep, OwnerCall, vars, queueVars, workVars,
       dispVars, Put, DispatchTop, DispatchGet, DispatchEmpty, DispatchKey, DispatchDone,
       DispatchCheck, DispatchLookup, DispatchSubmit, Subscribe, SubscribePool, Unsubscribe,
       CleanShutdown, CleanPool, CleanCallback, Close, CloseJoin, CloseSubscriber, CloseQueue
  <2> QED BY <2>1, <2>2
<1> QED BY DEF Stream

----------------------------------------------------------------------------- (* The order
     of events                                                      *)

LEMMA InOrderStep == Orderly /\ [Next]_vars => InOrder'
<1> SUFFICES ASSUME Orderly, [Next]_vars, NEW c \in Callback, NEW k \in 1..(Len(Stream(c)') - 1)
             PROVE  Stream(c)'[k + 1] = Stream(c)'[k] + 1
  BY DEF InOrder
<1>1. \A i \in 1..(Len(Stream(c)) - 1) : Stream(c)[i + 1] = Stream(c)[i] + 1
  BY DEF Orderly, InOrder
<1>2. CASE Stream(c)' = Stream(c)
  BY <1>1, <1>2
<1>3. CASE Submits /\ c = target
  <2> DEFINE s == Stream(c)
             t == Append(s, cur)
  <2>1. Stream(c)' = t /\ cur \in Ev
    BY <1>3, SubmitExtendsStream
  <2>2. /\ s \in Seq(Ev) /\ Len(s) \in Nat
        /\ Len(t) = Len(s) + 1
        /\ \A i \in 1..Len(s) : t[i] = s[i]
        /\ t[Len(s) + 1] = cur
    BY <2>1, StreamType, AppendProperties, LenProperties
  <2>3. s # <<>> => s[Len(s)] = cur - 1
    BY <1>3, <2>1 DEF Orderly, Progress, Awaits, Submits, DispatchSubmit, Stopped
  <2>4. cur \in Int /\ (Len(s) > 0 => s # <<>>)
    BY <2>1, <2>2, EmptySeq DEF Ev, Orderly, Types, TypeOK
  <2>5. k \in 1..Len(s)
    BY <2>1, <2>2
  <2> HIDE DEF s, t
  <2>6. CASE k = Len(s)
    BY <2>1, <2>2, <2>3, <2>4, <2>5, <2>6
  <2>7. CASE k # Len(s)
    <3>1. k \in 1..(Len(s) - 1) /\ k + 1 \in 1..Len(s)
      BY <2>2, <2>5, <2>7
    <3> QED BY <1>1, <2>1, <2>2, <3>1 DEF s
  <2> QED BY <2>6, <2>7
<1> QED BY <1>2, <1>3, StreamStep, SubmitExtendsStream

\* Whoever has a pool after a step and has been given an event had it before.
LEMMA OpenBefore ==
  ASSUME Orderly, [Next]_vars, NEW d \in Callback,
         disp' \notin Stopped, pool'[d] = "open", Stream(d) # <<>>
  PROVE  disp \notin Stopped /\ pool[d] = "open"
<1> USE SetsAssumption DEF Orderly, Types, TypeOK
<1>1. CASE SubscribePool
  <2>1. d # owner.on
    BY <1>1, ConcatEmptySeq, EmptySeq DEF SubscribePool, Fresh, Stream
  <2> QED BY <1>1, <2>1 DEF SubscribePool, dispVars
<1>2. CASE ~SubscribePool
  BY <1>2 DEF Next, Dispatch, Work, OwnerStep, OwnerCall, vars, queueVars, workVars,
       dispVars, Put, DispatchTop, DispatchGet, DispatchEmpty, DispatchKey, DispatchDone,
       DispatchCheck, DispatchLookup, DispatchSubmit, Begin, End, Subscribe, Unsubscribe,
       CleanShutdown, CleanPool, CleanCallback, Close, CloseJoin, CloseSubscriber, CloseQueue,
       Stopped
<1> QED BY <1>1, <1>2

LEMMA ProgressStep == Orderly /\ [Next]_vars => Progress'
<1> SUFFICES ASSUME Orderly, [Next]_vars,
                    NEW d \in Callback, disp' \notin Stopped, pool'[d] = "open", Stream(d)'
     # <<>>
             PROVE  Stream(d)'[Len(Stream(d)')] = IF Awaits(d)' THEN cur' - 1 ELSE cur'
  BY DEF Progress
<1>1. CASE Submits /\ d = target
  <2>1. Stream(d)' = Append(Stream(d), cur) /\ cur \in Ev
    BY <1>1, SubmitExtendsStream
  <2>2. disp = "submit" /\ disp' = "iter" /\ UNCHANGED <<cur, keysLeft, idsLeft, target, pool>>
    BY <1>1 DEF Submits, DispatchSubmit
  <2>3. ~Awaits(d)'
    BY <1>1, <2>2 DEF Awaits, Orderly, Turn
  <2>4. Stream(d)'[Len(Stream(d)')] = cur
    BY <2>1, StreamType, AppendProperties
  <2> QED BY <2>2, <2>3, <2>4
<1>2. CASE ~ (Submits /\ d = target)
  <2>1. Stream(d)' = Stream(d)
    BY <1>2, StreamStep, SubmitExtendsStream
  <2>2. disp \notin Stopped /\ pool[d] = "open"
    BY <2>1, OpenBefore
  <2>3. Stream(d)[Len(Stream(d))] = IF Awaits(d) THEN cur - 1 ELSE cur
    BY <2>1, <2>2 DEF Orderly, Progress
  <2> SUFFICES (IF Awaits(d)' THEN cur' - 1 ELSE cur') = IF Awaits(d) THEN cur - 1 ELSE cur
    BY <2>1, <2>3
  <2>4. d \in registered /\ KeyOf[d] \in Nat
    BY <2>2, SetsAssumption DEF Orderly, Removal
  <2> USE DEF Awaits, Orderly, Types, TypeOK
  <2>5. CASE DispatchGet
    <3>1. cur' = cur + 1 /\ cur \in Int
      <4>1. queue[1] = cur + 1 /\ cur \in Int
        <5>1. Len(queue) \in Nat \ {0}
          BY <2>5, EmptySeq DEF DispatchGet
        <5> QED BY <2>2, <5>1 DEF Consecutive, Ev, NoEvent
      <4> QED BY <2>5, <4>1 DEF DispatchGet
    <3>2. Awaits(d)'
      BY <2>4, <2>5 DEF DispatchGet, Keys
    <3>3. ~Awaits(d)
      BY <2>5 DEF DispatchGet, Turn
    <3> QED BY <3>1, <3>2, <3>3
  <2>6. CASE DispatchKey
    BY <2>4, <2>6 DEF DispatchKey
  <2>7. ASSUME NEW c \in Callback, DispatchCheck(c)
        PROVE  (IF Awaits(d)' THEN cur' - 1 ELSE cur') = IF Awaits(d) THEN cur - 1 ELSE cur
    BY <2>4, <2>7 DEF DispatchCheck
  <2>8. CASE UNCHANGED <<cur, keysLeft, idsLeft, target>> /\ (disp' = disp \/ DispatchTop
              \/ DispatchEmpty \/ DispatchDone \/ DispatchLookup \/ DispatchSubmit)
    BY <1>2, <2>2, <2>8
    DEF DispatchTop, DispatchEmpty, DispatchDone, DispatchLookup, DispatchSubmit, Submits,
     Stopped
  <2> QED BY <2>5, <2>6, <2>7, <2>8
    DEF Next, Dispatch, Work, OwnerStep, OwnerCall, vars, dispVars, Put, DispatchTop,
       DispatchEmpty, DispatchDone, DispatchLookup, DispatchSubmit, Begin, End, Subscribe,
       SubscribePool, Unsubscribe, CleanShutdown, CleanPool, CleanCallback, Close, CloseJoin,
       CloseSubscriber, CloseQueue
<1> QED BY <1>1, <1>2

LEMMA OrderlyStep == Orderly /\ [Next]_vars => Orderly'
  BY TypesStep, RemovalStep, FreshStep, ClosingStep, ConsecutiveStep, TurnStep, ProgressStep,
     InOrderStep, QuietStep DEF Orderly

\* Orderly is inductive.
THEOREM Invariance == Spec => []Orderly
  BY OrderlyInit, OrderlyStep, PTL DEF Spec

\* Every variable keeps its type: a callback is only ever given an event.
THEOREM TypeCorrect == Spec => []TypeOK
<1>1. Orderly => TypeOK
  BY DEF Orderly, Types
<1> QED BY <1>1, Invariance, PTL

\* Each callback gets the events in the order of the queue and without a gap,
\* whatever _process_queue meets while callbacks come and go.
THEOREM EventsInOrder == Spec => []InOrder
<1>1. Orderly => InOrder
  BY DEF Orderly
<1> QED BY <1>1, Invariance, PTL

\* A callback that unsubscribe or close has removed is not running and will not
\* run again (_clean_up_subscriber waits for its pool to drain).
THEOREM QuietWhenRemoved == Spec => []QuietAfterCleanup
<1>1. Orderly => QuietAfterCleanup
  BY DEF Orderly
<1> QED BY <1>1, Invariance, PTL
=============================================================================
