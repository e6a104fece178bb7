---------------------------- MODULE RuntimeServer ----------------------------
(***************************************************************************)
(* The remote runtime server (openhands/runtime/remote_runtime_server):    *)
(* RuntimeManager.start_runtime, stop_runtime, pause_runtime and           *)
(* resume_runtime as handlers of one event loop that give way to each      *)
(* other at every await, over the Docker daemon that they call.            *)
(*                                                                         *)
(* A runtime is the uuid of one call of start_runtime.  Its container has  *)
(* the name of the session, so that a session has at most one container.   *)
(* One port stands for the four that a container gets: their ranges are    *)
(* disjoint.  A step of a handler ends with the effect of its next call to *)
(* Docker; what the handler does with the answer is part of the next step. *)
(***************************************************************************)
EXTENDS Naturals, FiniteSets

CONSTANTS Runtime,      \* runtime ids, one for each start request
          Session,      \* session ids
          Port,         \* ports of the range
          BadPort,      \* the -1 of a search that finds every port bound
          Request,      \* the requests to stop, pause or resume a runtime
          NoRuntime, NoSession, NoPort,
          MaxRefusals,  \* bound on the calls that Docker fails for its own reasons
          MaxExhausted  \* bound on the searches that use up their attempts

ASSUME ServerAssumption ==
    /\ IsFiniteSet(Runtime)
    /\ Runtime \cap Request = {}
    /\ NoRuntime \notin Runtime
    /\ NoSession \notin Session
    /\ BadPort \notin Port
    /\ NoPort \notin Port \cup {BadPort}
    /\ MaxRefusals \in Nat
    /\ MaxExhausted \in Nat

VARIABLES
    start,      \* start[r]: where start_runtime of r is
    session,    \* session[r]: request.session_id
    port,       \* port[r]: the port found for r
    portLock,   \* the start that holds _port_lock
    listed,     \* the ports in use that Docker listed to the holder
    inFlight,   \* _allocated_ports_in_flight
    container,  \* container[r]: the state of the container of r
    active,     \* the keys of active_runtimes
    sessionOf,  \* active_sessions
    asked,      \* asked[q]: what request q asks
    place,      \* place[h]: where the handler h is that stops, pauses or resumes
    refusals, exhausted

startVars == <<start, session, port>>
portVars == <<portLock, listed, inFlight>>
records == <<active, sessionOf>>
handlerVars == <<asked, place>>
bounds == <<refusals, exhausted>>
vars == <<startVars, portVars, container, records, handlerVars, bounds>>

\* A start that fails after it was recorded stops its own runtime.
Handler == Request \cup Runtime
Kind == {"stop", "halt", "pause", "resume"}    \* "halt": stop with remove = False
KindOf(h) == IF h \in Request THEN asked[h].kind ELSE "stop"
Target(h) == IF h \in Request THEN asked[h].runtime ELSE h

StartPlace == {"idle", "queued", "searching", "found", "created", "launched",
               "waiting", "stopping", "aborting", "answering", "failed", "served"}
HandlerPlace == {"idle", "accepted", "got", "stopped", "deleted", "refused", "done"}

Init ==
    /\ start = [r \in Runtime |-> "idle"]
    /\ session = [r \in Runtime |-> NoSession]
    /\ port = [r \in Runtime |-> NoPort]
    /\ portLock = NoRuntime
    /\ listed = {}
    /\ inFlight = {}
    /\ container = [r \in Runtime |-> "none"]
    /\ active = {}
    /\ sessionOf = [s \in Session |-> NoRuntime]
    /\ asked = [q \in Request |-> [kind |-> "none", runtime |-> NoRuntime]]
    /\ place = [h \in Handler |-> "idle"]
    /\ refusals = 0
    /\ exhausted = 0

-----------------------------------------------------------------------------
(* start_runtime                                                            *)

\* The ports that a running container listens on: Docker lists them, and no other
\* process can bind them.
Bound == {port[r] : r \in {q \in Runtime : container[q] = "running"}}

\* A call of Docker fails, or the connection to it does.
Refuse ==
    /\ refusals < MaxRefusals
    /\ refusals' = refusals + 1

\* POST /start
StartRequest(r, s) ==
    /\ start[r] = "idle"
    /\ session' = [session EXCEPT ![r] = s]
    /\ start' = [start EXCEPT ![r] = "queued"]
    /\ UNCHANGED <<port, portVars, container, records, handlerVars, bounds>>

\* _get_ports takes the lock and lists the containers.
ListPorts_keepsLock(r) ==
    /\ start[r] = "queued"
    /\ portLock = NoRuntime
    /\ portLock' = r
    /\ \/ /\ listed' = Bound
          /\ start' = [start EXCEPT ![r] = "searching"]
          /\ UNCHANGED refusals
       \/ /\ Refuse
          /\ start' = [start EXCEPT ![r] = "failed"]
          /\ UNCHANGED listed
    /\ UNCHANGED <<session, port, inFlight, container, records, handlerVars, exhausted>>
ListPorts(r) ==
    /\ start[r] = "queued"
    /\ portLock = NoRuntime
    /\ \/ /\ portLock' = r
          /\ listed' = Bound
          /\ start' = [start EXCEPT ![r] = "searching"]
          /\ UNCHANGED refusals
       \/ /\ Refuse
          /\ start' = [start EXCEPT ![r] = "failed"]
          /\ UNCHANGED <<portLock, listed>>
    /\ UNCHANGED <<session, port, inFlight, container, records, handlerVars, exhausted>>

\* What find_available_tcp_port may return.
Findable == (Port \ Bound) \cup (IF Bound = {} THEN {} ELSE {BadPort})

\* The search in a thread and the end of _get_ports.  After max_attempts a port in
\* use is as good as any.
FindPort_forgetsInFlight(r) ==
    /\ start[r] = "searching"
    /\ \E p \in Findable :
        /\ IF p \notin listed THEN UNCHANGED exhausted
           ELSE exhausted < MaxExhausted /\ exhausted' = exhausted + 1
        /\ port' = [port EXCEPT ![r] = p]
        /\ inFlight' = inFlight \cup {p}
    /\ portLock' = NoRuntime
    /\ listed' = {}
    /\ start' = [start EXCEPT ![r] = "found"]
    /\ UNCHANGED <<session, container, records, handlerVars, refusals>>
FindPort(r) ==
    /\ start[r] = "searching"
    /\ \E p \in Findable :
        /\ IF p \notin listed \cup inFlight THEN UNCHANGED exhausted
           ELSE exhausted < MaxExhausted /\ exhausted' = exhausted + 1
        /\ port' = [port EXCEPT ![r] = p]
        /\ inFlight' = inFlight \cup {p}
    /\ portLock' = NoRuntime
    /\ listed' = {}
    /\ start' = [start EXCEPT ![r] = "found"]
    /\ UNCHANGED <<session, container, records, handlerVars, refusals>>

NameTaken(s) == \E r \in Runtime : session[r] = s /\ container[r] # "none"

\* The first half of containers.run: create, which wants a name of its own.
CreateContainer(r) ==
    /\ start[r] = "found"
    /\ \/ /\ port[r] # BadPort
          /\ ~NameTaken(session[r])
          /\ container' = [container EXCEPT ![r] = "created"]
          /\ start' = [start EXCEPT ![r] = "created"]
          /\ UNCHANGED refusals
       \/ /\ IF port[r] = BadPort \/ NameTaken(session[r]) THEN UNCHANGED refusals
             ELSE Refuse
          /\ start' = [start EXCEPT ![r] = "aborting"]
          /\ UNCHANGED container
    /\ UNCHANGED <<session, port, portVars, records, handlerVars, exhausted>>

\* The second half: start, which binds the port.  When it fails the container stays
\* behind, created and not recorded.
LaunchContainer(r) ==
    /\ start[r] = "created"
    /\ \/ /\ port[r] \notin Bound
          /\ container' = [container EXCEPT ![r] = "running"]
          /\ start' = [start EXCEPT ![r] = "launched"]
          /\ UNCHANGED refusals
       \/ /\ IF port[r] \in Bound THEN refusals' = refusals + 1 ELSE Refuse
          /\ start' = [start EXCEPT ![r] = "aborting"]
          /\ UNCHANGED container
    /\ UNCHANGED <<session, port, portVars, records, handlerVars, exhausted>>

\* The runtime is recorded and _wait_until_alive begins.
Record(r) ==
    /\ start[r] = "launched"
    /\ active' = active \cup {r}
    /\ sessionOf' = [sessionOf EXCEPT ![session[r]] = r]
    /\ start' = [start EXCEPT ![r] = "waiting"]
    /\ UNCHANGED <<session, port, portVars, container, handlerVars, bounds>>

\* The runtime answers /alive.
Alive(r) ==
    /\ start[r] = "waiting"
    /\ container[r] = "running"
    /\ r \in active
    /\ start' = [start EXCEPT ![r] = "answering"]
    /\ UNCHANGED <<session, port, portVars, container, records, handlerVars, bounds>>

\* The container has exited or is gone, or it does not answer within the 120 s.
NotAlive_noStop(r) ==
    /\ start[r] = "waiting"
    /\ start' = [start EXCEPT ![r] = "aborting"]
    /\ UNCHANGED <<session, port, portVars, container, records, handlerVars, bounds>>
NotAlive(r) ==
    /\ start[r] = "waiting"
    /\ IF r \in active
       THEN /\ start' = [start EXCEPT ![r] = "stopping"]
            /\ place' = [place EXCEPT ![r] = "accepted"]
       ELSE /\ start' = [start EXCEPT ![r] = "aborting"]
            /\ UNCHANGED place
    /\ UNCHANGED <<session, port, portVars, container, records, asked, bounds>>

\* The stop_runtime of the except clause has ended, in one way or another.
StopEnded(r) ==
    /\ start[r] = "stopping"
    /\ place[r] = "done"
    /\ start' = [start EXCEPT ![r] = "aborting"]
    /\ UNCHANGED <<session, port, portVars, container, records, handlerVars, bounds>>

\* release_ports of the finally clause, and the answer.
ReleasePorts(r) ==
    /\ start[r] \in {"answering", "aborting"}
    /\ portLock = NoRuntime
    /\ inFlight' = inFlight \ {port[r]}
    /\ start' = [start EXCEPT ![r] = IF @ = "answering" THEN "served" ELSE "failed"]
    /\ UNCHANGED <<session, port, portLock, listed, container, records, handlerVars, bounds>>

-----------------------------------------------------------------------------
(* stop_runtime, pause_runtime and resume_runtime                           *)

\* POST /stop, /pause or /resume of a runtime that is recorded.
Ask(q, kind, r) ==
    /\ place[q] = "idle"
    /\ r \in active
    /\ asked' = [asked EXCEPT ![q] = [kind |-> kind, runtime |-> r]]
    /\ place' = [place EXCEPT ![q] = "accepted"]
    /\ UNCHANGED <<startVars, portVars, container, records, bounds>>

\* Where handler h goes when a call of it fails: only stop_runtime cleans up after a
\* DockerError, and not after another exception.
Failed(h) == IF KindOf(h) \in {"stop", "halt"} THEN {"refused", "done"} ELSE {"done"}
Missing(h) == IF KindOf(h) \in {"stop", "halt"} THEN "refused" ELSE "done"

\* A call of h to Docker fails.
CallFails(h) ==
    /\ place[h] \in {"accepted", "got", "stopped"}
    /\ Target(h) \in active \/ place[h] # "accepted"
    /\ Refuse
    /\ \E next \in Failed(h) : place' = [place EXCEPT ![h] = next]
    /\ UNCHANGED <<startVars, portVars, container, records, asked, exhausted>>

\* The check of active_runtimes and containers.get.
GetContainer(h) ==
    LET r == Target(h) IN
    /\ place[h] = "accepted"
    /\ \/ r \notin active /\ place' = [place EXCEPT ![h] = "done"]
       \/ r \in active /\ container[r] = "none" /\ place' = [place EXCEPT ![h] = Missing(h)]
       \/ r \in active /\ container[r] # "none" /\ place' = [place EXCEPT ![h] = "got"]
    /\ UNCHANGED <<startVars, portVars, container, records, asked, bounds>>

\* container.stop
StopContainer(h) ==
    LET r == Target(h) IN
    /\ place[h] = "got"
    /\ KindOf(h) # "resume"
    /\ IF container[r] = "none"
       THEN /\ place' = [place EXCEPT ![h] = Missing(h)]
            /\ UNCHANGED container
       ELSE /\ place' = [place EXCEPT ![h] = IF KindOf(h) = "stop" THEN "stopped" ELSE "done"]
            /\ container' = [container EXCEPT ![r] = "exited"]
    /\ UNCHANGED <<startVars, portVars, records, asked, bounds>>

\* container.delete, which Docker refuses while the container runs.
DeleteContainer(h) ==
    LET r == Target(h) IN
    /\ place[h] = "stopped"
    /\ IF container[r] = "exited"
       THEN /\ container' = [container EXCEPT ![r] = "none"]
            /\ place' = [place EXCEPT ![h] = "deleted"]
            /\ UNCHANGED refusals
       ELSE /\ refusals' = IF container[r] = "none" THEN refusals ELSE refusals + 1
            /\ place' = [place EXCEPT ![h] = "refused"]
            /\ UNCHANGED container
    /\ UNCHANGED <<startVars, portVars, records, asked, exhausted>>

\* The records are deleted, after the container or because Docker raised.  The second
\* of two handlers ends here with a KeyError.
Forget_runtimeOnly(h) ==
    LET r == Target(h) IN
    /\ place[h] \in {"deleted", "refused"}
    /\ active' = active \ {r}
    /\ place' = [place EXCEPT ![h] = "done"]
    /\ UNCHANGED <<startVars, portVars, container, sessionOf, asked, bounds>>
Forget(h) ==
    LET r == Target(h) IN
    /\ place[h] \in {"deleted", "refused"}
    /\ active' = active \ {r}
    /\ sessionOf' = IF r \in active THEN [sessionOf EXCEPT ![session[r]] = NoRuntime]
                    ELSE sessionOf
    /\ place' = [place EXCEPT ![h] = "done"]
    /\ UNCHANGED <<startVars, portVars, container, asked, bounds>>

\* container.start of resume_runtime, which needs the port that the container had.
ResumeContainer(h) ==
    LET r == Target(h) IN
    /\ place[h] = "got"
    /\ KindOf(h) = "resume"
    /\ container' = IF container[r] = "exited" /\ port[r] \notin Bound
                    THEN [container EXCEPT ![r] = "running"] ELSE container
    /\ place' = [place EXCEPT ![h] = "done"]
    /\ UNCHANGED <<startVars, portVars, records, asked, bounds>>

\* A container ends by itself, or is killed for its memory.
ContainerExits(r) ==
    /\ container[r] = "running"
    /\ container' = [container EXCEPT ![r] = "exited"]
    /\ UNCHANGED <<startVars, portVars, records, handlerVars, bounds>>

-----------------------------------------------------------------------------
StartStep(r) ==
    \/ ListPorts(r) \/ FindPort(r) \/ CreateContainer(r) \/ LaunchContainer(r)
    \/ Record(r) \/ Alive(r) \/ NotAlive(r) \/ StopEnded(r) \/ ReleasePorts(r)

HandlerStep(h) ==
    \/ CallFails(h) \/ GetContainer(h) \/ StopContainer(h) \/ DeleteContainer(h)
    \/ Forget(h) \/ ResumeContainer(h)

Next ==
    \/ \E r \in Runtime, s \in Session : StartRequest(r, s)
    \/ \E r \in Runtime : StartStep(r) \/ ContainerExits(r)
    \/ \E q \in Request, kind \in Kind, r \in Runtime : Ask(q, kind, r)
    \/ \E h \in Handler : HandlerStep(h)

\* The event loop resumes every handler, Docker answers every call, and the wait for
\* a runtime has a time limit.
Fairness ==
    /\ \A r \in Runtime : WF_vars(StartStep(r))
    /\ \A h \in Handler : WF_vars(HandlerStep(h))

Spec == Init /\ [][Next]_vars /\ Fairness

-----------------------------------------------------------------------------
(* Properties                                                               *)

\* Types of all variables.
TypeOK ==
    /\ start \in [Runtime -> StartPlace]
    /\ session \in [Runtime -> Session \cup {NoSession}]
    /\ port \in [Runtime -> Port \cup {BadPort, NoPort}]
    /\ portLock \in Runtime \cup {NoRuntime}
    /\ listed \subseteq Port
    /\ inFlight \subseteq Port \cup {BadPort}
    /\ container \in [Runtime -> {"none", "created", "running", "exited"}]
    /\ active \subseteq Runtime
    /\ sessionOf \in [Session -> Runtime \cup {NoRuntime}]
    /\ asked \in [Request -> [kind : Kind \cup {"none"}, runtime : Runtime \cup {NoRuntime}]]
    /\ place \in [Handler -> HandlerPlace]
    /\ refusals \in Nat
    /\ exhausted \in 0..MaxExhausted

\* The starts that have a port which is not yet released.
Holding == {r \in Runtime : start[r] \in {"found", "created", "launched", "waiting",
                                          "stopping", "aborting", "answering"}}
Undisturbed ==
    /\ exhausted = 0
    /\ \A q \in Request : asked[q].kind # "resume"

\* While no search has used up its attempts and no paused container comes back, the
\* port of a start in flight is its own: no other start in flight has found it, no
\* running container listens on it, and it is marked as in flight to the end.
PortsExclusive ==
    Undisturbed =>
        /\ \A r \in Holding : \A q \in Runtime :
               (q \in Holding \/ container[q] = "running") /\ port[q] = port[r] => q = r
        /\ inFlight = {port[r] : r \in Holding}

\* GET /sessions/{sid} finds the runtime of every session that is recorded, and it is
\* a runtime of that session, whichever handlers delete records at the same time.
SessionsResolve ==
    \A s \in Session :
        sessionOf[s] # NoRuntime =>
            sessionOf[s] \in active /\ session[sessionOf[s]] = s

\* Containers that no request can remove any more, or that nobody was told of.
Leaked == {r \in Runtime : /\ container[r] # "none"
                           /\ \/ start[r] = "failed"
                              \/ start[r] = "served" /\ r \notin active}

\* A container is leaked only if Docker refused a call: not by stop requests that
\* race each other, a start that fails, a pause or a resume.
NothingLeaks == Cardinality(Leaked) <= refusals

\* Every request is answered: no handler waits for the lock or for Docker for ever.
RequestsReturn ==
    /\ \A r \in Runtime : start[r] = "queued" ~> start[r] \in {"served", "failed"}
    /\ \A q \in Request : place[q] = "accepted" ~> place[q] = "done"
=============================================================================
