------------------------- MODULE RuntimeServerProofs -------------------------
(***************************************************************************)
(* Proofs about RuntimeServer, for every set of runtimes, sessions, ports  *)
(* and requests.  Reachable collects what the three safety properties rest *)
(* on: no container before its port is found, no handler of a runtime that *)
(* was not recorded, no container behind a handler that has deleted it.    *)
(***************************************************************************)
EXTENDS RuntimeServer, TLAPS, FiniteSetTheorems

Early == {"idle", "queued", "searching", "found"}
Later == {"waiting", "stopping", "aborting", "answering", "failed", "served"}

NoContainerYet == \A r \in Runtime : start[r] \in Early => container[r] = "none"
RealPorts == /\ \A r \in Runtime :
                    container[r] # "none" \/ start[r] = "created" => port[r] \in Port
             /\ \A r \in Holding : port[r] # NoPort
Recorded == \A r \in active : start[r] \in Later
Pursued == \A h \in Handler : place[h] # "idle" =>
               Target(h) \in Runtime /\ start[Target(h)] \in Later
NotAsked == \A q \in Request : place[q] = "idle" => asked[q].kind = "none"
Deleted == \A h \in Handler : place[h] = "deleted" => container[Target(h)] = "none"

Reachable ==
    /\ TypeOK
    /\ NoContainerYet
    /\ RealPorts
    /\ Recorded
    /\ Pursued
    /\ NotAsked
    /\ Deleted

LEMMA ReachableInit == Init => Reachable
  BY ServerAssumption
  DEF Init, Reachable, TypeOK, NoContainerYet, RealPorts, Recorded, Pursued, NotAsked,
      Deleted, StartPlace, HandlerPlace, Kind, Early, Handler, Holding

\* Every step of the type invariant.
LEMMA TypeStep == Reachable /\ [Next]_vars => TypeOK'
<1> SUFFICES ASSUME Reachable, [Next]_vars PROVE TypeOK'
  OBVIOUS
<1> USE DEF startVars, portVars, records, handlerVars, bounds, Reachable, TypeOK, StartPlace,
        HandlerPlace, Handler
<1>1. CASE UNCHANGED vars
  BY <1>1 DEF vars
<1>2. ASSUME NEW r \in Runtime, NEW s \in Session, StartRequest(r, s) PROVE TypeOK'
  BY <1>2 DEF StartRequest
<1>3. ASSUME NEW r \in Runtime, ListPorts(r) PROVE TypeOK'
  <2>1. Bound \subseteq Port
    BY DEF Bound, RealPorts
  <2> QED BY <1>3, <2>1 DEF ListPorts, Refuse
<1>4. ASSUME NEW r \in Runtime, FindPort(r) PROVE TypeOK'
  <2>1. Findable \subseteq Port \cup {BadPort}
    BY DEF Findable
  <2> QED BY <1>4, <2>1, ServerAssumption DEF FindPort
<1>5. ASSUME NEW r \in Runtime, CreateContainer(r) PROVE TypeOK'
  BY <1>5 DEF CreateContainer, Refuse
<1>6. ASSUME NEW r \in Runtime, LaunchContainer(r) PROVE TypeOK'
  BY <1>6 DEF LaunchContainer, Refuse
<1>7. ASSUME NEW r \in Runtime, Record(r) PROVE TypeOK'
  BY <1>7 DEF Record
<1>8. ASSUME NEW r \in Runtime, Alive(r) PROVE TypeOK'
  BY <1>8 DEF Alive
<1>9. ASSUME NEW r \in Runtime, NotAlive(r) PROVE TypeOK'
  BY <1>9 DEF NotAlive
<1>10. ASSUME NEW r \in Runtime, StopEnded(r) PROVE TypeOK'
  BY <1>10 DEF StopEnded
<1>11. ASSUME NEW r \in Runtime, ReleasePorts(r) PROVE TypeOK'
  BY <1>11 DEF ReleasePorts
<1>12. ASSUME NEW r \in Runtime, ContainerExits(r) PROVE TypeOK'
  BY <1>12 DEF ContainerExits
<1>13. ASSUME NEW q \in Request, NEW kind \in Kind, NEW r \in Runtime, Ask(q, kind, r)
       PROVE TypeOK'
  BY <1>13 DEF Ask
<1>14. ASSUME NEW h \in Handler, CallFails(h) PROVE TypeOK'
  BY <1>14 DEF CallFails, Refuse, Failed
<1>15. ASSUME NEW h \in Handler, GetContainer(h) PROVE TypeOK'
  BY <1>15 DEF GetContainer, Missing
<1>16. ASSUME NEW h \in Handler, StopContainer(h) PROVE TypeOK'
  BY <1>16 DEF StopContainer, Missing
<1>17. ASSUME NEW h \in Handler, DeleteContainer(h) PROVE TypeOK'
  BY <1>17 DEF DeleteContainer
<1>18. ASSUME NEW h \in Handler, Forget(h) PROVE TypeOK'
  BY <1>18 DEF Forget
<1>19. ASSUME NEW h \in Handler, ResumeContainer(h) PROVE TypeOK'
  BY <1>19 DEF ResumeContainer
<1> QED
  BY <1>1, <1>2, <1>3, <1>4, <1>5, <1>6, <1>7, <1>8, <1>9, <1>10, <1>11, <1>12, <1>13,
     <1>14, <1>15, <1>16, <1>17, <1>18, <1>19
  DEF Next, StartStep, HandlerStep

\* A container exists only after its port is found, and has a port of the range.
LEMMA ContainerStep == Reachable /\ [Next]_vars => (NoContainerYet /\ RealPorts)'
<1> SUFFICES ASSUME Reachable, [Next]_vars PROVE (NoContainerYet /\ RealPorts)'
  OBVIOUS
<1> USE ServerAssumption DEF startVars, portVars, records, handlerVars, bounds, Reachable, TypeOK,
        Handler, Early, Later, Target, NoContainerYet, RealPorts, Recorded, Pursued, Holding,
        Findable
<1>1. CASE UNCHANGED vars
  BY <1>1 DEF vars
<1>2. ASSUME NEW r \in Runtime, NEW s \in Session, StartRequest(r, s) PROVE (NoContainerYet /\ RealPorts)'
  BY <1>2 DEF StartRequest
<1>3. ASSUME NEW r \in Runtime, ListPorts(r) PROVE (NoContainerYet /\ RealPorts)'
  BY <1>3 DEF ListPorts, Refuse
<1>4. ASSUME NEW r \in Runtime, FindPort(r) PROVE (NoContainerYet /\ RealPorts)'
  BY <1>4 DEF FindPort
<1>5. ASSUME NEW r \in Runtime, CreateContainer(r) PROVE (NoContainerYet /\ RealPorts)'
  BY <1>5 DEF CreateContainer, Refuse
<1>6. ASSUME NEW r \in Runtime, LaunchContainer(r) PROVE (NoContainerYet /\ RealPorts)'
  BY <1>6 DEF LaunchContainer, Refuse
<1>7. ASSUME NEW r \in Runtime, Record(r) PROVE (NoContainerYet /\ RealPorts)'
  BY <1>7 DEF Record
<1>8. ASSUME NEW r \in Runtime, Alive(r) PROVE (NoContainerYet /\ RealPorts)'
  BY <1>8 DEF Alive
<1>9. ASSUME NEW r \in Runtime, NotAlive(r) PROVE (NoContainerYet /\ RealPorts)'
  BY <1>9 DEF NotAlive
<1>10. ASSUME NEW r \in Runtime, StopEnded(r) PROVE (NoContainerYet /\ RealPorts)'
  BY <1>10 DEF StopEnded
<1>11. ASSUME NEW r \in Runtime, ReleasePorts(r) PROVE (NoContainerYet /\ RealPorts)'
  BY <1>11 DEF ReleasePorts
<1>12. ASSUME NEW r \in Runtime, ContainerExits(r) PROVE (NoContainerYet /\ RealPorts)'
  BY <1>12 DEF ContainerExits
<1>13. ASSUME NEW q \in Request, NEW kind \in Kind, NEW r \in Runtime, Ask(q, kind, r) PROVE (NoContainerYet /\ RealPorts)'
  BY <1>13 DEF Ask
<1>14. ASSUME NEW h \in Handler, CallFails(h) PROVE (NoContainerYet /\ RealPorts)'
  BY <1>14 DEF CallFails, Refuse, Failed
<1>15. ASSUME NEW h \in Handler, GetContainer(h) PROVE (NoContainerYet /\ RealPorts)'
  BY <1>15 DEF GetContainer, Missing
<1>16. ASSUME NEW h \in Handler, StopContainer(h) PROVE (NoContainerYet /\ RealPorts)'
  BY <1>16 DEF StopContainer, Missing
<1>17. ASSUME NEW h \in Handler, DeleteContainer(h) PROVE (NoContainerYet /\ RealPorts)'
  BY <1>17 DEF DeleteContainer
<1>18. ASSUME NEW h \in Handler, Forget(h) PROVE (NoContainerYet /\ RealPorts)'
  BY <1>18 DEF Forget
<1>19. ASSUME NEW h \in Handler, ResumeContainer(h) PROVE (NoContainerYet /\ RealPorts)'
  BY <1>19 DEF ResumeContainer
<1> QED
  BY <1>1, <1>2, <1>3, <1>4, <1>5, <1>6, <1>7, <1>8, <1>9, <1>10, <1>11, <1>12, <1>13, <1>14, <1>15, <1>16, <1>17, <1>18, <1>19
  DEF Next, StartStep, HandlerStep

\* A runtime is recorded, and pursued by handlers, only from _wait_until_alive on.
LEMMA RecordStep == Reachable /\ [Next]_vars => (Recorded /\ Pursued /\ NotAsked)'
<1> SUFFICES ASSUME Reachable, [Next]_vars PROVE (Recorded /\ Pursued /\ NotAsked)'
  OBVIOUS
<1> USE ServerAssumption DEF startVars, portVars, records, handlerVars, bounds, Reachable, TypeOK,
        Handler, Early, Later, Target, Recorded, Pursued, NotAsked
<1>1. CASE UNCHANGED vars
  BY <1>1 DEF vars
<1>2. ASSUME NEW r \in Runtime, NEW s \in Session, StartRequest(r, s) PROVE (Recorded /\ Pursued /\ NotAsked)'
  BY <1>2 DEF StartRequest
<1>3. ASSUME NEW r \in Runtime, ListPorts(r) PROVE (Recorded /\ Pursued /\ NotAsked)'
  BY <1>3 DEF ListPorts, Refuse
<1>4. ASSUME NEW r \in Runtime, FindPort(r) PROVE (Recorded /\ Pursued /\ NotAsked)'
  BY <1>4 DEF FindPort
<1>5. ASSUME NEW r \in Runtime, CreateContainer(r) PROVE (Recorded /\ Pursued /\ NotAsked)'
  BY <1>5 DEF CreateContainer, Refuse
<1>6. ASSUME NEW r \in Runtime, LaunchContainer(r) PROVE (Recorded /\ Pursued /\ NotAsked)'
  BY <1>6 DEF LaunchContainer, Refuse
<1>7. ASSUME NEW r \in Runtime, Record(r) PROVE (Recorded /\ Pursued /\ NotAsked)'
  BY <1>7 DEF Record
<1>8. ASSUME NEW r \in Runtime, Alive(r) PROVE (Recorded /\ Pursued /\ NotAsked)'
  BY <1>8 DEF Alive
<1>9. ASSUME NEW r \in Runtime, NotAlive(r) PROVE (Recorded /\ Pursued /\ NotAsked)'
  BY <1>9 DEF NotAlive
<1>10. ASSUME NEW r \in Runtime, StopEnded(r) PROVE (Recorded /\ Pursued /\ NotAsked)'
  BY <1>10 DEF StopEnded
<1>11. ASSUME NEW r \in Runtime, ReleasePorts(r) PROVE (Recorded /\ Pursued /\ NotAsked)'
  BY <1>11 DEF ReleasePorts
<1>12. ASSUME NEW r \in Runtime, ContainerExits(r) PROVE (Recorded /\ Pursued /\ NotAsked)'
  BY <1>12 DEF ContainerExits
<1>13. ASSUME NEW q \in Request, NEW kind \in Kind, NEW r \in Runtime, Ask(q, kind, r) PROVE (Recorded /\ Pursued /\ NotAsked)'
  BY <1>13 DEF Ask
<1>14. ASSUME NEW h \in Handler, CallFails(h) PROVE (Recorded /\ Pursued /\ NotAsked)'
  BY <1>14 DEF CallFails, Refuse, Failed
<1>15. ASSUME NEW h \in Handler, GetContainer(h) PROVE (Recorded /\ Pursued /\ NotAsked)'
  BY <1>15 DEF GetContainer, Missing
<1>16. ASSUME NEW h \in Handler, StopContainer(h) PROVE (Recorded /\ Pursued /\ NotAsked)'
  BY <1>16 DEF StopContainer, Missing
<1>17. ASSUME NEW h \in Handler, DeleteContainer(h) PROVE (Recorded /\ Pursued /\ NotAsked)'
  BY <1>17 DEF DeleteContainer
<1>18. ASSUME NEW h \in Handler, Forget(h) PROVE (Recorded /\ Pursued /\ NotAsked)'
  BY <1>18 DEF Forget
<1>19. ASSUME NEW h \in Handler, ResumeContainer(h) PROVE (Recorded /\ Pursued /\ NotAsked)'
  BY <1>19 DEF ResumeContainer
<1> QED
  BY <1>1, <1>2, <1>3, <1>4, <1>5, <1>6, <1>7, <1>8, <1>9, <1>10, <1>11, <1>12, <1>13, <1>14, <1>15, <1>16, <1>17, <1>18, <1>19
  DEF Next, StartStep, HandlerStep

\* A deleted container does not come back.
LEMMA DeletedStep == Reachable /\ [Next]_vars => Deleted'
<1> SUFFICES ASSUME Reachable, [Next]_vars PROVE Deleted'
  OBVIOUS
<1> USE ServerAssumption DEF startVars, portVars, records, handlerVars, bounds, Reachable, TypeOK,
        Handler, Early, Later, Target, NoContainerYet, Pursued, Deleted
<1>1. CASE UNCHANGED vars
  BY <1>1 DEF vars
<1>2. ASSUME NEW r \in Runtime, NEW s \in Session, StartRequest(r, s) PROVE Deleted'
  BY <1>2 DEF StartRequest
<1>3. ASSUME NEW r \in Runtime, ListPorts(r) PROVE Deleted'
  BY <1>3 DEF ListPorts, Refuse
<1>4. ASSUME NEW r \in Runtime, FindPort(r) PROVE Deleted'
  BY <1>4 DEF FindPort
<1>5. ASSUME NEW r \in Runtime, CreateContainer(r) PROVE Deleted'
  BY <1>5 DEF CreateContainer, Refuse
<1>6. ASSUME NEW r \in Runtime, LaunchContainer(r) PROVE Deleted'
  BY <1>6 DEF LaunchContainer, Refuse
<1>7. ASSUME NEW r \in Runtime, Record(r) PROVE Deleted'
  BY <1>7 DEF Record
<1>8. ASSUME NEW r \in Runtime, Alive(r) PROVE Deleted'
  BY <1>8 DEF Alive
<1>9. ASSUME NEW r \in Runtime, NotAlive(r) PROVE Deleted'
  BY <1>9 DEF NotAlive
<1>10. ASSUME NEW r \in Runtime, StopEnded(r) PROVE Deleted'
  BY <1>10 DEF StopEnded
<1>11. ASSUME NEW r \in Runtime, ReleasePorts(r) PROVE Deleted'
  BY <1>11 DEF ReleasePorts
<1>12. ASSUME NEW r \in Runtime, ContainerExits(r) PROVE Deleted'
  BY <1>12 DEF ContainerExits
<1>13. ASSUME NEW q \in Request, NEW kind \in Kind, NEW r \in Runtime, Ask(q, kind, r) PROVE Deleted'
  BY <1>13 DEF Ask
<1>14. ASSUME NEW h \in Handler, CallFails(h) PROVE Deleted'
  BY <1>14 DEF CallFails, Refuse, Failed
<1>15. ASSUME NEW h \in Handler, GetContainer(h) PROVE Deleted'
  BY <1>15 DEF GetContainer, Missing
<1>16. ASSUME NEW h \in Handler, StopContainer(h) PROVE Deleted'
  BY <1>16 DEF StopContainer, Missing
<1>17. ASSUME NEW h \in Handler, DeleteContainer(h) PROVE Deleted'
  BY <1>17 DEF DeleteContainer
<1>18. ASSUME NEW h \in Handler, Forget(h) PROVE Deleted'
  BY <1>18 DEF Forget
<1>19. ASSUME NEW h \in Handler, ResumeContainer(h) PROVE Deleted'
  BY <1>19 DEF ResumeContainer
<1> QED
  BY <1>1, <1>2, <1>3, <1>4, <1>5, <1>6, <1>7, <1>8, <1>9, <1>10, <1>11, <1>12, <1>13, <1>14, <1>15, <1>16, <1>17, <1>18, <1>19
  DEF Next, StartStep, HandlerStep

LEMMA ReachableStep == Reachable /\ [Next]_vars => Reachable'
  BY TypeStep, ContainerStep, RecordStep, DeletedStep DEF Reachable

LEMMA AlwaysReachable == Spec => []Reachable
  BY ReachableInit, ReachableStep, PTL DEF Spec

\* Every reachable state has the types of TypeOK.
THEOREM TypeCorrect == Spec => []TypeOK
<1>1. Reachable => TypeOK
  BY DEF Reachable
<1> QED
  BY <1>1, AlwaysReachable, PTL

\* A search takes no port of a start in flight, and a release drops no other's.
LEMMA PortsStep == Reachable /\ PortsExclusive /\ [Next]_vars => PortsExclusive'
<1> SUFFICES ASSUME Reachable, PortsExclusive, [Next]_vars PROVE PortsExclusive'
  OBVIOUS
<1> USE ServerAssumption DEF startVars, portVars, records, handlerVars, bounds, Reachable, TypeOK,
        Handler, Early, Later, Target, NoContainerYet, RealPorts, Holding, Undisturbed, PortsExclusive, NotAsked
<1>1. CASE UNCHANGED vars
  BY <1>1 DEF vars
<1>2. ASSUME NEW r \in Runtime, NEW s \in Session, StartRequest(r, s) PROVE PortsExclusive'
  BY <1>2 DEF StartRequest
<1>3. ASSUME NEW r \in Runtime, ListPorts(r) PROVE PortsExclusive'
  BY <1>3 DEF ListPorts, Refuse
<1>4. ASSUME NEW r \in Runtime, FindPort(r) PROVE PortsExclusive'
  BY <1>4 DEF FindPort, Findable, Bound
<1>5. ASSUME NEW r \in Runtime, CreateContainer(r) PROVE PortsExclusive'
  BY <1>5 DEF CreateContainer, Refuse
<1>6. ASSUME NEW r \in Runtime, LaunchContainer(r) PROVE PortsExclusive'
  BY <1>6 DEF LaunchContainer, Refuse, Pursued
<1>7. ASSUME NEW r \in Runtime, Record(r) PROVE PortsExclusive'
  BY <1>7 DEF Record
<1>8. ASSUME NEW r \in Runtime, Alive(r) PROVE PortsExclusive'
  BY <1>8 DEF Alive
<1>9. ASSUME NEW r \in Runtime, NotAlive(r) PROVE PortsExclusive'
  BY <1>9 DEF NotAlive
<1>10. ASSUME NEW r \in Runtime, StopEnded(r) PROVE PortsExclusive'
  BY <1>10 DEF StopEnded
<1>11. ASSUME NEW r \in Runtime, ReleasePorts(r) PROVE PortsExclusive'
  BY <1>11 DEF ReleasePorts
<1>12. ASSUME NEW r \in Runtime, ContainerExits(r) PROVE PortsExclusive'
  BY <1>12 DEF ContainerExits
<1>13. ASSUME NEW q \in Request, NEW kind \in Kind, NEW r \in Runtime, Ask(q, kind, r) PROVE PortsExclusive'
  BY <1>13 DEF Ask
<1>14. ASSUME NEW h \in Handler, CallFails(h) PROVE PortsExclusive'
  BY <1>14 DEF CallFails, Refuse, Failed
<1>15. ASSUME NEW h \in Handler, GetContainer(h) PROVE PortsExclusive'
  BY <1>15 DEF GetContainer, Missing
<1>16. ASSUME NEW h \in Handler, StopContainer(h) PROVE PortsExclusive'
  BY <1>16 DEF StopContainer, Missing
<1>17. ASSUME NEW h \in Handler, DeleteContainer(h) PROVE PortsExclusive'
  BY <1>17 DEF DeleteContainer
<1>18. ASSUME NEW h \in Handler, Forget(h) PROVE PortsExclusive'
  BY <1>18 DEF Forget
<1>19. ASSUME NEW h \in Handler, ResumeContainer(h) PROVE PortsExclusive'
  BY <1>19 DEF ResumeContainer, KindOf
<1> QED
  BY <1>1, <1>2, <1>3, <1>4, <1>5, <1>6, <1>7, <1>8, <1>9, <1>10, <1>11, <1>12, <1>13, <1>14, <1>15, <1>16, <1>17, <1>18, <1>19
  DEF Next, StartStep, HandlerStep

\* The ports in flight belong to the starts in flight, one by one.
THEOREM PortsStayExclusive == Spec => []PortsExclusive
<1>1. Init => PortsExclusive
  BY DEF Init, PortsExclusive, Holding
<1> QED
  BY <1>1, AlwaysReachable, PortsStep, PTL DEF Spec

\* Whoever deletes a record deletes the session of it.
LEMMA SessionsStep == Reachable /\ SessionsResolve /\ [Next]_vars => SessionsResolve'
<1> SUFFICES ASSUME Reachable, SessionsResolve, [Next]_vars PROVE SessionsResolve'
  OBVIOUS
<1> USE ServerAssumption DEF startVars, portVars, records, handlerVars, bounds, Reachable, TypeOK,
        Handler, Early, Later, Target, Recorded, SessionsResolve
<1>1. CASE UNCHANGED vars
  BY <1>1 DEF vars
<1>2. ASSUME NEW r \in Runtime, NEW s \in Session, StartRequest(r, s) PROVE SessionsResolve'
  BY <1>2 DEF StartRequest
<1>3. ASSUME NEW r \in Runtime, ListPorts(r) PROVE SessionsResolve'
  BY <1>3 DEF ListPorts, Refuse
<1>4. ASSUME NEW r \in Runtime, FindPort(r) PROVE SessionsResolve'
  BY <1>4 DEF FindPort
<1>5. ASSUME NEW r \in Runtime, CreateContainer(r) PROVE SessionsResolve'
  BY <1>5 DEF CreateContainer, Refuse
<1>6. ASSUME NEW r \in Runtime, LaunchContainer(r) PROVE SessionsResolve'
  BY <1>6 DEF LaunchContainer, Refuse
<1>7. ASSUME NEW r \in Runtime, Record(r) PROVE SessionsResolve'
  BY <1>7 DEF Record
<1>8. ASSUME NEW r \in Runtime, Alive(r) PROVE SessionsResolve'
  BY <1>8 DEF Alive
<1>9. ASSUME NEW r \in Runtime, NotAlive(r) PROVE SessionsResolve'
  BY <1>9 DEF NotAlive
<1>10. ASSUME NEW r \in Runtime, StopEnded(r) PROVE SessionsResolve'
  BY <1>10 DEF StopEnded
<1>11. ASSUME NEW r \in Runtime, ReleasePorts(r) PROVE SessionsResolve'
  BY <1>11 DEF ReleasePorts
<1>12. ASSUME NEW r \in Runtime, ContainerExits(r) PROVE SessionsResolve'
  BY <1>12 DEF ContainerExits
<1>13. ASSUME NEW q \in Request, NEW kind \in Kind, NEW r \in Runtime, Ask(q, kind, r) PROVE SessionsResolve'
  BY <1>13 DEF Ask
<1>14. ASSUME NEW h \in Handler, CallFails(h) PROVE SessionsResolve'
  BY <1>14 DEF CallFails, Refuse, Failed
<1>15. ASSUME NEW h \in Handler, GetContainer(h) PROVE SessionsResolve'
  BY <1>15 DEF GetContainer, Missing
<1>16. ASSUME NEW h \in Handler, StopContainer(h) PROVE SessionsResolve'
  BY <1>16 DEF StopContainer, Missing
<1>17. ASSUME NEW h \in Handler, DeleteContainer(h) PROVE SessionsResolve'
  BY <1>17 DEF DeleteContainer
<1>18. ASSUME NEW h \in Handler, Forget(h) PROVE SessionsResolve'
  BY <1>18 DEF Forget
<1>19. ASSUME NEW h \in Handler, ResumeContainer(h) PROVE SessionsResolve'
  BY <1>19 DEF ResumeContainer
<1> QED
  BY <1>1, <1>2, <1>3, <1>4, <1>5, <1>6, <1>7, <1>8, <1>9, <1>10, <1>11, <1>12, <1>13, <1>14, <1>15, <1>16, <1>17, <1>18, <1>19
  DEF Next, StartStep, HandlerStep

\* A recorded session always leads to a recorded runtime of that session.
THEOREM SessionsAlwaysResolve == Spec => []SessionsResolve
<1>1. Init => SessionsResolve
  BY ServerAssumption DEF Init, SessionsResolve
<1> QED
  BY <1>1, AlwaysReachable, SessionsStep, PTL DEF Spec

\* The containers that are leaked or will be: of a start that ends without a record,
\* or behind a stop that gives up.
IsDoomed(r) ==
    /\ container[r] # "none"
    /\ \/ start[r] \in {"aborting", "failed"}
       \/ start[r] \in {"waiting", "stopping", "answering", "served"} /\ r \notin active
       \/ start[r] = "stopping" /\ place[r] = "done"
       \/ \E h \in Handler : Target(h) = r /\ place[h] = "refused"
Doomed == {r \in Runtime : IsDoomed(r)}

\* A step dooms a container only when it is refused, and then only one.
Charged ==
    \/ /\ refusals' = refusals
       /\ Doomed' \subseteq Doomed
    \/ /\ refusals' = refusals + 1
       /\ \E r \in Runtime : Doomed' \subseteq Doomed \cup {r}

\* Every step pays for the container that it dooms.
LEMMA DoomedStep == Reachable /\ [Next]_vars => Charged
<1> SUFFICES ASSUME Reachable, [Next]_vars PROVE Charged
  OBVIOUS
<1> USE ServerAssumption DEF startVars, portVars, records, handlerVars, bounds, Reachable, TypeOK,
        Handler, Early, Later, Target, NoContainerYet, Pursued, IsDoomed, Doomed, Charged
<1>1. CASE UNCHANGED vars
  BY <1>1 DEF vars
<1>2. ASSUME NEW r \in Runtime, NEW s \in Session, StartRequest(r, s) PROVE Charged
  BY <1>2 DEF StartRequest
<1>3. ASSUME NEW r \in Runtime, ListPorts(r) PROVE Charged
  BY <1>3 DEF ListPorts, Refuse
<1>4. ASSUME NEW r \in Runtime, FindPort(r) PROVE Charged
  BY <1>4 DEF FindPort
<1>5. ASSUME NEW r \in Runtime, CreateContainer(r) PROVE Charged
  BY <1>5 DEF CreateContainer, Refuse
<1>6. ASSUME NEW r \in Runtime, LaunchContainer(r) PROVE Charged
  BY <1>6 DEF LaunchContainer, Refuse
<1>7. ASSUME NEW r \in Runtime, Record(r) PROVE Charged
  BY <1>7 DEF Record
<1>8. ASSUME NEW r \in Runtime, Alive(r) PROVE Charged
  BY <1>8 DEF Alive
<1>9. ASSUME NEW r \in Runtime, NotAlive(r) PROVE Charged
  BY <1>9 DEF NotAlive
<1>10. ASSUME NEW r \in Runtime, StopEnded(r) PROVE Charged
  BY <1>10 DEF StopEnded
<1>11. ASSUME NEW r \in Runtime, ReleasePorts(r) PROVE Charged
  BY <1>11 DEF ReleasePorts
<1>12. ASSUME NEW r \in Runtime, ContainerExits(r) PROVE Charged
  BY <1>12 DEF ContainerExits
<1>13. ASSUME NEW q \in Request, NEW kind \in Kind, NEW r \in Runtime, Ask(q, kind, r) PROVE Charged
  BY <1>13 DEF Ask
<1>14. ASSUME NEW h \in Handler, CallFails(h) PROVE Charged
  <2>1. \E next \in HandlerPlace : place' = [place EXCEPT ![h] = next]
    BY <1>14 DEF CallFails, Failed, HandlerPlace
  <2>2. \A x \in Runtime : x # Target(h) /\ IsDoomed(x)' => IsDoomed(x)
    BY <1>14, <2>1 DEF CallFails
  <2>3. Target(h) \in Runtime
    BY <1>14 DEF CallFails
  <2> HIDE DEF IsDoomed
  <2>4. Doomed' \subseteq Doomed \cup {Target(h)}
    BY <2>2
  <2> HIDE DEF Doomed
  <2> QED BY <1>14, <2>3, <2>4 DEF CallFails, Refuse
<1>15. ASSUME NEW h \in Handler, GetContainer(h) PROVE Charged
  BY <1>15 DEF GetContainer, Missing
<1>16. ASSUME NEW h \in Handler, StopContainer(h) PROVE Charged
  BY <1>16 DEF StopContainer, Missing, KindOf
<1>17. ASSUME NEW h \in Handler, DeleteContainer(h) PROVE Charged
  BY <1>17 DEF DeleteContainer
<1>18. ASSUME NEW h \in Handler, Forget(h) PROVE Charged
  BY <1>18 DEF Forget, Deleted
<1>19. ASSUME NEW h \in Handler, ResumeContainer(h) PROVE Charged
  BY <1>19 DEF ResumeContainer, KindOf
<1> QED
  BY <1>1, <1>2, <1>3, <1>4, <1>5, <1>6, <1>7, <1>8, <1>9, <1>10, <1>11, <1>12, <1>13, <1>14, <1>15, <1>16, <1>17, <1>18, <1>19
  DEF Next, StartStep, HandlerStep

DoomedBound == Cardinality(Doomed) <= refusals

LEMMA DoomedBoundStep == Reachable /\ DoomedBound /\ [Next]_vars => DoomedBound'
<1> SUFFICES ASSUME Reachable, DoomedBound, [Next]_vars PROVE DoomedBound'
  OBVIOUS
<1>1. IsFiniteSet(Doomed) /\ refusals \in Nat
  BY ServerAssumption, FS_Subset DEF Doomed, Reachable, TypeOK
<1>2. Cardinality(Doomed) \in Nat
  BY <1>1, FS_CardinalityType
<1>3. CASE refusals' = refusals /\ Doomed' \subseteq Doomed
  <2>1. Cardinality(Doomed') <= Cardinality(Doomed) /\ Cardinality(Doomed') \in Nat
    BY <1>1, <1>3, FS_Subset, FS_CardinalityType
  <2> QED BY <1>1, <1>2, <1>3, <2>1 DEF DoomedBound
<1>4. CASE refusals' = refusals + 1 /\ \E r \in Runtime : Doomed' \subseteq Doomed \cup {r}
  <2>1. PICK r \in Runtime : Doomed' \subseteq Doomed \cup {r}
    BY <1>4
  <2>2. /\ IsFiniteSet(Doomed \cup {r})
        /\ Cardinality(Doomed \cup {r}) <= Cardinality(Doomed) + 1
    BY <1>1, <1>2, FS_AddElement
  <2>3. /\ Cardinality(Doomed') <= Cardinality(Doomed \cup {r})
        /\ Cardinality(Doomed') \in Nat
        /\ Cardinality(Doomed \cup {r}) \in Nat
    BY <2>1, <2>2, FS_Subset, FS_CardinalityType
  <2> QED BY <1>1, <1>2, <1>4, <2>2, <2>3 DEF DoomedBound
<1> QED
  BY <1>3, <1>4, DoomedStep DEF Charged

\* Whatever the handlers do to each other, a container is leaked only at the price of a
\* call that Docker refused.
THEOREM NothingEverLeaks == Spec => []NothingLeaks
<1>1. Init => DoomedBound
  <2> SUFFICES ASSUME Init PROVE DoomedBound
    OBVIOUS
  <2>1. Doomed = {}
    BY DEF Init, Doomed, IsDoomed
  <2> QED BY <2>1, FS_EmptySet DEF Init, DoomedBound
<1>2. Reachable /\ DoomedBound => NothingLeaks
  <2> SUFFICES ASSUME Reachable, DoomedBound PROVE NothingLeaks
    OBVIOUS
  <2>1. IsFiniteSet(Doomed) /\ refusals \in Nat
    BY ServerAssumption, FS_Subset DEF Doomed, Reachable, TypeOK
  <2>2. Leaked \subseteq Doomed
    BY DEF Leaked, Doomed, IsDoomed
  <2>3. Cardinality(Leaked) <= Cardinality(Doomed) /\ IsFiniteSet(Leaked)
    BY <2>1, <2>2, FS_Subset
  <2>4. Cardinality(Leaked) \in Nat /\ Cardinality(Doomed) \in Nat
    BY <2>1, <2>3, FS_CardinalityType
  <2> QED BY <2>1, <2>3, <2>4 DEF NothingLeaks, DoomedBound
<1> QED
  BY <1>1, <1>2, AlwaysReachable, DoomedBoundStep, PTL DEF Spec
=============================================================================
