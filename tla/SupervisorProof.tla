-------------------------- MODULE SupervisorProof ---------------------------
(***************************************************************************)
(* Proofs about Supervisor, for any number of requests in flight.          *)
(***************************************************************************)
EXTENDS Supervisor, TLAPS

\* Where Run has not yet decided to stop.
Up ==
    {"configure", "listen", "assemble", "midi", "awaitReady", "peers", "check",
     "openSource", "processor", "serve", "supervise"}

\* Stopping, from the last step backwards: where the server is the last to go,
\* where the manager has been told to stop, and so on.
AfterManager == {"closeListener", "shutdown", "drain", "joinServer", "returned"}
AfterRuntime == {"stopManager", "joinManager"} \cup AfterManager
AfterHost == {"closeRuntime"} \cup AfterRuntime
AfterEdge == {"closeSource", "closeHost"} \cup AfterHost

Alive(t) == task[t] \in {"running", "ended"}

\* A task is started in one place and joined in one place.
TasksInv ==
    /\ Alive("processor") => pc \in {"supervise", "retire", "stopProcessor", "joinProcessor"}
    /\ Alive("edge") => pc \notin AfterEdge \cup (Up \ {"supervise"})
    /\ Alive("manager") =>
          pc \notin AfterManager \cup {"configure", "listen", "assemble", "midi", "check"}
    /\ Alive("server") => pc \notin {"closeSource", "closeListener", "returned"} \cup (Up \ {"supervise"})
    /\ pc \in {"shutdown", "drain", "joinServer"} => task["server"] # "off"
    /\ pc \in {"closeSource", "closeListener"} => task["server"] = "off"
    /\ conf.mode = "replay" => task["server"] = "off" /\ task["edge"] = "off"

\* Before the first reason to stop nothing has gone wrong and nothing is joined.
StartInv ==
    /\ pc \in Up =>
          /\ result = {} /\ troubles = {} /\ cause = "none" /\ cancelled = {} /\ ~retired
          /\ \A t \in Tasks : task[t] # "joined"
    /\ pc \in Up \ {"supervise"} =>
          task["server"] = "off" /\ task["edge"] = "off" /\ task["processor"] = "off"
    /\ pc \in {"configure", "listen", "assemble", "peers", "serve"} => conf.mode = "run"
    /\ pc = "check" => conf.mode = "replay"
    /\ pc \in {"openSource", "processor"} => conf.capture
    /\ pc \in {"configure", "check", "listen"} => \A x \in Things : thing[x] = "none"
    /\ \/ pc \in {"configure", "listen", "assemble", "midi", "check"}
       \/ pc = "openSource" /\ conf.mode = "replay"
       => task["manager"] = "off" /\ thing["runtime"] = "none"
    /\ pc = "awaitReady" => task["manager"] # "off" /\ thing["runtime"] = "open"
    /\ conf.mode = "run" /\ conf.midi /\ pc \in {"peers", "openSource", "processor", "serve"} =>
          task["manager"] # "off" /\ thing["runtime"] = "open"

\* Who closes what is open.
ThingsInv ==
    /\ thing["listener"] = "open" =>
          /\ task["server"] \in {"off", "running"}
          /\ task["server"] = "off" => pc # "returned"
    /\ thing["source"] = "open" =>
          \/ task["processor"] = "running"
          \/ /\ task["processor"] = "off" /\ conf.capture
             /\ pc \in {"processor", "serve", "closeSource"}
                  \cup (IF conf.mode = "replay" THEN {"midi", "awaitReady"} ELSE {})
    /\ thing["driver"] = "open" => task["manager"] = "running"
    /\ thing["runtime"] = "open" => pc \notin AfterRuntime \cup {"midi"}
    /\ thing["runtime"] = "closed" => pc \in AfterRuntime
    /\ thing["host"] = "open" => pc \notin AfterHost
    /\ "manager" \in cancelled => pc \in {"joinManager"} \cup AfterManager

\* What the joined tasks and the cause of the stop contribute to the error.
Learnt ==
    {t \in Tasks : task[t] = "joined" /\ Unexpected(t, outcome[t]) # {}}
        \cup {t \in Tasks : cause = t /\ (conf.mode = "run" \/ t = "manager")}

\* The error so far is exactly what has been learnt so far.
ResultInv ==
    /\ result = troubles \cup Learnt
    /\ \A t \in Tasks : task[t] \in {"off", "running"} => outcome[t] = {}

Inv == TypeOK /\ TasksInv /\ StartInv /\ ThingsInv /\ ReadyMeansUp /\ ResultInv

LEMMA TasksKept ==
    ASSUME Inv, [Next]_vars
    PROVE  TasksInv'
<1> USE DEF Goto, GiveUp, environment, serving, Tasks, Things
<1> USE DEF Inv, TypeOK, TasksInv, StartInv, Alive, Configurations, Up, AfterManager, AfterRuntime, AfterHost, AfterEdge
<1>1. CASE Configure
  BY <1>1 DEF Configure
<1>2. CASE Listen
  BY <1>2 DEF Listen
<1>3. CASE Assemble
  BY <1>3 DEF Assemble
<1>4. CASE StartMIDI
  BY <1>4 DEF StartMIDI
<1>5. CASE AwaitReady
  BY <1>5 DEF AwaitReady, AfterReady
<1>6. CASE StartPeers
  BY <1>6 DEF StartPeers
<1>7. CASE Check
  BY <1>7 DEF Check
<1>8. CASE OpenSource
  BY <1>8 DEF OpenSource
<1>9. CASE NewProcessor
  BY <1>9 DEF NewProcessor
<1>10. CASE Serve
  BY <1>10 DEF Serve
<1>11. CASE Wake
  BY <1>11 DEF Wake, Stopped, Report
<1>12. CASE Retire
  BY <1>12 DEF Retire
<1>13. CASE StopProcessor
  BY <1>13 DEF StopProcessor, Stop
<1>14. CASE JoinProcessor
  BY <1>14 DEF JoinProcessor, Join, Report
<1>15. CASE StopEdge
  BY <1>15 DEF StopEdge, Stop
<1>16. CASE JoinEdge
  BY <1>16 DEF JoinEdge, Join, Report
<1>17. CASE CloseSource
  BY <1>17 DEF CloseSource, Close
<1>18. CASE CloseHost
  BY <1>18 DEF CloseHost, Close
<1>19. CASE CloseRuntime
  BY <1>19 DEF CloseRuntime, Close
<1>20. CASE StopManager
  BY <1>20 DEF StopManager, Stop
<1>21. CASE JoinManager
  BY <1>21 DEF JoinManager, Join, Report
<1>22. CASE CloseListener
  BY <1>22 DEF CloseListener, Close
<1>23. CASE Shutdown
  BY <1>23 DEF Shutdown, Stop
<1>24. CASE Drain
  BY <1>24 DEF Drain
<1>25. CASE JoinServer
  BY <1>25 DEF JoinServer, Join, Report
<1>26. CASE CancelContext
  BY <1>26 DEF CancelContext
<1>27. CASE ManagerDiscovers
  BY <1>27 DEF ManagerDiscovers
<1>28. CASE AcceptRequest
  BY <1>28 DEF AcceptRequest
<1>29. CASE FinishRequest
  BY <1>29 DEF FinishRequest
<1>30. ASSUME NEW t \in Tasks, End(t) PROVE TasksInv'
  BY <1>30 DEF End, Owned
<1>31. CASE UNCHANGED vars
  BY <1>31 DEF vars
<1> QED BY <1>1, <1>2, <1>3, <1>4, <1>5, <1>6, <1>7, <1>8, <1>9, <1>10, <1>11, <1>12, <1>13, <1>14, <1>15, <1>16, <1>17, <1>18, <1>19, <1>20, <1>21, <1>22, <1>23, <1>24, <1>25, <1>26, <1>27, <1>28, <1>29, <1>30, <1>31 DEF Next, Supervise, Starting, Stopping, Done

LEMMA StartKept ==
    ASSUME Inv, [Next]_vars
    PROVE  StartInv'
<1> USE DEF Goto, GiveUp, environment, serving, Tasks, Things
<1> USE DEF Inv, TypeOK, TasksInv, StartInv, Alive, Configurations, Up, AfterManager, AfterRuntime, AfterHost, AfterEdge
<1>1. CASE Configure
  BY <1>1 DEF Configure
<1>2. CASE Listen
  BY <1>2 DEF Listen
<1>3. CASE Assemble
  BY <1>3 DEF Assemble
<1>4. CASE StartMIDI
  <2>1. CASE GiveUp
    BY <2>1
  <2>2. CASE ~GiveUp
    <3>1. /\ pc = "midi" /\ pc' = "awaitReady"
          /\ thing' = [thing EXCEPT !["driver"] = "open", !["runtime"] = "open"]
          /\ task' = [task EXCEPT !["manager"] = "running"]
          /\ UNCHANGED <<conf, cancelled, retired, result, cause, troubles>>
      BY <1>4, <2>2 DEF StartMIDI
    <3>2. task'["manager"] = "running" /\ thing'["runtime"] = "open"
      BY <3>1
    <3>3. \A t \in Tasks : t # "manager" => task'[t] = task[t]
      BY <3>1
    <3> QED BY <3>1, <3>2, <3>3
  <2> QED BY <2>1, <2>2
<1>5. CASE AwaitReady
  BY <1>5 DEF AwaitReady, AfterReady
<1>6. CASE StartPeers
  BY <1>6 DEF StartPeers
<1>7. CASE Check
  BY <1>7 DEF Check
<1>8. CASE OpenSource
  BY <1>8 DEF OpenSource
<1>9. CASE NewProcessor
  <2>1. CASE GiveUp
    BY <2>1
  <2>2. CASE pc' = "serve"
    BY <1>9, <2>2 DEF NewProcessor
  <2>3. CASE pc' = "supervise"
    <3>1. /\ pc = "processor" /\ task' = [task EXCEPT !["processor"] = "running"]
          /\ UNCHANGED <<conf, cancelled, retired, result, cause, troubles>>
      BY <1>9, <2>3 DEF NewProcessor
    <3>2. \A t \in Tasks : task'[t] # "joined"
      BY <3>1
    <3> QED BY <2>3, <3>1, <3>2
  <2> QED BY <1>9, <2>1, <2>2, <2>3 DEF NewProcessor
<1>10. CASE Serve
  BY <1>10 DEF Serve
<1>11. CASE Wake
  BY <1>11 DEF Wake, Stopped, Report
<1>12. CASE Retire
  BY <1>12 DEF Retire
<1>13. CASE StopProcessor
  BY <1>13 DEF StopProcessor, Stop
<1>14. CASE JoinProcessor
  BY <1>14 DEF JoinProcessor, Join, Report
<1>15. CASE StopEdge
  BY <1>15 DEF StopEdge, Stop
<1>16. CASE JoinEdge
  BY <1>16 DEF JoinEdge, Join, Report
<1>17. CASE CloseSource
  BY <1>17 DEF CloseSource, Close
<1>18. CASE CloseHost
  BY <1>18 DEF CloseHost, Close
<1>19. CASE CloseRuntime
  BY <1>19 DEF CloseRuntime, Close
<1>20. CASE StopManager
  BY <1>20 DEF StopManager, Stop
<1>21. CASE JoinManager
  BY <1>21 DEF JoinManager, Join, Report
<1>22. CASE CloseListener
  BY <1>22 DEF CloseListener, Close
<1>23. CASE Shutdown
  BY <1>23 DEF Shutdown, Stop
<1>24. CASE Drain
  BY <1>24 DEF Drain
<1>25. CASE JoinServer
  BY <1>25 DEF JoinServer, Join, Report
<1>26. CASE CancelContext
  BY <1>26 DEF CancelContext
<1>27. CASE ManagerDiscovers
  BY <1>27 DEF ManagerDiscovers
<1>28. CASE AcceptRequest
  BY <1>28 DEF AcceptRequest
<1>29. CASE FinishRequest
  BY <1>29 DEF FinishRequest
<1>30. ASSUME NEW t \in Tasks, End(t) PROVE StartInv'
  BY <1>30 DEF End, Owned
<1>31. CASE UNCHANGED vars
  BY <1>31 DEF vars
<1> QED BY <1>1, <1>2, <1>3, <1>4, <1>5, <1>6, <1>7, <1>8, <1>9, <1>10, <1>11, <1>12, <1>13, <1>14, <1>15, <1>16, <1>17, <1>18, <1>19, <1>20, <1>21, <1>22, <1>23, <1>24, <1>25, <1>26, <1>27, <1>28, <1>29, <1>30, <1>31 DEF Next, Supervise, Starting, Stopping, Done

LEMMA ThingsKept ==
    ASSUME Inv, [Next]_vars
    PROVE  ThingsInv'
<1> USE DEF Goto, GiveUp, environment, serving, Tasks, Things
<1> USE DEF Inv, TypeOK, TasksInv, StartInv, ThingsInv, Alive, Configurations, Up, AfterManager, AfterRuntime, AfterHost, AfterEdge
<1>1. CASE Configure
  BY <1>1 DEF Configure
<1>2. CASE Listen
  BY <1>2 DEF Listen
<1>3. CASE Assemble
  BY <1>3 DEF Assemble
<1>4. CASE StartMIDI
  BY <1>4 DEF StartMIDI
<1>5. CASE AwaitReady
  BY <1>5 DEF AwaitReady, AfterReady
<1>6. CASE StartPeers
  BY <1>6 DEF StartPeers
<1>7. CASE Check
  BY <1>7 DEF Check
<1>8. CASE OpenSource
  BY <1>8 DEF OpenSource
<1>9. CASE NewProcessor
  BY <1>9 DEF NewProcessor
<1>10. CASE Serve
  BY <1>10 DEF Serve
<1>11. CASE Wake
  BY <1>11 DEF Wake, Stopped, Report
<1>12. CASE Retire
  BY <1>12 DEF Retire
<1>13. CASE StopProcessor
  BY <1>13 DEF StopProcessor, Stop
<1>14. CASE JoinProcessor
  BY <1>14 DEF JoinProcessor, Join, Report
<1>15. CASE StopEdge
  BY <1>15 DEF StopEdge, Stop
<1>16. CASE JoinEdge
  BY <1>16 DEF JoinEdge, Join, Report
<1>17. CASE CloseSource
  BY <1>17 DEF CloseSource, Close
<1>18. CASE CloseHost
  BY <1>18 DEF CloseHost, Close
<1>19. CASE CloseRuntime
  BY <1>19 DEF CloseRuntime, Close
<1>20. CASE StopManager
  BY <1>20 DEF StopManager, Stop
<1>21. CASE JoinManager
  BY <1>21 DEF JoinManager, Join, Report
<1>22. CASE CloseListener
  BY <1>22 DEF CloseListener, Close
<1>23. CASE Shutdown
  BY <1>23 DEF Shutdown, Stop
<1>24. CASE Drain
  BY <1>24 DEF Drain
<1>25. CASE JoinServer
  BY <1>25 DEF JoinServer, Join, Report
<1>26. CASE CancelContext
  BY <1>26 DEF CancelContext
<1>27. CASE ManagerDiscovers
  BY <1>27 DEF ManagerDiscovers
<1>28. CASE AcceptRequest
  BY <1>28 DEF AcceptRequest
<1>29. CASE FinishRequest
  BY <1>29 DEF FinishRequest
<1>30. ASSUME NEW t \in Tasks, End(t) PROVE ThingsInv'
  BY <1>30 DEF End, Owned
<1>31. CASE UNCHANGED vars
  BY <1>31 DEF vars
<1> QED BY <1>1, <1>2, <1>3, <1>4, <1>5, <1>6, <1>7, <1>8, <1>9, <1>10, <1>11, <1>12, <1>13, <1>14, <1>15, <1>16, <1>17, <1>18, <1>19, <1>20, <1>21, <1>22, <1>23, <1>24, <1>25, <1>26, <1>27, <1>28, <1>29, <1>30, <1>31 DEF Next, Supervise, Starting, Stopping, Done

\* Whatever a task ends with is made of the leaves.
LEMMA EndingsTyped ==
    ASSUME NEW t \in Tasks, NEW error \in Endings(t)
    PROVE  error \in SUBSET Leaves
<1>1. CASE t = "edge"
  BY <1>1 DEF Endings
<1>2. CASE t = "processor"
  BY <1>2 DEF Endings, Leaves
<1>3. CASE t = "manager"
  BY <1>3 DEF Endings, Leaves
<1>4. CASE t = "server"
  BY <1>4 DEF Endings, Leaves
<1> QED BY <1>1, <1>2, <1>3, <1>4 DEF Tasks

LEMMA TypesKept ==
    ASSUME Inv, [Next]_vars
    PROVE  TypeOK'
<1>0. /\ \A t \in {"processor", "edge", "manager", "server"} : t \in Tasks
      /\ \A x \in {"listener", "source", "driver", "runtime", "host"} : x \in Things
  BY DEF Tasks, Things
<1> USE <1>0 DEF Goto, GiveUp, environment, serving
<1> USE MaxRequestsAssumption DEF Inv, TypeOK
<1>1. CASE Configure
  BY <1>1 DEF Configure
<1>2. CASE Listen
  BY <1>2 DEF Listen
<1>3. CASE Assemble
  BY <1>3 DEF Assemble
<1>4. CASE StartMIDI
  BY <1>4 DEF StartMIDI
<1>5. CASE AwaitReady
  BY <1>5 DEF AwaitReady, AfterReady
<1>6. CASE StartPeers
  BY <1>6 DEF StartPeers
<1>7. CASE Check
  BY <1>7 DEF Check
<1>8. CASE OpenSource
  BY <1>8 DEF OpenSource
<1>9. CASE NewProcessor
  BY <1>9 DEF NewProcessor
<1>10. CASE Serve
  BY <1>10 DEF Serve
<1>11. CASE Wake
  BY <1>11 DEF Wake, Stopped, Report
<1>12. CASE Retire
  BY <1>12 DEF Retire
<1>13. CASE StopProcessor
  BY <1>13 DEF StopProcessor, Stop
<1>14. CASE JoinProcessor
  BY <1>14 DEF JoinProcessor, Join, Report
<1>15. CASE StopEdge
  BY <1>15 DEF StopEdge, Stop
<1>16. CASE JoinEdge
  BY <1>16 DEF JoinEdge, Join, Report
<1>17. CASE CloseSource
  BY <1>17 DEF CloseSource, Close
<1>18. CASE CloseHost
  BY <1>18 DEF CloseHost, Close
<1>19. CASE CloseRuntime
  BY <1>19 DEF CloseRuntime, Close
<1>20. CASE StopManager
  BY <1>20 DEF StopManager, Stop
<1>21. CASE JoinManager
  BY <1>21 DEF JoinManager, Join, Report
<1>22. CASE CloseListener
  BY <1>22 DEF CloseListener, Close
<1>23. CASE Shutdown
  BY <1>23 DEF Shutdown, Stop
<1>24. CASE Drain
  BY <1>24 DEF Drain
<1>25. CASE JoinServer
  BY <1>25 DEF JoinServer, Join, Report
<1>26. CASE CancelContext
  BY <1>26 DEF CancelContext
<1>27. CASE ManagerDiscovers
  BY <1>27 DEF ManagerDiscovers
<1>28. CASE AcceptRequest
  BY <1>28 DEF AcceptRequest
<1>29. CASE FinishRequest
  BY <1>29 DEF FinishRequest
<1>30. ASSUME NEW t \in Tasks, End(t) PROVE TypeOK'
  <2>1. PICK error \in Endings(t) : outcome' = [outcome EXCEPT ![t] = error]
    BY <1>30 DEF End
  <2>2. outcome' \in [Tasks -> SUBSET Leaves]
    BY <2>1, EndingsTyped
  <2> QED BY <1>30, <2>2 DEF End
<1>31. CASE UNCHANGED vars
  BY <1>31 DEF vars
<1> QED BY <1>1, <1>2, <1>3, <1>4, <1>5, <1>6, <1>7, <1>8, <1>9, <1>10, <1>11, <1>12, <1>13, <1>14, <1>15, <1>16, <1>17, <1>18, <1>19, <1>20, <1>21, <1>22, <1>23, <1>24, <1>25, <1>26, <1>27, <1>28, <1>29, <1>30, <1>31 DEF Next, Supervise, Starting, Stopping, Done

LEMMA ReadyKept ==
    ASSUME Inv, [Next]_vars
    PROVE  ReadyMeansUp'
<1> USE DEF Goto, GiveUp, environment, serving, Tasks, Things
<1> USE DEF Inv, TypeOK, StartInv, ThingsInv, ReadyMeansUp, Up, AfterManager, AfterRuntime
<1>1. CASE Configure
  BY <1>1 DEF Configure
<1>2. CASE Listen
  BY <1>2 DEF Listen
<1>3. CASE Assemble
  BY <1>3 DEF Assemble
<1>4. CASE StartMIDI
  BY <1>4 DEF StartMIDI
<1>5. CASE AwaitReady
  BY <1>5 DEF AwaitReady, AfterReady
<1>6. CASE StartPeers
  BY <1>6 DEF StartPeers
<1>7. CASE Check
  BY <1>7 DEF Check
<1>8. CASE OpenSource
  BY <1>8 DEF OpenSource
<1>9. CASE NewProcessor
  BY <1>9 DEF NewProcessor
<1>10. CASE Serve
  BY <1>10 DEF Serve
<1>11. CASE Wake
  BY <1>11 DEF Wake, Stopped, Report
<1>12. CASE Retire
  BY <1>12 DEF Retire
<1>13. CASE StopProcessor
  BY <1>13 DEF StopProcessor, Stop
<1>14. CASE JoinProcessor
  BY <1>14 DEF JoinProcessor, Join, Report
<1>15. CASE StopEdge
  BY <1>15 DEF StopEdge, Stop
<1>16. CASE JoinEdge
  BY <1>16 DEF JoinEdge, Join, Report
<1>17. CASE CloseSource
  BY <1>17 DEF CloseSource, Close
<1>18. CASE CloseHost
  BY <1>18 DEF CloseHost, Close
<1>19. CASE CloseRuntime
  BY <1>19 DEF CloseRuntime, Close
<1>20. CASE StopManager
  BY <1>20 DEF StopManager, Stop
<1>21. CASE JoinManager
  BY <1>21 DEF JoinManager, Join, Report
<1>22. CASE CloseListener
  BY <1>22 DEF CloseListener, Close
<1>23. CASE Shutdown
  BY <1>23 DEF Shutdown, Stop
<1>24. CASE Drain
  BY <1>24 DEF Drain
<1>25. CASE JoinServer
  BY <1>25 DEF JoinServer, Join, Report
<1>26. CASE CancelContext
  BY <1>26 DEF CancelContext
<1>27. CASE ManagerDiscovers
  BY <1>27 DEF ManagerDiscovers
<1>28. CASE AcceptRequest
  BY <1>28 DEF AcceptRequest
<1>29. CASE FinishRequest
  BY <1>29 DEF FinishRequest
<1>30. ASSUME NEW t \in Tasks, End(t) PROVE ReadyMeansUp'
  BY <1>30 DEF End, Owned
<1>31. CASE UNCHANGED vars
  BY <1>31 DEF vars
<1> QED BY <1>1, <1>2, <1>3, <1>4, <1>5, <1>6, <1>7, <1>8, <1>9, <1>10, <1>11, <1>12, <1>13, <1>14, <1>15, <1>16, <1>17, <1>18, <1>19, <1>20, <1>21, <1>22, <1>23, <1>24, <1>25, <1>26, <1>27, <1>28, <1>29, <1>30, <1>31 DEF Next, Supervise, Starting, Stopping, Done

\* A step that joins nobody and finds no cause keeps what is learnt.
LEMMA LearntKept ==
    ASSUME Inv, UNCHANGED <<conf, cause>>,
           \E x : result' = result \cup x /\ troubles' = troubles \cup x,
           \A t \in Tasks : /\ task'[t] = "joined" <=> task[t] = "joined"
                            /\ task[t] = "joined" => outcome'[t] = outcome[t]
                            /\ task'[t] \in {"off", "running"} => outcome'[t] = {}
    PROVE  ResultInv'
<1>1. Learnt' = Learnt
  BY DEF Learnt, Unexpected
<1> QED BY <1>1 DEF Inv, ResultInv

\* Receiving the error of a task that has ended adds what is unexpected in it.
LEMMA JoinLearns ==
    ASSUME Inv, NEW t \in Tasks, NEW here, NEW next, Join(t, here, next)
    PROVE  ResultInv'
<1>1. task \in [Tasks -> {"off", "running", "ended", "joined"}]
  BY DEF Inv, TypeOK
<1>2. UNCHANGED <<conf, outcome, cause, troubles>>
  BY DEF Join
<1>3. CASE UNCHANGED <<task, result>>
  <2>1. Learnt' = Learnt
    BY <1>2, <1>3 DEF Learnt, Unexpected
  <2> QED BY <1>2, <1>3, <2>1 DEF Inv, ResultInv
<1>4. CASE /\ task[t] = "ended" /\ task' = [task EXCEPT ![t] = "joined"]
           /\ result' = result \cup Report(t)
  <2>1. Learnt' = Learnt \cup Report(t)
    BY <1>1, <1>2, <1>4 DEF Learnt, Report, Unexpected
  <2>2. \A u \in Tasks : task'[u] \in {"off", "running"} => outcome'[u] = {}
    BY <1>1, <1>2, <1>4 DEF Inv, ResultInv
  <2> QED BY <1>2, <1>4, <2>1, <2>2 DEF Inv, ResultInv
<1> QED BY <1>3, <1>4 DEF Join

\* Giving up a start is the first thing that goes wrong.
LEMMA GiveUpLearns ==
    ASSUME Inv, GiveUp, pc \in Up \ {"supervise"}, UNCHANGED <<conf, outcome, cause>>,
           \A t \in Tasks : task'[t] = task[t]
    PROVE  ResultInv'
<1>1. result = {} /\ troubles = {}
  BY DEF Inv, StartInv
<1>2. result' = {"start"} /\ troubles' = {"start"}
  BY <1>1 DEF GiveUp
<1>3. Learnt = {} /\ Learnt' = Learnt
  BY <1>1 DEF Inv, ResultInv, Learnt, Unexpected
<1> QED BY <1>2, <1>3 DEF Inv, ResultInv

\* Every step adds to the error exactly what it learns.
LEMMA ResultKept ==
    ASSUME Inv, [Next]_vars
    PROVE  ResultInv'
<1> USE DEF Goto, environment, serving
<1>1. /\ task \in [Tasks -> {"off", "running", "ended", "joined"}]
      /\ outcome \in [Tasks -> SUBSET Leaves]
      /\ "manager" \in Tasks /\ "server" \in Tasks /\ "edge" \in Tasks /\ "processor" \in Tasks
      /\ \A t \in Tasks : task[t] \in {"off", "running"} => outcome[t] = {}
  BY DEF Inv, TypeOK, Tasks, ResultInv
<1>2. ASSUME UNCHANGED <<conf, task, outcome, cause>>,
             \E x : result' = result \cup x /\ troubles' = troubles \cup x
      PROVE  ResultInv'
  BY <1>1, <1>2, LearntKept
<1>3. ASSUME UNCHANGED <<conf, task, outcome, cause, result, troubles>>
      PROVE  ResultInv'
  <2>1. result' = result \cup {} /\ troubles' = troubles \cup {}
    BY <1>3
  <2> QED BY <1>2, <1>3, <2>1
<1>4. CASE Configure \/ Listen \/ Assemble \/ StartPeers \/ Check \/ OpenSource
  <2>1. CASE GiveUp
    BY <1>4, <2>1, GiveUpLearns
       DEF Configure, Listen, Assemble, StartPeers, Check, OpenSource, Up
  <2>2. CASE UNCHANGED <<result, troubles>>
    BY <1>3, <1>4, <2>2 DEF Configure, Listen, Assemble, StartPeers, Check, OpenSource
  <2> QED BY <1>4, <2>1, <2>2
          DEF Configure, Listen, Assemble, StartPeers, Check, OpenSource
<1>5. CASE StartMIDI
  <2>1. CASE GiveUp /\ UNCHANGED task
    BY <1>5, <2>1, GiveUpLearns DEF StartMIDI, Up
  <2>2. CASE task' = [task EXCEPT !["manager"] = "running"] /\ UNCHANGED <<result, troubles>>
    <3>1. task["manager"] = "off" /\ UNCHANGED <<conf, outcome, cause>>
      BY <1>5 DEF StartMIDI, Inv, StartInv
    <3>2. result' = result \cup {} /\ troubles' = troubles \cup {}
      BY <2>2
    <3> QED BY <1>1, <2>2, <3>1, <3>2, LearntKept
  <2> QED BY <1>5, <2>1, <2>2 DEF StartMIDI
<1>6. CASE AwaitReady
  <2>1. CASE GiveUp /\ UNCHANGED <<task, cause>>
    BY <1>6, <2>1, GiveUpLearns DEF AwaitReady, Up
  <2>2. CASE UNCHANGED <<task, cause, result, troubles>>
    BY <1>3, <1>6, <2>2 DEF AwaitReady
  <2>3. CASE /\ task["manager"] = "ended" /\ task' = [task EXCEPT !["manager"] = "joined"]
             /\ cause' = "manager" /\ result' = {"manager"} /\ UNCHANGED troubles
    <3>1. /\ UNCHANGED <<conf, outcome>> /\ result = {} /\ troubles = {}
      BY <1>6 DEF AwaitReady, Inv, StartInv, Up
    <3>2. Learnt = {}
      BY <3>1 DEF Inv, ResultInv
    <3>3. Learnt' = {"manager"}
      BY <1>1, <2>3, <3>1, <3>2 DEF Learnt, Unexpected
    <3>4. \A t \in Tasks : task'[t] \in {"off", "running"} => outcome'[t] = {}
      BY <1>1, <2>3, <3>1
    <3> QED BY <2>3, <3>1, <3>3, <3>4 DEF ResultInv
  <2> QED BY <1>6, <2>1, <2>2, <2>3 DEF AwaitReady, AfterReady
<1>7. CASE NewProcessor
  <2>1. CASE GiveUp /\ UNCHANGED task
    BY <1>7, <2>1, GiveUpLearns DEF NewProcessor, Up
  <2>2. CASE UNCHANGED <<task, result, troubles>>
    BY <1>3, <1>7, <2>2 DEF NewProcessor
  <2>3. CASE task' = [task EXCEPT !["processor"] = "running"] /\ UNCHANGED <<result, troubles>>
    <3>1. task["processor"] = "off" /\ UNCHANGED <<conf, outcome, cause>>
      BY <1>7 DEF NewProcessor, Inv, StartInv, Up
    <3>2. result' = result \cup {} /\ troubles' = troubles \cup {}
      BY <2>3
    <3> QED BY <1>1, <2>3, <3>1, <3>2, LearntKept
  <2> QED BY <1>7, <2>1, <2>2, <2>3 DEF NewProcessor
<1>8. CASE Serve
  <2>1. /\ task["processor"] = "off" /\ task["edge"] = "off" /\ task["server"] = "off"
        /\ UNCHANGED <<conf, outcome, cause, result, troubles>>
    BY <1>8 DEF Serve, Inv, StartInv, Up
  <2>2. \A t \in Tasks : /\ task'[t] = "joined" <=> task[t] = "joined"
                         /\ task'[t] \in {"off", "running"} => outcome'[t] = {}
    BY <1>1, <1>8, <2>1 DEF Serve
  <2>3. result' = result \cup {} /\ troubles' = troubles \cup {}
    BY <2>1
  <2> QED BY <2>1, <2>2, <2>3, LearntKept
<1>9. CASE Wake
  <2>1. /\ UNCHANGED <<conf, outcome, troubles>> /\ result = {} /\ troubles = {}
        /\ \A t \in Tasks : task[t] # "joined"
    BY <1>9 DEF Wake, Inv, StartInv, Up
  <2>2. CASE cause' = "ctx" /\ UNCHANGED <<task, result>>
    <3>1. Learnt' = {}
      BY <2>1, <2>2 DEF Learnt, Tasks
    <3> QED BY <2>1, <2>2, <3>1 DEF Inv, ResultInv
  <2>3. ASSUME NEW t \in Tasks, task[t] = "ended",
               task' = [task EXCEPT ![t] = "joined"], cause' = t, result' = Stopped(t)
        PROVE  ResultInv'
    <3>1. \A u \in Tasks : task'[u] \in {"off", "running"} => outcome'[u] = {}
      BY <1>1, <2>1, <2>3
    <3>2. conf.mode # "run" => t \in {"processor", "manager"} /\ conf.mode = "replay"
      BY <2>3 DEF Inv, TypeOK, Configurations, TasksInv, Tasks
    <3>3. \A u \in Tasks : task'[u] = "joined" <=> u = t
      BY <1>1, <2>1, <2>3
    <3>4. Learnt' = {u \in Tasks : u = t /\ (Unexpected(u, outcome[u]) # {}
                                          \/ conf.mode = "run" \/ u = "manager")}
      BY <2>1, <2>3, <3>3 DEF Learnt, Unexpected
    <3>5. Learnt' = Stopped(t)
      BY <2>3, <3>2, <3>4 DEF Stopped, Report
    <3> QED BY <2>1, <2>3, <3>1, <3>5 DEF ResultInv
  <2> QED BY <1>9, <2>2, <2>3 DEF Wake
<1>10. CASE \/ StopProcessor \/ StopEdge \/ StopManager \/ Shutdown \/ Retire
            \/ CancelContext \/ ManagerDiscovers \/ AcceptRequest \/ FinishRequest
  BY <1>3, <1>10 DEF StopProcessor, StopEdge, StopManager, Shutdown, Stop, Retire,
       CancelContext, ManagerDiscovers, AcceptRequest, FinishRequest
<1>11. CASE JoinProcessor \/ JoinEdge \/ JoinManager \/ JoinServer
  BY <1>1, <1>11, JoinLearns DEF JoinProcessor, JoinEdge, JoinManager, JoinServer
<1>12. ASSUME NEW x, NEW here, NEW next, Close(x, here, next)
       PROVE  ResultInv'
  <2>1. UNCHANGED <<conf, task, outcome, cause>>
    BY <1>12 DEF Close
  <2>2. \/ UNCHANGED <<result, troubles>>
        \/ result' = result \cup {x} /\ troubles' = troubles \cup {x}
    BY <1>12 DEF Close
  <2> QED BY <1>2, <1>3, <2>1, <2>2
<1>13. CASE CloseSource \/ CloseHost \/ CloseRuntime \/ CloseListener
  BY <1>12, <1>13 DEF CloseSource, CloseHost, CloseRuntime, CloseListener
<1>14. CASE Drain
  <2>1. UNCHANGED <<conf, task, outcome, cause>>
    BY <1>14 DEF Drain
  <2>2. \/ UNCHANGED <<result, troubles>>
        \/ result' = result \cup {"drain"} /\ troubles' = troubles \cup {"drain"}
    BY <1>14 DEF Drain
  <2> QED BY <1>2, <1>3, <2>1, <2>2
<1>15. ASSUME NEW t \in Tasks, End(t)
       PROVE  ResultInv'
  <2>1. PICK error \in Endings(t) : outcome' = [outcome EXCEPT ![t] = error]
    BY <1>15 DEF End
  <2>2. /\ task[t] = "running" /\ task' = [task EXCEPT ![t] = "ended"]
        /\ UNCHANGED <<conf, cause, result, troubles>>
    BY <1>15 DEF End
  <2>3. result' = result \cup {} /\ troubles' = troubles \cup {}
    BY <2>2
  <2> QED BY <1>1, <2>1, <2>2, <2>3, LearntKept
<1>16. CASE UNCHANGED vars
  BY <1>3, <1>16 DEF vars
<1> QED BY <1>4, <1>5, <1>6, <1>7, <1>8, <1>9, <1>10, <1>11, <1>13, <1>14, <1>15, <1>16
        DEF Next, Supervise, Starting, Stopping, Done

LEMMA InvInit == Init => Inv
<1> SUFFICES ASSUME Init PROVE Inv
  OBVIOUS
<1>0. \/ pc = "configure" /\ conf.mode = "run"
      \/ pc = "check" /\ conf.mode = "replay"
  BY DEF Init, Configurations
<1>1. TypeOK
  <2>1. requests \in 0..MaxRequests
    BY MaxRequestsAssumption DEF Init
  <2>2. task \in [Tasks -> {"off", "running", "ended", "joined"}]
        /\ outcome \in [Tasks -> SUBSET Leaves] /\ thing \in [Things -> {"none", "open", "closed"}]
    BY DEF Init
  <2> QED BY <1>0, <2>1, <2>2 DEF Init, TypeOK
<1>2. ReadyMeansUp /\ TasksInv /\ ThingsInv
  BY DEF Init, ReadyMeansUp, TasksInv, ThingsInv, Alive, Tasks, Things, AfterRuntime, AfterManager
<1>3. StartInv
  BY <1>0 DEF Init, StartInv, Up, Tasks, Things
<1>4. ResultInv
  BY DEF Init, ResultInv, Learnt, Tasks
<1> QED BY <1>1, <1>2, <1>3, <1>4 DEF Inv

LEMMA InvAlways == Spec => []Inv
<1>1. Inv /\ [Next]_vars => Inv'
  BY TypesKept, TasksKept, StartKept, ThingsKept, ReadyKept, ResultKept DEF Inv
<1> QED BY <1>1, InvInit, PTL DEF Spec

-----------------------------------------------------------------------------
(***************************************************************************)
(* The properties                                                          *)
(***************************************************************************)

\* Whatever order components end in, readiness is withdrawn before anything is
\* stopped, and the MIDI runtime is closed after its last writer and before the
\* manager is told to stop.
THEOREM StopsInTheRightOrder == Spec => []StopsInOrder
<1>1. Inv => StopsInOrder
  BY DEF Inv, StopsInOrder, ResetReachesDevice, TasksInv, ThingsInv, Alive, AfterHost,
         AfterRuntime, AfterManager
<1> QED BY <1>1, InvAlways, PTL

\* Run and RunReplay return with every goroutine joined and everything closed,
\* also from a start given up at any step.
THEOREM ReturnsWithNothingLeft == Spec => []NothingLeftBehind
<1>1. Inv => NothingLeftBehind
  <2> SUFFICES ASSUME Inv, pc = "returned"
               PROVE  /\ \A t \in Tasks : task[t] \in {"off", "joined"}
                      /\ \A x \in Things : thing[x] # "open"
    BY DEF NothingLeftBehind
  <2>1. \A t \in Tasks : task[t] \in {"off", "joined"}
    BY DEF Inv, TypeOK, TasksInv, Alive, AfterEdge, AfterHost, AfterRuntime, AfterManager, Tasks
  <2>2. \A x \in Things : thing[x] # "open"
    BY <2>1 DEF Inv, ThingsInv, AfterHost, AfterRuntime, AfterManager, Tasks, Things
  <2> QED BY <2>1, <2>2
<1> QED BY <1>1, InvAlways, PTL

\* The error returned names everything that went wrong and nothing else.
THEOREM ReturnsExactError == Spec => []ResultExact
<1>1. Inv => ResultExact
  <2> SUFFICES ASSUME Inv, pc = "returned"
               PROVE  result = troubles
                         \cup {t \in Tasks : Unexpected(t, outcome[t]) # {}}
                         \cup {t \in Tasks : cause = t /\ (conf.mode = "run" \/ t = "manager")}
    BY DEF ResultExact
  <2>1. \A t \in Tasks : task[t] \in {"off", "joined"}
    BY DEF Inv, TypeOK, TasksInv, Alive, AfterEdge, AfterHost, AfterRuntime, AfterManager, Tasks
  <2>2. \A t \in Tasks : task[t] # "joined" => Unexpected(t, outcome[t]) = {}
    BY <2>1 DEF Inv, ResultInv, Unexpected
  <2> QED BY <2>2 DEF Inv, ResultInv, Learnt
<1> QED BY <1>1, InvAlways, PTL

=============================================================================
