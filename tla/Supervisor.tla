----------------------------- MODULE Supervisor -----------------------------
(***************************************************************************)
(* app.RunWithOptionsAndDependencies and app.RunReplayWithDependencies:    *)
(* the goroutine that starts the components of a role in a fixed order,    *)
(* gives up cleanly when one of them cannot start, waits for the first     *)
(* reason to stop, and stops the rest in a fixed order.                    *)
(*                                                                         *)
(* A component goroutine sends its error into a channel of capacity one    *)
(* and ends; the supervisor "joins" it by receiving that error.  An error  *)
(* is the set of its leaves: errors.Join and %w only build trees over      *)
(* them, and filterExpectedErrors removes the expected ones.               *)
(*                                                                         *)
(* manager.Run and edge.Run end only after they are cancelled; supervise   *)
(* does not rely on that (its select has a case for each) and neither does *)
(* the model, in which every component may end by itself.                  *)
(***************************************************************************)
EXTENDS Naturals, FiniteSets

CONSTANTS
    MaxRequests         \* bound: HTTP requests in flight at once

ASSUME MaxRequestsAssumption == MaxRequests \in Nat

\* The goroutines Run starts, and the things it opens and must close.
Tasks == {"processor", "edge", "manager", "server"}
Things == {"listener", "source", "driver", "runtime", "host"}

\* Leaves of a component's error; "canceled" stands for DeadlineExceeded too.
Leaves == {"canceled", "closed", "fault"}

(***************************************************************************)
(* The configurations that Config.Validate accepts, as far as they decide  *)
(* which components exist.  An edge has no MIDI; a host without peer       *)
(* transport starts no peer.Host; replay is standalone with capture on.    *)
(***************************************************************************)
Configurations ==
    {c \in [mode : {"run", "replay"}, role : {"standalone", "edge", "host"},
            peer : BOOLEAN, capture : BOOLEAN, midi : BOOLEAN] :
        /\ c.role = "edge" => c.peer /\ ~c.midi
        /\ c.mode = "replay" => c.role = "standalone" /\ ~c.peer /\ c.capture}

VARIABLES
    conf,       \* the configuration
    pc,         \* where the supervising goroutine is
    ctxDone,    \* the context of Run is done
    task,       \* component goroutines: "off", "running", "ended", "joined"
    outcome,    \* the error an ended goroutine sent
    cancelled,  \* tasks whose cancel function was called (server: Shutdown)
    managerUp,  \* manager.Ready() is closed
    thing,      \* "none", "open" or "closed"
    ready,      \* runtimeReady
    retired,    \* cancelManagement was called (ctxDone ends that context too)
    requests,   \* HTTP requests being served
    result,     \* what the error to be returned is about, empty for nil
    cause,      \* history: what ended the select of supervise
    troubles    \* history: closing or starting steps that failed

vars == <<conf, pc, ctxDone, task, outcome, cancelled, managerUp, thing, ready,
          retired, requests, result, cause, troubles>>
environment == <<ctxDone, managerUp, requests>>
serving == <<ready, retired>>

Init ==
    /\ conf \in Configurations
    /\ pc = IF conf.mode = "run" THEN "configure" ELSE "check"
    /\ ctxDone = FALSE
    /\ task = [t \in Tasks |-> "off"]
    /\ outcome = [t \in Tasks |-> {}]
    /\ cancelled = {} /\ managerUp = FALSE
    /\ thing = [x \in Things |-> "none"]
    /\ ready = FALSE /\ retired = FALSE /\ requests = 0
    /\ result = {} /\ cause = "none" /\ troubles = {}

\* normalizeComponentError and normalizeHTTPError: what is left of an error.
Unexpected(t, error) ==
    error \ ({"canceled"} \cup IF t = "server" THEN {"closed"} ELSE {})

\* What a joined task adds to the result.
Report(t) == IF Unexpected(t, outcome[t]) = {} THEN {} ELSE {t}

-----------------------------------------------------------------------------
(***************************************************************************)
(* The environment and the component goroutines                            *)
(***************************************************************************)

\* A signal, or the owner of the context.
CancelContext ==
    /\ ~ctxDone /\ pc # "returned"
    /\ ctxDone' = TRUE
    /\ UNCHANGED <<conf, pc, task, outcome, cancelled, managerUp, thing, ready,
                   retired, requests, result, cause, troubles>>

\* The first device discovery of manager.Run is done.
ManagerDiscovers ==
    /\ task["manager"] = "running" /\ ~managerUp
    /\ managerUp' = TRUE
    /\ UNCHANGED <<conf, pc, ctxDone, task, outcome, cancelled, thing, ready,
                   retired, requests, result, cause, troubles>>

\* What a task closes before it ends: Processor.Run its source, Manager.Run
\* its driver, Server.Serve its listener.
Owned(t) ==
    CASE t = "processor" -> {"source"}
      [] t = "manager" -> {"driver"}
      [] t = "server" -> {"listener"}
      [] OTHER -> {}

\* The errors task t can end with: the processor's source may reach its end,
\* edge.Run returns nil, the others report cancellation or a failure.
Endings(t) ==
    CASE t = "edge" -> {{}}
      [] t = "processor" -> SUBSET {"canceled", "fault"}
      [] t = "manager" -> {{"canceled"}, {"canceled", "fault"}, {"fault"}}
      [] t = "server" -> IF t \in cancelled THEN {{"closed"}} ELSE {{"fault"}}

\* Task t ends, by itself or because it was cancelled.
End(t) ==
    /\ task[t] = "running"
    /\ task' = [task EXCEPT ![t] = "ended"]
    /\ \E error \in Endings(t) : outcome' = [outcome EXCEPT ![t] = error]
    /\ thing' = [x \in Things |-> IF x \in Owned(t) THEN "closed" ELSE thing[x]]
    /\ managerUp' = (managerUp \/ t = "manager")
    /\ UNCHANGED <<conf, pc, ctxDone, cancelled, ready, retired, requests,
                   result, cause, troubles>>

\* The HTTP server takes a request, and finishes one.
AcceptRequest ==
    /\ task["server"] = "running" /\ "server" \notin cancelled
    /\ requests < MaxRequests
    /\ requests' = requests + 1
    /\ UNCHANGED <<conf, pc, ctxDone, task, outcome, cancelled, managerUp, thing,
                   ready, retired, result, cause, troubles>>

FinishRequest ==
    /\ requests > 0
    /\ requests' = requests - 1
    /\ UNCHANGED <<conf, pc, ctxDone, task, outcome, cancelled, managerUp, thing,
                   ready, retired, result, cause, troubles>>

-----------------------------------------------------------------------------
(***************************************************************************)
(* Starting                                                                *)
(***************************************************************************)

\* The supervisor goes on to label next.
Goto(next) == pc' = next

\* Mutant: the source that no processor owns yet is not closed.
GiveUpKeepingSource ==
    /\ Goto("closeHost")
    /\ result' = {"start"} /\ troubles' = troubles \cup {"start"}

\* A starting step fails: the rest of the start is given up.
GiveUp ==
    /\ Goto("closeSource")
    /\ result' = {"start"} /\ troubles' = troubles \cup {"start"}

\* Repository, controller, expected revision, then metrics; a context that is
\* done by then is a normal end.
Configure ==
    /\ pc = "configure"
    /\ \/ GiveUp
       \/ ctxDone /\ Goto("returned") /\ UNCHANGED <<result, troubles>>
       \/ ~ctxDone /\ Goto("listen") /\ UNCHANGED <<result, troubles>>
    /\ UNCHANGED <<conf, environment, task, outcome, cancelled, thing, serving, cause>>

\* net.Listen; from here the listener is closed when Run returns, unless the
\* server owns it.
Listen ==
    /\ pc = "listen"
    /\ \/ GiveUp /\ UNCHANGED thing
       \/ /\ Goto("assemble") /\ thing' = [thing EXCEPT !["listener"] = "open"]
          /\ UNCHANGED <<result, troubles>>
    /\ UNCHANGED <<conf, environment, task, outcome, cancelled, serving, cause>>

\* Listener port, peer address, safety rules, registry, mapper and handler.
Assemble ==
    /\ pc = "assemble"
    /\ \/ GiveUp
       \/ /\ Goto(IF conf.midi THEN "midi" ELSE "peers")
          /\ UNCHANGED <<result, troubles>>
    /\ UNCHANGED <<conf, environment, task, outcome, cancelled, thing, serving, cause>>

\* newMIDIComponents: it closes the driver itself when it fails after opening
\* it.  Then manager.Run is started under a context of its own.
StartMIDI ==
    /\ pc = "midi"
    /\ \/ /\ GiveUp
          /\ \E d \in {"none", "closed"} : thing' = [thing EXCEPT !["driver"] = d]
          /\ UNCHANGED task
       \/ /\ Goto("awaitReady")
          /\ thing' = [thing EXCEPT !["driver"] = "open", !["runtime"] = "open"]
          /\ task' = [task EXCEPT !["manager"] = "running"]
          /\ UNCHANGED <<result, troubles>>
    /\ UNCHANGED <<conf, environment, outcome, cancelled, serving, cause>>

\* The first disconnected discovery ends a replay but not a service.
AfterReady ==
    IF conf.mode = "run"
    THEN Goto("peers") /\ UNCHANGED <<result, troubles>>
    ELSE \/ Goto("processor") /\ UNCHANGED <<result, troubles>>
         \/ GiveUp

\* The select on manager.Ready, managerDone and the context.
AwaitReady ==
    /\ pc = "awaitReady"
    /\ \/ managerUp /\ AfterReady /\ UNCHANGED <<task, cause>>
       \/ /\ task["manager"] = "ended"
          /\ task' = [task EXCEPT !["manager"] = "joined"]
          /\ cause' = "manager" /\ result' = {"manager"}
          /\ Goto("closeSource") /\ UNCHANGED troubles
       \/ ctxDone /\ Goto("closeSource") /\ UNCHANGED <<task, cause, result, troubles>>
    /\ UNCHANGED <<conf, environment, outcome, cancelled, thing, serving>>

\* newRuntimePeers, then the management backend and handler: with the host
\* open already when one of those fails.
StartPeers ==
    /\ pc = "peers"
    /\ LET host == IF conf.role = "host" /\ conf.peer THEN "open" ELSE "none"
       IN \/ GiveUp /\ \E h \in {"none", host} : thing' = [thing EXCEPT !["host"] = h]
          \/ /\ Goto(IF conf.capture THEN "openSource" ELSE "serve")
             /\ thing' = [thing EXCEPT !["host"] = host]
             /\ UNCHANGED <<result, troubles>>
    /\ UNCHANGED <<conf, environment, task, outcome, cancelled, serving, cause>>

\* The checks of RunReplay; nothing is open yet.
Check ==
    /\ pc = "check"
    /\ \/ GiveUp
       \/ ctxDone /\ Goto("returned") /\ UNCHANGED <<result, troubles>>
       \/ ~ctxDone /\ Goto("openSource") /\ UNCHANGED <<result, troubles>>
    /\ UNCHANGED <<conf, environment, task, outcome, cancelled, thing, serving, cause>>

\* OpenLive on the selected interface, or OpenReplayFile.
OpenSource ==
    /\ pc = "openSource"
    /\ \/ GiveUp /\ UNCHANGED thing
       \/ /\ Goto(IF conf.mode = "replay" /\ conf.midi THEN "midi" ELSE "processor")
          /\ thing' = [thing EXCEPT !["source"] = "open"]
          /\ UNCHANGED <<result, troubles>>
    /\ UNCHANGED <<conf, environment, task, outcome, cancelled, serving, cause>>

\* pipeline.New; superviseReplay starts Processor.Run at once.
NewProcessor ==
    /\ pc = "processor"
    /\ \/ GiveUp /\ UNCHANGED task
       \/ /\ conf.mode = "run" /\ Goto("serve") /\ UNCHANGED <<task, result, troubles>>
       \/ /\ conf.mode = "replay" /\ Goto("supervise")
          /\ task' = [task EXCEPT !["processor"] = "running"]
          /\ UNCHANGED <<result, troubles>>
    /\ UNCHANGED <<conf, environment, outcome, cancelled, thing, serving, cause>>

\* The server, the edge and the processor are started and the runtime is ready.
Serve ==
    /\ pc = "serve" /\ Goto("supervise")
    /\ task' = [task EXCEPT !["server"] = "running",
                            !["edge"] = IF conf.role = "edge" THEN "running" ELSE "off",
                            !["processor"] = IF conf.capture THEN "running" ELSE "off"]
    /\ ready' = TRUE
    /\ UNCHANGED <<conf, environment, outcome, cancelled, thing, retired, result,
                   cause, troubles>>

-----------------------------------------------------------------------------
(***************************************************************************)
(* Stopping                                                                *)
(***************************************************************************)

\* componentStopped: a task that ends by itself is an error, whatever it
\* returned; only the end of a replay's file is not.
Stopped(t) ==
    IF conf.mode = "replay" /\ t = "processor" THEN Report(t) ELSE {t}

\* Mutant: the select has no case for the context.
WakeOnTasksOnly ==
    /\ pc = "supervise" /\ Goto("retire")
    /\ \E t \in Tasks :
            /\ task[t] = "ended"
            /\ task' = [task EXCEPT ![t] = "joined"]
            /\ cause' = t /\ result' = Stopped(t)
    /\ UNCHANGED <<conf, environment, outcome, cancelled, thing, serving, troubles>>

\* The select of supervise and superviseReplay.
Wake ==
    /\ pc = "supervise" /\ Goto("retire")
    /\ \/ ctxDone /\ cause' = "ctx" /\ UNCHANGED <<task, result>>
       \/ \E t \in Tasks :
            /\ task[t] = "ended"
            /\ task' = [task EXCEPT ![t] = "joined"]
            /\ cause' = t /\ result' = Stopped(t)
    /\ UNCHANGED <<conf, environment, outcome, cancelled, thing, serving, troubles>>

\* runtimeReady.Store(false) and cancelManagement.
Retire ==
    /\ pc = "retire" /\ Goto("stopProcessor")
    /\ ready' = FALSE
    /\ retired' = (conf.mode = "run")
    /\ UNCHANGED <<conf, environment, task, outcome, cancelled, thing, result, cause,
                   troubles>>

\* The cancel function of task t; it does nothing to a task that has ended.
Stop(t, here, next) ==
    /\ pc = here /\ Goto(next)
    /\ cancelled' = IF task[t] \in {"off", "joined"} THEN cancelled ELSE cancelled \cup {t}
    /\ UNCHANGED <<conf, environment, task, outcome, thing, serving, result, cause,
                   troubles>>

\* Receive from the task's channel, unless that was done before.
Join(t, here, next) ==
    /\ pc = here /\ Goto(next)
    /\ \/ task[t] \in {"off", "joined"} /\ UNCHANGED <<task, result>>
       \/ /\ task[t] = "ended"
          /\ task' = [task EXCEPT ![t] = "joined"]
          /\ result' = result \cup Report(t)
    /\ UNCHANGED <<conf, environment, outcome, cancelled, thing, serving, cause,
                   troubles>>

\* Close x if it is open; the error of a failed Close is joined to the result.
Close(x, here, next) ==
    /\ pc = here /\ Goto(next)
    /\ \/ thing[x] # "open" /\ UNCHANGED <<thing, result, troubles>>
       \/ /\ thing[x] = "open"
          /\ thing' = [thing EXCEPT ![x] = "closed"]
          /\ \/ UNCHANGED <<result, troubles>>
             \/ x # "host" /\ result' = result \cup {x} /\ troubles' = troubles \cup {x}
    /\ UNCHANGED <<conf, environment, task, outcome, cancelled, serving, cause>>

\* A start that is given up after the source was opened closes the source
\* itself: its processor never ran.
CloseSource == Close("source", "closeSource", "closeHost")

StopProcessor == Stop("processor", "stopProcessor", "joinProcessor")

\* Mutant: the pipeline is cancelled and not waited for.
JoinNobody ==
    /\ pc = "joinProcessor" /\ Goto("stopEdge")
    /\ UNCHANGED <<conf, environment, task, outcome, cancelled, thing, serving,
                   result, cause, troubles>>

JoinProcessor == Join("processor", "joinProcessor", "stopEdge")

StopEdge == Stop("edge", "stopEdge", "joinEdge")

JoinEdge == Join("edge", "joinEdge", "closeHost")

\* Peer sessions write to the MIDI runtime too, so the host goes first.
CloseHost == Close("host", "closeHost", "closeRuntime")

CloseRuntime == Close("runtime", "closeRuntime", "stopManager")

StopManager == Stop("manager", "stopManager", "joinManager")

\* Mutant: the error the manager ends with while the rest stops is dropped.
JoinManagerSilently ==
    /\ pc = "joinManager"
    /\ Goto(IF task["server"] = "off" THEN "closeListener" ELSE "shutdown")
    /\ task["manager"] # "running"
    /\ task' = [task EXCEPT !["manager"] = IF @ = "off" THEN @ ELSE "joined"]
    /\ UNCHANGED <<conf, environment, outcome, cancelled, thing, serving, result,
                   cause, troubles>>

\* A start that is given up and a replay end here; a service has a server.
JoinManager ==
    Join("manager", "joinManager",
         IF task["server"] = "off" THEN "closeListener" ELSE "shutdown")

\* The deferred close of a listener no server owns, and return.
CloseListener == Close("listener", "closeListener", "returned")

\* server.Shutdown closes the listener, so that Serve returns.
Shutdown == Stop("server", "shutdown", "drain")

\* Shutdown returns when no request is left, or with an error after the write
\* timeout; then server.Close is called and requests may be cut off.
Drain ==
    /\ pc = "drain" /\ Goto("joinServer")
    /\ \/ requests = 0 /\ UNCHANGED <<result, troubles>>
       \/ /\ requests > 0
          /\ result' = result \cup {"drain"} /\ troubles' = troubles \cup {"drain"}
    /\ UNCHANGED <<conf, environment, task, outcome, cancelled, thing, serving, cause>>

JoinServer == Join("server", "joinServer", "returned")

Starting ==
    \/ Configure \/ Listen \/ Assemble \/ StartMIDI \/ AwaitReady \/ StartPeers
    \/ Check \/ OpenSource \/ NewProcessor \/ Serve
Stopping ==
    \/ Wake \/ Retire \/ StopProcessor \/ JoinProcessor \/ StopEdge \/ JoinEdge
    \/ CloseSource \/ CloseHost \/ CloseRuntime \/ StopManager \/ JoinManager
    \/ CloseListener \/ Shutdown \/ Drain \/ JoinServer
Supervise == Starting \/ Stopping

Done == pc = "returned" /\ UNCHANGED vars

Next ==
    \/ Supervise \/ Done
    \/ CancelContext \/ ManagerDiscovers
    \/ \E t \in Tasks : End(t)
    \/ AcceptRequest \/ FinishRequest

Spec == Init /\ [][Next]_vars

\* A cancelled task ends.
EndCancelled(t) == t \in cancelled /\ End(t)

(***************************************************************************)
(* The supervising goroutine keeps running, a component that was cancelled *)
(* ends, and the first device discovery comes to an end.                   *)
(***************************************************************************)
FairSpec ==
    /\ Spec
    /\ WF_vars(Supervise) /\ WF_vars(ManagerDiscovers)
    /\ \A t \in Tasks : WF_vars(EndCancelled(t))

-----------------------------------------------------------------------------
(***************************************************************************)
(* Properties                                                              *)
(***************************************************************************)

\* Types of the supervisor's state; requests never go below zero.
TypeOK ==
    /\ conf \in Configurations
    /\ pc \in {"configure", "listen", "assemble", "midi", "awaitReady", "peers",
               "check", "openSource", "processor", "serve", "supervise", "retire",
               "stopProcessor", "joinProcessor", "stopEdge", "joinEdge",
               "closeSource", "closeHost", "closeRuntime", "stopManager",
               "joinManager", "closeListener", "shutdown", "drain", "joinServer",
               "returned"}
    /\ ctxDone \in BOOLEAN /\ managerUp \in BOOLEAN /\ ready \in BOOLEAN
    /\ task \in [Tasks -> {"off", "running", "ended", "joined"}]
    /\ outcome \in [Tasks -> SUBSET Leaves]
    /\ cancelled \subseteq Tasks
    /\ thing \in [Things -> {"none", "open", "closed"}]
    /\ retired \in BOOLEAN /\ requests \in 0..MaxRequests
    /\ result \subseteq Tasks \cup Things \cup {"start", "drain"}
    /\ troubles \subseteq Things \cup {"start", "drain"}
    /\ cause \in Tasks \cup {"none", "ctx"}

\* Whichever way Run or RunReplay returns (a start given up at any step, a
\* cancelled context, a component that ended), no goroutine it started is left
\* and everything it opened is closed.
NothingLeftBehind ==
    pc = "returned" =>
        /\ \A t \in Tasks : task[t] \in {"off", "joined"}
        /\ \A x \in Things : thing[x] # "open"

\* "MIDI reset depends on the manager output remaining alive until the pipeline
\* can no longer write": once the MIDI runtime is closed nothing that writes
\* notes to it is left, and until then the manager has not been told to stop.
ResetReachesDevice ==
    /\ thing["runtime"] = "closed" =>
        task["processor"] # "running" /\ thing["host"] # "open"
    /\ thing["runtime"] = "open" => "manager" \notin cancelled

\* Everything that went wrong is in the returned error and nothing else is: an
\* error of any component, also of one that stops while the others are being
\* stopped, a failed close, a cut off request, a failed start, a component that
\* ended unasked.  A cancelled context or the end of a replayed file is none.
ResultExact ==
    pc = "returned" =>
        result = troubles
                 \cup {t \in Tasks : Unexpected(t, outcome[t]) # {}}
                 \cup {t \in Tasks : cause = t /\ (conf.mode = "run" \/ t = "manager")}

\* /readyz answers "ready" only while everything the role needs is started and
\* nothing has been told to stop; a component may have ended by itself.
ReadyMeansUp ==
    ready =>
        /\ pc \in {"supervise", "retire"} /\ cancelled = {} /\ ~retired
        /\ \A t \in Tasks : task[t] = "off" =>
              \/ t = "edge" /\ conf.role # "edge"
              \/ t = "processor" /\ ~conf.capture
              \/ t = "manager" /\ ~conf.midi
        /\ conf.midi => thing["runtime"] = "open"

\* A cancelled context or a component that ends by itself makes Run return,
\* also when it happens during start-up.
Returns ==
    (ctxDone \/ \E t \in Tasks : task[t] = "ended") ~> pc = "returned"

\* Going down keeps its order: types hold, readiness is withdrawn before anything
\* stops, and MIDI is reset between the last writer and the manager.
StopsInOrder == TypeOK /\ ReadyMeansUp /\ ResetReachesDevice

=============================================================================
