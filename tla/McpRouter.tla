----------------------------- MODULE McpRouter -----------------------------
(***************************************************************************)
(* The command path of the MCP bridge (infrastructure/agent_mcp/bridge):   *)
(* the bounded ingress, the adapter task that routes each command to the   *)
(* lane of its workspace, the lane tasks that execute commands one by one, *)
(* and the events that retire lanes: the workspace was closed, its runtime *)
(* is gone, or nothing was enqueued for ten minutes.                       *)
(*                                                                         *)
(* close_session is not registered as an MCP tool (tools.rs:301), so the   *)
(* closing flag of a lane is never set and is left out.                    *)
(***************************************************************************)
EXTENDS Naturals, Sequences, FiniteSets

CONSTANTS
    MaxRequests,     \* bound: MCP requests, numbered in the order they are made
    Workspaces,
    Control,         \* the route of commands without a workspace
    LaneIds,         \* identities of lane tasks
    ControlLane,     \* the lane of Control, which never stops
    NoLane,
    IngressCapacity, \* COMMAND_CAPACITY
    LaneCapacity,    \* SESSION_LANE_CAPACITY, CONTROL_LANE_CAPACITY
    EventCapacity,   \* of the broadcast channel of session events
    MaxIdle          \* bound: how often a lane passes the idle timeout

VARIABLES
    to,        \* the route of each request
    told,      \* what its caller has been told: waiting, rejected, result
    ran,       \* requests handed to the application
    ingress,   \* the command channel
    routing,   \* the request and lane of the enqueue in progress
    lanes,     \* the lane tasks: workspace, channel, command in progress
    table,     \* session_lanes: the lane of each workspace
    idle,      \* last_activity is SESSION_IDLE_TIMEOUT ago
    stopped,   \* lane_event_rx: Stopped events, by workspace
    closed,    \* lifecycle_events: workspaces closed, not yet received
    lagged,    \* events were overwritten before they were received
    runtime,   \* of each workspace: opening, up, gone (tab still open), closed
    givenUp,   \* history: workspaces that lost a lane while open
    idles      \* how many idle timeouts have passed

laneVars == <<lanes, table, idle, stopped, givenUp>>
eventVars == <<closed, lagged>>
appVars == <<runtime, idles>>
requestVars == <<to, told, ran>>
vars == <<requestVars, ingress, routing, laneVars, eventVars, appVars>>

Requests == 1..MaxRequests
NoRequest == 0
Routes == Workspaces \cup {Control}
Free == [phase |-> "free", ws |-> Control, queue |-> <<>>, cur |-> NoRequest]
Live(l) == lanes[l].phase # "free"
HasWork(l) == lanes[l].queue # <<>> \/ lanes[l].cur # NoRequest
Open == {w \in Workspaces : runtime[w] # "closed"}
NotRouting == [req |-> NoRequest, lane |-> NoLane]

TypeOK ==
    /\ to \in [Requests -> Routes]
    /\ told \in [Requests -> {"new", "waiting", "rejected", "result"}]
    /\ ran \subseteq Requests
    /\ ingress \in Seq(Requests) /\ Len(ingress) <= IngressCapacity
    /\ routing \in [req : Requests \cup {NoRequest}, lane : LaneIds \cup {NoLane}]
    /\ lanes \in [LaneIds ->
          [phase : {"free", "recv", "running", "checking"}, ws : Routes,
           queue : Seq(Requests), cur : Requests \cup {NoRequest}]]
    /\ \A l \in LaneIds : Len(lanes[l].queue) <= LaneCapacity
    /\ table \in [Workspaces -> LaneIds \cup {NoLane}]
    /\ idle \in [Workspaces -> BOOLEAN]
    /\ stopped \in Seq(Workspaces)
    /\ closed \in Seq(Workspaces) /\ Len(closed) <= EventCapacity
    /\ lagged \in BOOLEAN
    /\ runtime \in [Workspaces -> {"opening", "up", "gone", "closed"}]
    /\ givenUp \subseteq Workspaces
    /\ idles \in 0..MaxIdle

Init ==
    /\ to = [r \in Requests |-> Control]
    /\ told = [r \in Requests |-> "new"] /\ ran = {}
    /\ ingress = <<>> /\ routing = NotRouting
    /\ lanes = [l \in LaneIds |->
                  IF l = ControlLane THEN [Free EXCEPT !.phase = "recv"] ELSE Free]
    /\ table = [w \in Workspaces |-> NoLane]
    /\ idle = [w \in Workspaces |-> FALSE]
    /\ stopped = <<>> /\ closed = <<>> /\ lagged = FALSE
    /\ runtime = [w \in Workspaces |-> "opening"]
    /\ givenUp = {} /\ idles = 0

-----------------------------------------------------------------------------
(* Callers: McpBridgeEndpoint::request                                     *)

Unsent(r) == told[r] = "new" /\ \A q \in 1..(r - 1) : told[q] # "new"

Call(r, dest) ==
    /\ Unsent(r) /\ Len(ingress) < IngressCapacity
    /\ to' = [to EXCEPT ![r] = dest]
    /\ told' = [told EXCEPT ![r] = "waiting"]
    /\ ingress' = Append(ingress, r)
    /\ UNCHANGED <<ran, routing, laneVars, eventVars, appVars>>

\* The ingress stays full for five seconds.
CallTimesOut(r) ==
    /\ Unsent(r) /\ Len(ingress) = IngressCapacity
    /\ told' = [told EXCEPT ![r] = "rejected"]
    /\ UNCHANGED <<to, ran, ingress, routing, laneVars, eventVars, appVars>>

-----------------------------------------------------------------------------
(* The adapter task: its loop takes one command, event or tick at a time   *)

Waiting == routing = NotRouting

\* drain_lane_events: the entries that the Stopped events leave.
Stops == {stopped[i] : i \in 1..Len(stopped)}
Drained == [w \in Workspaces |-> IF w \in Stops THEN NoLane ELSE table[w]]

\* Mutant: the entry of a lane whose queue is full is replaced.
ReusableUnlessFull(l) ==
    /\ l # NoLane /\ lanes[l].phase # "free"
    /\ Len(lanes[l].queue) < LaneCapacity

\* sender.is_closed: the lane has closed its receiver or is over.
Reusable(l) == l # NoLane /\ lanes[l].phase # "free"

RouteControl ==
    /\ Waiting /\ ingress # <<>> /\ to[Head(ingress)] = Control
    /\ routing' = [req |-> Head(ingress), lane |-> ControlLane]
    /\ ingress' = Tail(ingress)
    /\ table' = Drained /\ stopped' = <<>>
    /\ UNCHANGED <<requestVars, lanes, idle, givenUp, eventVars, appVars>>

\* session_sender: the lane of the table, or a new one.
RouteKnown ==
    /\ Waiting /\ ingress # <<>>
    /\ LET r == Head(ingress) IN
       /\ to[r] \in Workspaces /\ Reusable(Drained[to[r]])
       /\ routing' = [req |-> r, lane |-> Drained[to[r]]]
    /\ ingress' = Tail(ingress)
    /\ table' = Drained /\ stopped' = <<>>
    /\ UNCHANGED <<requestVars, lanes, idle, givenUp, eventVars, appVars>>

\* The identity of a new lane does not matter.
FreshLane == CHOOSE l \in LaneIds : \A k \in LaneIds : ~Live(k) => ~Live(l)

RouteNew ==
    /\ Waiting /\ ingress # <<>>
    /\ LET r == Head(ingress) IN
       /\ to[r] \in Workspaces /\ ~Reusable(Drained[to[r]])
       /\ \E l \in {FreshLane} :
             /\ ~Live(l)
             /\ lanes' = [lanes EXCEPT ![l] =
                            [Free EXCEPT !.phase = "recv", !.ws = to[r]]]
             /\ table' = [Drained EXCEPT ![to[r]] = l]
             /\ routing' = [req |-> r, lane |-> l]
       /\ idle' = [idle EXCEPT ![to[r]] = FALSE]
    /\ ingress' = Tail(ingress) /\ stopped' = <<>>
    /\ UNCHANGED <<requestVars, givenUp, eventVars, appVars>>

\* Mutant: the channel of the lane is unbounded.
EnqueueUnbounded ==
    /\ routing.req # NoRequest /\ Live(routing.lane)
    /\ lanes' = [lanes EXCEPT ![routing.lane].queue = Append(@, routing.req)]
    /\ idle' = [w \in Workspaces |-> idle[w] /\ w # to[routing.req]]
    /\ routing' = NotRouting
    /\ UNCHANGED <<requestVars, ingress, table, stopped, givenUp, eventVars, appVars>>

\* enqueue: a slot of the lane's channel; the entry, if any, was active now.
Enqueue ==
    /\ routing.req # NoRequest
    /\ Live(routing.lane) /\ Len(lanes[routing.lane].queue) < LaneCapacity
    /\ lanes' = [lanes EXCEPT ![routing.lane].queue = Append(@, routing.req)]
    /\ idle' = [w \in Workspaces |-> idle[w] /\ w # to[routing.req]]
    /\ routing' = NotRouting
    /\ UNCHANGED <<requestVars, ingress, table, stopped, givenUp, eventVars, appVars>>

\* Mutant: the command of a full lane is dropped without an answer.
RefuseSilently ==
    /\ routing.req # NoRequest
    /\ Live(routing.lane) => Len(lanes[routing.lane].queue) = LaneCapacity
    /\ routing' = NotRouting
    /\ UNCHANGED <<requestVars, ingress, laneVars, eventVars, appVars>>

\* The lane closed meanwhile, or stayed full for five seconds.
Refuse ==
    /\ routing.req # NoRequest
    /\ Live(routing.lane) => Len(lanes[routing.lane].queue) = LaneCapacity
    /\ told' = [told EXCEPT ![routing.req] = "rejected"]
    /\ routing' = NotRouting
    /\ UNCHANGED <<to, ran, ingress, laneVars, eventVars, appVars>>

\* SessionClosed: forget the lane; it ends when its channel is drained.
ReceiveClosed ==
    /\ Waiting /\ ~lagged /\ closed # <<>>
    /\ table' = [Drained EXCEPT ![Head(closed)] = NoLane]
    /\ stopped' = <<>>
    /\ closed' = Tail(closed)
    /\ UNCHANGED <<requestVars, ingress, routing, lanes, idle, givenUp, lagged, appVars>>

\* Mutant: a lagged receiver only logs.
IgnoreLag ==
    /\ Waiting /\ lagged
    /\ lagged' = FALSE
    /\ UNCHANGED <<requestVars, ingress, routing, laneVars, closed, appVars>>

\* Lagged: keep the lanes of the workspaces that are open now.
ReceiveLagged ==
    /\ Waiting /\ lagged
    /\ table' = [w \in Workspaces |-> IF w \in Open THEN Drained[w] ELSE NoLane]
    /\ stopped' = <<>>
    /\ lagged' = FALSE
    /\ UNCHANGED <<requestVars, ingress, routing, lanes, idle, givenUp, closed, appVars>>

\* The tick of every minute: cleanup_idle.
Tick ==
    /\ Waiting
    /\ stopped # <<>> \/ \E w \in Workspaces : idle[w] /\ table[w] # NoLane
    /\ table' = [w \in Workspaces |-> IF idle[w] THEN NoLane ELSE Drained[w]]
    /\ givenUp' = givenUp \cup {w \in Open : idle[w] /\ Drained[w] # NoLane}
    /\ stopped' = <<>>
    /\ UNCHANGED <<requestVars, ingress, routing, lanes, idle, eventVars, appVars>>

\* Ten minutes without a command enqueued for the workspace.
TimePasses(w) ==
    /\ idles < MaxIdle /\ table[w] # NoLane /\ ~idle[w]
    /\ idle' = [idle EXCEPT ![w] = TRUE]
    /\ idles' = idles + 1
    /\ UNCHANGED <<requestVars, ingress, routing, lanes, table, stopped, givenUp,
                   eventVars, runtime>>

-----------------------------------------------------------------------------
(* A lane task: run_lane                                                   *)

Receive(l) ==
    /\ lanes[l].phase = "recv" /\ lanes[l].queue # <<>>
    /\ lanes' = [lanes EXCEPT ![l].phase = "running", ![l].queue = Tail(@),
                              ![l].cur = Head(lanes[l].queue)]
    /\ ran' = ran \cup {Head(lanes[l].queue)}
    /\ UNCHANGED <<to, told, ingress, routing, table, idle, stopped, givenUp,
                   eventVars, appVars>>

\* dispatch returns and the caller gets the result.
Respond(l) ==
    /\ lanes[l].phase = "running"
    /\ told' = [told EXCEPT ![lanes[l].cur] = "result"]
    /\ lanes' = [lanes EXCEPT ![l].phase = "checking"]
    /\ UNCHANGED <<to, ran, ingress, routing, table, idle, stopped, givenUp,
                   eventVars, appVars>>

Usable(w) == w \in {x \in Workspaces : runtime[x] = "up"} \cup {Control}

CheckPasses(l) ==
    /\ lanes[l].phase = "checking" /\ Usable(lanes[l].ws)
    /\ lanes' = [lanes EXCEPT ![l].phase = "recv", ![l].cur = NoRequest]
    /\ UNCHANGED <<requestVars, ingress, routing, table, idle, stopped, givenUp,
                   eventVars, appVars>>

\* Mutant: the command that found the runtime gone is rejected as well.
RejectsAlsoCurrent(l) ==
    /\ lanes[l].phase = "checking" /\ ~Usable(lanes[l].ws)
    /\ told' = [r \in Requests |->
                  IF r = lanes[l].cur \/ \E i \in 1..Len(lanes[l].queue) : lanes[l].queue[i] = r
                  THEN "rejected" ELSE told[r]]
    /\ lanes' = [lanes EXCEPT ![l] = Free]
    /\ stopped' = Append(stopped, lanes[l].ws)
    /\ givenUp' = givenUp \cup {lanes[l].ws}
    /\ UNCHANGED <<to, ran, ingress, routing, table, idle, eventVars, appVars>>

\* The runtime is gone: close the channel, reject what waits in it, and say so.
CheckFails(l) ==
    /\ lanes[l].phase = "checking" /\ ~Usable(lanes[l].ws)
    /\ told' = [r \in Requests |->
                  IF \E i \in 1..Len(lanes[l].queue) : lanes[l].queue[i] = r
                  THEN "rejected" ELSE told[r]]
    /\ lanes' = [lanes EXCEPT ![l] = Free]
    /\ stopped' = Append(stopped, lanes[l].ws)
    /\ givenUp' = givenUp \cup {lanes[l].ws}
    /\ UNCHANGED <<to, ran, ingress, routing, table, idle, eventVars, appVars>>

\* Nobody holds a sender any more and the channel is empty.
Disconnected(l) ==
    /\ lanes[l].phase = "recv" /\ lanes[l].queue = <<>> /\ l # ControlLane
    /\ routing.lane # l /\ table[lanes[l].ws] # l
    /\ lanes' = [lanes EXCEPT ![l] = Free]
    /\ stopped' = Append(stopped, lanes[l].ws)
    /\ UNCHANGED <<requestVars, ingress, routing, table, idle, givenUp,
                   eventVars, appVars>>

-----------------------------------------------------------------------------
(* The application, as the bridge sees it                                  *)

\* The workspace is published before its runtime exists.
RuntimeStarts(w) ==
    /\ runtime[w] = "opening"
    /\ runtime' = [runtime EXCEPT ![w] = "up"]
    /\ UNCHANGED <<requestVars, ingress, routing, laneVars, eventVars, idles>>

RuntimeEnds(w) ==
    /\ runtime[w] = "up"
    /\ runtime' = [runtime EXCEPT ![w] = "gone"]
    /\ UNCHANGED <<requestVars, ingress, routing, laneVars, eventVars, idles>>

\* The user closes the tab: SessionClosed is broadcast, and the oldest event
\* is overwritten when the receiver is too far behind.
CloseWorkspace(w) ==
    /\ runtime[w] # "closed"
    /\ runtime' = [runtime EXCEPT ![w] = "closed"]
    /\ LET full == Len(closed) = EventCapacity IN
       /\ closed' = Append(IF full THEN Tail(closed) ELSE closed, w)
       /\ lagged' = (lagged \/ full)
    /\ UNCHANGED <<requestVars, ingress, routing, laneVars, idles>>

-----------------------------------------------------------------------------
Route == RouteControl \/ RouteKnown \/ RouteNew
Events == ReceiveClosed \/ ReceiveLagged
Lane(l) ==
    \/ Receive(l) \/ Respond(l)
    \/ CheckPasses(l) \/ CheckFails(l) \/ Disconnected(l)

Next ==
    \/ \E r \in Requests : CallTimesOut(r) \/ \E dest \in Routes : Call(r, dest)
    \/ Route \/ Enqueue \/ Refuse \/ Events \/ Tick
    \/ \E w \in Workspaces : TimePasses(w)
    \/ \E l \in LaneIds : Lane(l)
    \/ \E w \in Workspaces : RuntimeStarts(w) \/ RuntimeEnds(w) \/ CloseWorkspace(w)

Spec == Init /\ [][Next]_vars

\* The adapter's select is fair between its sources and its interval ticks;
\* an enqueue ends within its timeout; operations of the application end.
\* Nothing is assumed of users, runtimes or the idle timeout.
FairSpec ==
    /\ Spec
    /\ SF_vars(Route) /\ SF_vars(Events) /\ SF_vars(Tick)
    /\ WF_vars(Enqueue \/ Refuse)
    /\ \A l \in LaneIds : WF_vars(Lane(l))

-----------------------------------------------------------------------------
(* Properties                                                              *)

\* A caller that is told its command was not accepted may send it again: the
\* command never reached the application.
RejectedNeverRan == \A r \in Requests : told[r] = "rejected" => r \notin ran

\* Commands of an open workspace are executed one at a time unless its lane was
\* given up (idle for ten minutes, or stopped because the runtime was missing):
\* full queues, closing neighbours and lagging events never split a lane.
OneLaneUnlessGivenUp ==
    \A k, l \in LaneIds :
        /\ HasWork(k) /\ HasWork(l)
        /\ lanes[k].ws = lanes[l].ws
        /\ lanes[k].ws \in Open \ givenUp
        => k = l

\* Every request is answered, whatever happens to its lane.
Answered == \A r \in Requests : told[r] = "waiting" ~> told[r] # "waiting"

\* The lanes of a closed workspace end without waiting for the idle timeout,
\* although commands may recreate one after the event was handled, and events
\* may be lost to lag.
LanesReleased ==
    \A w \in Workspaces :
        runtime[w] = "closed" ~>
            table[w] = NoLane /\ \A l \in LaneIds : Live(l) => lanes[l].ws # w

=============================================================================
