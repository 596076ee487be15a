---------------------------- MODULE ServersProofs ---------------------------
(***************************************************************************)
(* That the servers the program runs are what it shows, for any number of  *)
(* ports, server tasks, clients, shells, connections, names, handles,      *)
(* workspaces, requests and lanes: the invariants of MCServers of          *)
(* services, of the connections, shells and forwarded ports of their       *)
(* clients, of the requests to the proxies, of the SFTP server and of the  *)
(* router of MCP commands.                                                 *)
(*                                                                         *)
(* An invariant of a part is proved from the steps of that part and        *)
(* carried to the specification by PartSteps.                              *)
(***************************************************************************)
EXTENDS MCServers, FiniteSetTheorems, SequenceTheorems, WellFoundedInduction, TLAPS

\* A step of the specification is one of a part, or leaves it.
LEMMA PartSteps == [Next]_all => /\ [Service!Next]_serviceState
                                 /\ [Connections!Next]_connectionsState
                                 /\ [Files!Next]_filesState
                                 /\ [Shells!Next]_shellsState
                                 /\ [Forwards!Next]_forwardsState
                                 /\ [Router!Next]_routerState
BY DEF Next, all, ServiceSteps, ConnectionsSteps, FilesSteps, ShellsSteps, ForwardsSteps,
       RouterSteps

-----------------------------------------------------------------------------
(* ProxyService                                                            *)

\* Which variables hold a server depends on the operation in progress; the SSH
\* server is stored when it is launched and never waited for.
Stored ==
  /\ pc \in {"off", "load", "await", "launch", "awaitUndo", "awaitLast", "ended"} =>
       running = NoServer
  /\ pc \in {"save", "undo", "publish"} =>
       running = IF serviceKind = "ssh" THEN new ELSE NoServer
  /\ pc \notin {"await", "awaitUndo", "awaitLast"} \/ serviceKind = "ssh" => waits = NoServer
  /\ pc \notin {"save", "undo", "publish"} => new = NoServer

\* A server task is stored, waited for or about to be published, or it is an SSH
\* server that was aborted.
Owned ==
  /\ \A s \in Servers : Service!Alive(s) =>
       s \in {running, waits, new} \/ (serviceKind = "ssh" /\ serviceServer[s].stop)
  /\ pc \in {"off", "load"} => \A s \in Servers : ~Service!Alive(s)

\* What is stored or launched was not told to stop, and so is there.
Kept ==
  /\ \A s \in Servers : serviceServer[s].at = "draining" => serviceServer[s].stop
  /\ \A s \in Servers : s \in {running, new} => Service!Alive(s) /\ ~serviceServer[s].stop

\* Settings are in the file before their server is published, and a server has
\* the settings it was launched with.
SettingsSaved ==
  /\ ~persist /\ pc \in {"stop", "await", "launch", "save"} => want = file
  /\ pc = "publish" => want = file
  /\ pc \in {"save", "undo", "publish"} =>
       IF new = NoServer THEN want = NoPort ELSE serviceServer[new].port = want
  /\ pc = "idle" /\ running # NoServer => serviceServer[running].port = file

\* A server that is launched waits at the gate with nothing to report.
GateHolds ==
  serviceKind = "http" /\ new # NoServer =>
    serviceServer[new] = [Service!Free EXCEPT !.at = "gated", !.port = want, !.current = TRUE]

\* What tasks report is an error or a port; of SSH servers, only errors.
Explains(value) == value.port # NoPort \/ value.error
Reports ==
  \A s \in Servers :
    LET mine == serviceServer[s] IN
    /\ Service!Alive(s) => mine.port \in Ports
    /\ ~Service!Alive(s) => Service!Idle(s)
    /\ mine.out # Service!Nothing => Explains(mine.out)
    /\ serviceKind = "ssh" => mine.conns = 0 /\ mine.ended = 0
                              /\ mine.out \in {Service!Nothing, Service!Failed}

\* The projection has the newest status, or is told of it; only the errors of
\* initialize reach it another way, and no server runs then.
Projected ==
  /\ ~dirty => IF sub # Service!Nothing THEN sub = status
               ELSE \/ ctx = status
                    \/ /\ ctx = Service!Failed
                       /\ pc \in {"idle", "stop", "stopLast"} => running = NoServer
  /\ pc \in {"off", "load"} => status = Service!Default /\ ~dirty /\ sub = Service!Nothing

\* Between operations the status is of the stored server, or explains that none is.
StatusIsTrue ==
  pc = "idle" =>
    /\ running = NoServer => status.port = NoPort
    /\ serviceKind = "http" /\ running # NoServer =>
         LET mine == serviceServer[running] IN
         /\ mine.current /\ mine.at \in {"serving", "failed"}
         /\ Service!Reported(running) = IF Service!Idle(running) THEN status ELSE mine.out
    /\ file = NoPort \/ Explains(status)
         \/ (~dirty /\ sub = Service!Nothing /\ ctx = Service!Failed)

ServiceInv == /\ Service!TypeOK /\ Stored /\ Owned /\ Kept /\ SettingsSaved
              /\ GateHolds /\ Reports /\ Projected /\ StatusIsTrue

-----------------------------------------------------------------------------
Tasks == [at : {"free", "gated", "serving", "draining", "failed"},
          port : Ports \cup {NoPort}, conns : 0..MaxCount, ended : 0..MaxCount,
          current : BOOLEAN, stop : BOOLEAN, out : Service!Statuses \cup {Service!Nothing}]

LEMMA ServiceValues ==
  /\ Service!Free \in Tasks
  /\ Service!Free.at = "free" /\ Service!Free.out = Service!Nothing
  /\ Service!Free.conns = 0 /\ Service!Free.ended = 0
  /\ Service!Default \in Service!Statuses /\ Service!Failed \in Service!Statuses
  /\ Service!Default.port = NoPort /\ Service!Failed.port = NoPort /\ Service!Failed.error
  /\ Service!Nothing \notin Service!Statuses
  /\ \A port \in Ports \cup {NoPort}, conns \in 0..MaxCount :
       /\ Service!Up(port, conns) \in Service!Statuses
       /\ Service!Up(port, conns).port = port
  /\ 0 \in 0..MaxCount /\ 0 \in 0..MaxConn /\ 0 \in 0..MaxCrashes
<1>1. 0 \in 0..MaxCount /\ 0 \in 0..MaxConn /\ 0 \in 0..MaxCrashes
  BY ServiceAssumption
<1>2. Service!Nothing \notin Service!Statuses
  <2>1. ASSUME Service!Nothing \in Service!Statuses PROVE FALSE
    <3>1. DOMAIN Service!Nothing = {"none"} /\ DOMAIN Service!Nothing = {"port", "conns", "error"}
      BY <2>1 DEF Service!Nothing, Service!Statuses
    <3> QED
      BY <3>1
  <2> QED
    BY <2>1
<1> QED
  BY <1>1, <1>2
  DEF Service!Free, Service!Default, Service!Failed, Service!Up, Service!Statuses,
      Service!Nothing, Tasks

\* A step of a server task changes that task only.
TaskFrame(s) ==
  /\ \A u \in Servers \ {s} : serviceServer'[u] = serviceServer[u]
  /\ UNCHANGED <<serviceKind, file, pc, want, persist, running, waits, new, ctx, sub,
                 crashes>>

\* A task ends when it was told to, or when it failed and nobody holds it.
Ends(s) ==
  /\ TaskFrame(s) /\ UNCHANGED <<status, dirty>>
  /\ serviceServer'[s] = Service!Free
  /\ serviceServer[s].stop \/ serviceServer[s].at = "draining" \/ s \notin {running, waits, new}

\* It serves: it drains when it was told to stop, or fails, and has the new count
\* or its failure to report if it is current.
Works(s) ==
  LET was == serviceServer[s]  is == serviceServer'[s] IN
  /\ TaskFrame(s) /\ UNCHANGED <<status, dirty>>
  /\ was.at \in {"serving", "draining"}
  /\ is.at \in {was.at, "failed"} \/ (is.at = "draining" /\ was.stop)
  /\ is.port = was.port /\ is.current = was.current /\ is.stop = was.stop
  /\ \/ is.out = was.out /\ is.conns = was.conns /\ is.at # "failed"
     \/ /\ was.out = Service!Nothing
        /\ is.out = IF ~was.current THEN Service!Nothing
                    ELSE IF is.at = "failed" THEN Service!Failed
                         ELSE Service!Up(was.port, is.conns)
  /\ serviceKind = "ssh" /\ was.conns = 0 /\ was.ended = 0 =>
       /\ is.conns = 0 /\ is.ended = 0
       /\ is.out = was.out \/ is.at = "failed"

\* It sends what it has to report.
Sends(s) ==
  /\ TaskFrame(s)
  /\ ~Service!Idle(s) /\ status' = serviceServer[s].out /\ dirty' = TRUE
  /\ serviceServer'[s] = [serviceServer[s] EXCEPT !.out = Service!Nothing]

\* The record of a task with a new count, which it reports if it is current.
Recount(s, record, conns) ==
  LET was == serviceServer[s] IN
  /\ record \in Tasks
  /\ record.at = was.at /\ record.port = was.port /\ record.ended = was.ended
  /\ record.current = was.current /\ record.stop = was.stop
  /\ record.conns = conns
  /\ record.out = IF was.current THEN Service!Up(was.port, conns) ELSE Service!Nothing

LEMMA Counts ==
  ASSUME NEW s \in Servers, serviceServer[s] \in Tasks, NEW conns \in 0..MaxCount
  PROVE  Recount(s, Service!Counted(s, conns), conns)
<1>1. Service!Up(serviceServer[s].port, conns) \in Service!Statuses
  BY ServiceValues DEF Tasks
<1> QED
  BY <1>1 DEF Service!Counted, Service!Reporting, Recount, Tasks

LEMMA TaskSteps ==
  ASSUME Service!TypeOK, NEW s \in Servers, Service!Server(s)
  PROVE  /\ Ends(s) \/ Works(s) \/ Sends(s)
         /\ serviceServer' \in [Servers -> Tasks]
         /\ serviceServer'[s].conns - serviceServer'[s].ended \in 0..MaxConn
<1>0. /\ serviceServer \in [Servers -> Tasks] /\ serviceServer[s] \in Tasks
      /\ serviceServer[s].conns \in 0..MaxCount /\ serviceServer[s].ended \in 0..MaxCount
      /\ serviceServer[s].ended <= serviceServer[s].conns
      /\ serviceServer[s].conns - serviceServer[s].ended \in 0..MaxConn
      /\ MaxCount \in Nat /\ MaxConn \in Nat
  <2>1. serviceServer \in [Servers -> Tasks] /\ serviceServer[s] \in Tasks
    BY DEF Service!TypeOK, Tasks
  <2>2. serviceServer[s].conns \in 0..MaxCount /\ serviceServer[s].ended \in 0..MaxCount
    BY <2>1 DEF Tasks
  <2>3. serviceServer[s].conns - serviceServer[s].ended \in 0..MaxConn
    BY DEF Service!TypeOK
  <2>4. serviceServer[s].ended <= serviceServer[s].conns
    BY <2>2, <2>3, ServiceAssumption
  <2> QED
    BY <2>1, <2>2, <2>3, <2>4, ServiceAssumption
<1>1. ASSUME NEW record \in Tasks, Service!Serve(s, record)
      PROVE  /\ TaskFrame(s) /\ UNCHANGED <<status, dirty>>
             /\ serviceServer'[s] = record /\ serviceServer' \in [Servers -> Tasks]
  BY <1>0, <1>1 DEF Service!Serve, Service!opVars, Service!shownVars, TaskFrame
<1>2. CASE Service!Accept(s)
  <2> DEFINE conns == serviceServer[s].conns + 1
             record == Service!Counted(s, conns)
  <2>1. conns \in 0..MaxCount
    BY <1>0, <1>2 DEF Service!Accept
  <2>2. Recount(s, record, conns)
    BY <1>0, <2>1, Counts
  <2>3. Service!Serve(s, record) /\ serviceServer[s].at = "serving" /\ Service!Idle(s)
        /\ serviceKind # "ssh"
    BY <1>2 DEF Service!Accept
  <2>4. conns - serviceServer[s].ended \in 0..MaxConn
    BY <1>0, <1>2 DEF Service!Accept
  <2> HIDE DEF record, conns
  <2> QED
    BY <1>1, <2>2, <2>3, <2>4 DEF Works, Recount, Service!Idle
<1>3. CASE Service!ClientEnds(s)
  <2> DEFINE record == [serviceServer[s] EXCEPT !.ended = @ + 1]
  <2>1. serviceServer[s].ended + 1 \in 0..MaxCount /\ serviceServer[s].conns # 0
    BY <1>0, <1>3 DEF Service!ClientEnds
  <2>2. record \in Tasks
    BY <1>0, <2>1 DEF Tasks
  <2>3. Service!Serve(s, record) /\ serviceServer[s].at \in {"serving", "draining"}
    BY <1>3 DEF Service!ClientEnds
  <2>4. serviceServer'[s] = record
    BY <1>1, <2>2, <2>3
  <2>5. serviceServer[s].conns - (serviceServer[s].ended + 1) \in 0..MaxConn
    BY <1>0, <1>3 DEF Service!ClientEnds
  <2> QED
    BY <1>0, <1>1, <2>1, <2>2, <2>3, <2>4, <2>5 DEF Works, Tasks
<1>4. CASE Service!Joined(s)
  <2> DEFINE conns == serviceServer[s].conns - 1
             recount == Service!Counted(s, conns)
             record == [recount EXCEPT !.ended = @ - 1]
  <2>1. /\ conns \in 0..MaxCount /\ serviceServer[s].ended - 1 \in 0..MaxCount
        /\ serviceServer[s].conns # 0
        /\ conns - (serviceServer[s].ended - 1) \in 0..MaxConn
    BY <1>0, <1>4 DEF Service!Joined
  <2>2. Recount(s, recount, conns)
    BY <1>0, <2>1, Counts
  <2>3. Service!Serve(s, record) /\ serviceServer[s].at \in {"serving", "draining"}
        /\ Service!Idle(s)
    BY <1>4 DEF Service!Joined
  <2> HIDE DEF recount, conns
  <2>4. record \in Tasks
    BY <2>1, <2>2 DEF Recount, Tasks
  <2>5. record.at = recount.at /\ record.port = recount.port /\ record.conns = recount.conns
        /\ record.current = recount.current /\ record.stop = recount.stop
        /\ record.out = recount.out /\ record.ended = serviceServer[s].ended - 1
    BY <2>2 DEF Recount, Tasks
  <2> HIDE DEF record
  <2> QED
    BY <1>1, <2>1, <2>2, <2>3, <2>4, <2>5 DEF Works, Recount, Service!Idle
<1>5. CASE Service!ConnectionEvent(s)
  <2> DEFINE conns == serviceServer[s].conns
             record == Service!Counted(s, conns)
  <2>1. Recount(s, record, conns)
    BY <1>0, Counts
  <2>2. Service!Serve(s, record) /\ serviceServer[s].at = "serving" /\ Service!Idle(s)
        /\ conns # 0
    BY <1>0, <1>5 DEF Service!ConnectionEvent
  <2> HIDE DEF record
  <2> QED
    BY <1>0, <1>1, <2>1, <2>2 DEF Works, Recount, Service!Idle
<1>6. CASE Service!BreakOnStop(s)
  <2> DEFINE record == [serviceServer[s] EXCEPT !.at = "draining"]
  <2>1. record \in Tasks /\ record.at = "draining" /\ record.port = serviceServer[s].port
        /\ record.current = serviceServer[s].current /\ record.stop = serviceServer[s].stop
        /\ record.out = serviceServer[s].out /\ record.conns = serviceServer[s].conns
        /\ record.ended = serviceServer[s].ended
    BY <1>0 DEF Tasks
  <2>2. Service!Serve(s, record) /\ serviceServer[s].at = "serving" /\ serviceServer[s].stop
        /\ serviceKind # "ssh"
    BY <1>6 DEF Service!BreakOnStop
  <2> HIDE DEF record
  <2> QED
    BY <1>0, <1>1, <2>1, <2>2 DEF Works
<1>7. CASE Service!GateDropped(s) \/ Service!Drained(s) \/ Service!AbortedSsh(s)
                                  \/ Service!FailedEnds(s)
  <2>1. Service!Serve(s, Service!Free)
    BY <1>7 DEF Service!GateDropped, Service!Drained, Service!AbortedSsh, Service!FailedEnds
  <2>2. Service!Free.conns - Service!Free.ended \in 0..MaxConn
    BY <1>0 DEF Service!Free
  <2> QED
    BY <1>1, <1>7, <2>1, <2>2, ServiceValues
    DEF Service!GateDropped, Service!Drained, Service!AbortedSsh, Service!FailedEnds, Ends
<1>8. CASE Service!Fails(s)
  <2> DEFINE failed == [serviceServer[s] EXCEPT !.at = "failed", !.conns = 0, !.ended = 0]
             record == Service!Reporting(failed, Service!Failed)
  <2>1. failed \in Tasks /\ failed.at = "failed" /\ failed.port = serviceServer[s].port
        /\ failed.current = serviceServer[s].current /\ failed.stop = serviceServer[s].stop
        /\ failed.conns = 0 /\ failed.ended = 0
    BY <1>0, ServiceValues DEF Tasks
  <2>2. Service!Serve(s, record) /\ serviceServer[s].at = "serving" /\ Service!Idle(s)
    BY <1>8 DEF Service!Fails
  <2> HIDE DEF failed
  <2>3. /\ record \in Tasks /\ record.at = failed.at /\ record.port = failed.port
        /\ record.current = failed.current /\ record.stop = failed.stop
        /\ record.conns = 0 /\ record.ended = 0
        /\ record.out = IF failed.current THEN Service!Failed ELSE Service!Nothing
    BY <2>1, ServiceValues DEF Service!Reporting, Tasks
  <2>4. record.conns - record.ended \in 0..MaxConn
    BY <1>0, <2>3
  <2> HIDE DEF record
  <2> QED
    BY <1>1, <2>1, <2>2, <2>3, <2>4 DEF Works, Service!Idle
<1>9. CASE Service!SendStatus(s)
  BY <1>0, <1>9
  DEF Service!SendStatus, Service!Send, Service!opVars, Sends, TaskFrame, Tasks
<1> QED
  BY <1>2, <1>3, <1>4, <1>5, <1>6, <1>7, <1>8, <1>9 DEF Service!Server

\* Operations signal tasks, put one aside, or launch one.
LEMMA SignalTypes ==
  ASSUME serviceServer \in [Servers -> Tasks], NEW s \in Servers \cup {NoServer}
  PROVE  /\ Service!Signalled(serviceServer, s) \in [Servers -> Tasks]
         /\ Service!Signalled(Service!Outdated, s) \in [Servers -> Tasks]
         /\ \A u \in Servers :
              /\ Service!Signalled(serviceServer, s)[u] =
                   IF u = s THEN [serviceServer[u] EXCEPT !.stop = TRUE] ELSE serviceServer[u]
              /\ Service!Signalled(Service!Outdated, s)[u] =
                   IF u = s THEN [serviceServer[u] EXCEPT !.current = FALSE, !.stop = TRUE]
                   ELSE [serviceServer[u] EXCEPT !.current = FALSE]
<1>1. ASSUME NEW servers \in [Servers -> Tasks]
      PROVE  /\ Service!Signalled(servers, s) \in [Servers -> Tasks]
             /\ \A u \in Servers : Service!Signalled(servers, s)[u] =
                  IF u = s THEN [servers[u] EXCEPT !.stop = TRUE] ELSE servers[u]
  <2>1. CASE s = NoServer
    BY <2>1, ServiceAssumption DEF Service!Signalled
  <2>2. CASE s \in Servers
    <3>1. [servers[s] EXCEPT !.stop = TRUE] \in Tasks
      BY <2>2 DEF Tasks
    <3>2. Service!Signalled(servers, s) = [servers EXCEPT ![s].stop = TRUE]
      BY <2>2, ServiceAssumption DEF Service!Signalled
    <3> QED
      BY <2>2, <3>1, <3>2
  <2> QED
    BY <2>1, <2>2
<1>2. /\ Service!Outdated \in [Servers -> Tasks]
      /\ \A u \in Servers : Service!Outdated[u] = [serviceServer[u] EXCEPT !.current = FALSE]
  <2>1. \A u \in Servers : [serviceServer[u] EXCEPT !.current = FALSE] \in Tasks
    BY DEF Tasks
  <2> QED
    BY <2>1 DEF Service!Outdated
<1>3. ASSUME NEW u \in Servers
      PROVE  Service!Signalled(Service!Outdated, s)[u] =
               IF u = s THEN [serviceServer[u] EXCEPT !.current = FALSE, !.stop = TRUE]
               ELSE [serviceServer[u] EXCEPT !.current = FALSE]
  <2>1. serviceServer[u] \in Tasks
    OBVIOUS
  <2>2. Service!Outdated[u] = [serviceServer[u] EXCEPT !.current = FALSE]
    BY <1>2
  <2>3. [Service!Outdated[u] EXCEPT !.stop = TRUE] =
          [serviceServer[u] EXCEPT !.current = FALSE, !.stop = TRUE]
    BY <2>1, <2>2 DEF Tasks
  <2> QED
    BY <1>1, <1>2, <2>2, <2>3
<1> QED
  BY <1>1, <1>2, <1>3

\* The task that was waited for is over; the others stay as they are.
LEMMA StopTypes ==
  ASSUME Service!TypeOK, Service!Stopped
  PROVE  /\ serviceServer' \in [Servers -> Tasks]
         /\ \A s \in Servers : serviceServer'[s] =
              IF s = waits THEN Service!Free ELSE serviceServer[s]
<1>1. serviceServer \in [Servers -> Tasks] /\ waits \in Servers \cup {NoServer}
  BY DEF Service!TypeOK, Tasks
<1> QED
  BY <1>1, ServiceValues, ServiceAssumption DEF Service!Stopped

\* A task that is launched has the settings that are wanted.
Launched(s, at) ==
  [Service!Free EXCEPT !.at = at, !.port = want, !.current = TRUE]

LEMMA BindTypes ==
  ASSUME Service!TypeOK, NEW s \in Servers, NEW at \in {"gated", "serving"},
         Service!Bind(s, at)
  PROVE  /\ Launched(s, at) \in Tasks
         /\ Launched(s, at).at = at /\ Launched(s, at).port = want
         /\ Launched(s, at).current /\ ~Launched(s, at).stop
         /\ Launched(s, at).conns = 0 /\ Launched(s, at).ended = 0
         /\ Launched(s, at).out = Service!Nothing
         /\ serviceServer' \in [Servers -> Tasks]
         /\ \A u \in Servers : serviceServer'[u] =
              IF u = s THEN Launched(s, at) ELSE serviceServer[u]
<1>1. serviceServer \in [Servers -> Tasks] /\ want \in Ports
  BY DEF Service!TypeOK, Tasks, Service!Bind
<1>2. /\ Launched(s, at) \in Tasks
      /\ Launched(s, at).at = at /\ Launched(s, at).port = want
      /\ Launched(s, at).current /\ ~Launched(s, at).stop
      /\ Launched(s, at).conns = 0 /\ Launched(s, at).ended = 0
      /\ Launched(s, at).out = Service!Nothing
  BY <1>1, ServiceValues DEF Launched, Service!Free, Tasks
<1>3. serviceServer' = [serviceServer EXCEPT ![s] = Launched(s, at)]
  BY DEF Service!Bind, Launched
<1> QED
  BY <1>1, <1>2, <1>3

LEMMA PublishTypes ==
  ASSUME Service!TypeOK, Service!PublishHttp, new \in Servers
  PROVE  /\ serviceServer' \in [Servers -> Tasks]
         /\ \A s \in Servers : serviceServer'[s] =
              IF s = new THEN [serviceServer[s] EXCEPT !.at = "serving"] ELSE serviceServer[s]
<1>1. serviceServer \in [Servers -> Tasks]
  BY DEF Service!TypeOK, Tasks
<1>2. [serviceServer[new] EXCEPT !.at = "serving"] \in Tasks
  BY <1>1 DEF Tasks
<1>3. serviceServer' = [serviceServer EXCEPT ![new].at = "serving"]
  BY ServiceAssumption DEF Service!PublishHttp
<1> QED
  BY <1>1, <1>2, <1>3

TaskTypes ==
  /\ serviceServer \in [Servers -> Tasks]
  /\ \A s \in Servers : serviceServer[s].conns - serviceServer[s].ended \in 0..MaxConn

OperationTypes ==
  /\ serviceKind \in Kinds
  /\ file \in Ports \cup {NoPort, Torn}
  /\ pc \in {"off", "load", "idle", "stop", "await", "launch", "save", "undo",
             "awaitUndo", "publish", "stopLast", "awaitLast", "ended"}
  /\ want \in Ports \cup {NoPort} /\ persist \in BOOLEAN
  /\ running \in Servers \cup {NoServer} /\ waits \in Servers \cup {NoServer}
  /\ new \in Servers \cup {NoServer}
  /\ status \in Service!Statuses /\ ctx \in Service!Statuses
  /\ sub \in Service!Statuses \cup {Service!Nothing} /\ dirty \in BOOLEAN
  /\ crashes \in 0..MaxCrashes

LEMMA ServiceTypeParts == Service!TypeOK <=> OperationTypes /\ TaskTypes
BY DEF Service!TypeOK, OperationTypes, TaskTypes, Tasks

\* The steps of operations, of the projection and of the program.
OperationStep ==
  \/ Service!Initialize \/ Service!Load \/ Service!SubReads \/ Service!SubSets
  \/ \E port \in Ports \cup {NoPort} : Service!Update(port)
  \/ Service!Shutdown \/ Service!Stop \/ Service!Launch \/ Service!Save \/ Service!Publish
  \/ Service!Crash

LEMMA OperationStepTypes ==
  ASSUME Service!TypeOK, OperationStep
  PROVE  OperationTypes'
<1>1. OperationTypes
  BY ServiceTypeParts
<1>0. Service!Default \in Service!Statuses /\ Service!Failed \in Service!Statuses
      /\ 0 \in 0..MaxCrashes
  BY ServiceValues
<1> USE <1>0, <1>1 DEF OperationTypes, Service!Send
<1>2. CASE Service!Initialize \/ Service!Load \/ Service!SubReads \/ Service!SubSets
  BY <1>2
  DEF Service!Initialize, Service!Load, Service!LoadFails, Service!LoadDisabled,
      Service!LoadEnabled, Service!SubReads, Service!SubSets, Service!opVars, Service!shownVars
<1>3. CASE (\E port \in Ports \cup {NoPort} : Service!Update(port)) \/ Service!Shutdown
  BY <1>3 DEF Service!Update, Service!Shutdown, Service!shownVars
<1>9. CASE Service!TakeOld \/ Service!TakeOldSsh
  <2>1. /\ pc \in {"stop", "stopLast"} /\ pc' = Service!After[pc] /\ running' = NoServer
        /\ waits' = running \/ waits' = waits
        /\ UNCHANGED <<serviceKind, file, want, persist, new, status, ctx, sub, dirty, crashes>>
    BY <1>9 DEF Service!TakeOld, Service!TakeOldSsh, Service!shownVars
  <2>2. pc' \in {"await", "awaitLast"}
    BY <2>1 DEF Service!After
  <2> QED
    BY <2>1, <2>2
<1>4. CASE Service!Awaited \/ Service!AwaitedLast
  BY <1>4 DEF Service!Awaited, Service!AwaitedLast, Service!shownVars
<1>5. CASE Service!Launch
  BY <1>5
  DEF Service!Launch, Service!LaunchNothing, Service!BindFails, Service!LaunchHttp,
      Service!LaunchSocks5, Service!LaunchSsh, Service!Bind, Service!shownVars
<1>6. CASE Service!Save
  BY <1>6
  DEF Service!Save, Service!SkipSave, Service!SaveSettings, Service!SaveFails, Service!Undo,
      Service!Undone, Service!shownVars
<1>7. CASE Service!Publish
  <2>1. Service!Launched \in Service!Statuses
    BY ServiceValues, ServiceAssumption DEF Service!Launched
  <2> QED
    BY <1>7, <2>1
    DEF Service!Publish, Service!PublishHttp, Service!PublishSocks5, Service!PublishSsh
<1>8. CASE Service!Crash
  <2>1. crashes + 1 \in 0..MaxCrashes
    BY <1>8, ServiceAssumption DEF Service!Crash
  <2> QED
    BY <1>8, <2>1 DEF Service!Crash
<1> QED
  BY <1>2, <1>3, <1>4, <1>5, <1>6, <1>7, <1>8, <1>9 DEF OperationStep, Service!Stop

\* What an operation does to the tasks.
Tells(s) ==    \* they are of an old generation, and s is told to stop
  \A u \in Servers : serviceServer'[u] =
    IF u = s THEN [serviceServer[u] EXCEPT !.current = FALSE, !.stop = TRUE]
    ELSE [serviceServer[u] EXCEPT !.current = FALSE]
Undoes(s) ==
  \A u \in Servers : serviceServer'[u] =
    IF u = s THEN [serviceServer[u] EXCEPT !.stop = TRUE] ELSE serviceServer[u]
Drops(s) ==
  \A u \in Servers : serviceServer'[u] = IF u = s THEN Service!Free ELSE serviceServer[u]
Launches(s, at) ==
  /\ ~Service!Alive(s)
  /\ \A u \in Servers : serviceServer'[u] = IF u = s THEN Launched(s, at) ELSE serviceServer[u]
Opens(s) ==
  \A u \in Servers : serviceServer'[u] =
    IF u = s THEN [serviceServer[u] EXCEPT !.at = "serving"] ELSE serviceServer[u]

LEMMA OperationTasks ==
  ASSUME Service!TypeOK, OperationStep
  PROVE  /\ serviceServer' \in [Servers -> Tasks]
         /\ Service!TakeOld \/ Service!TakeOldSsh => Tells(running)
         /\ Service!Undo => Undoes(new)
         /\ Service!Awaited \/ Service!AwaitedLast \/ Service!Undone => Drops(waits)
         /\ \A s \in Servers : /\ Service!LaunchHttp(s) => Launches(s, "gated")
                               /\ Service!LaunchSocks5(s) \/ Service!LaunchSsh(s) =>
                                    Launches(s, "serving")
         /\ Service!PublishHttp => Opens(new)
         /\ Service!Crash => \A s \in Servers : serviceServer'[s] = Service!Free
         /\ \/ UNCHANGED serviceServer
            \/ Service!TakeOld \/ Service!TakeOldSsh \/ Service!Undo \/ Service!Awaited
            \/ Service!AwaitedLast \/ Service!Undone \/ Service!PublishHttp \/ Service!Crash
            \/ \E s \in Servers : Service!LaunchHttp(s) \/ Service!LaunchSocks5(s)
                                                       \/ Service!LaunchSsh(s)
<1>1. /\ serviceServer \in [Servers -> Tasks]
      /\ running \in Servers \cup {NoServer} /\ new \in Servers \cup {NoServer}
  BY ServiceTypeParts DEF OperationTypes, TaskTypes
<1>2. ASSUME Service!TakeOld \/ Service!TakeOldSsh
      PROVE  serviceServer' \in [Servers -> Tasks] /\ Tells(running)
  <2>1. serviceServer' = Service!Signalled(Service!Outdated, running)
    BY <1>2 DEF Service!TakeOld, Service!TakeOldSsh
  <2>2. /\ Service!Signalled(Service!Outdated, running) \in [Servers -> Tasks]
        /\ \A u \in Servers : Service!Signalled(Service!Outdated, running)[u] =
             IF u = running THEN [serviceServer[u] EXCEPT !.current = FALSE, !.stop = TRUE]
             ELSE [serviceServer[u] EXCEPT !.current = FALSE]
    BY <1>1, SignalTypes
  <2> QED
    BY <2>1, <2>2 DEF Tells
<1>3. ASSUME Service!Undo
      PROVE  serviceServer' \in [Servers -> Tasks] /\ Undoes(new)
  BY <1>1, <1>3, SignalTypes DEF Service!Undo, Undoes
<1>4. ASSUME Service!Awaited \/ Service!AwaitedLast \/ Service!Undone
      PROVE  serviceServer' \in [Servers -> Tasks] /\ Drops(waits)
  <2>1. Service!Stopped
    BY <1>4 DEF Service!Awaited, Service!AwaitedLast, Service!Undone
  <2> QED
    BY <2>1, StopTypes DEF Drops
<1>5. ASSUME NEW s \in Servers, Service!LaunchHttp(s)
      PROVE  serviceServer' \in [Servers -> Tasks] /\ Launches(s, "gated")
  <2>1. Service!Bind(s, "gated") /\ ~Service!Alive(s)
    BY <1>5 DEF Service!LaunchHttp, Service!Bind
  <2> QED
    BY <2>1, BindTypes DEF Launches
<1>6. ASSUME NEW s \in Servers, Service!LaunchSocks5(s) \/ Service!LaunchSsh(s)
      PROVE  serviceServer' \in [Servers -> Tasks] /\ Launches(s, "serving")
  <2>1. Service!Bind(s, "serving") /\ ~Service!Alive(s)
    BY <1>6 DEF Service!LaunchSocks5, Service!LaunchSsh, Service!Bind
  <2> QED
    BY <2>1, BindTypes DEF Launches
<1>7. ASSUME Service!PublishHttp
      PROVE  serviceServer' \in [Servers -> Tasks] /\ Opens(new)
  <2>1. CASE new \in Servers
    BY <1>7, <2>1, PublishTypes DEF Opens
  <2>2. CASE new = NoServer
    BY <1>1, <1>7, <2>2, ServiceAssumption DEF Service!PublishHttp, Opens
  <2> QED
    BY <1>1, <2>1, <2>2
<1>8. ASSUME Service!Crash
      PROVE  /\ serviceServer' \in [Servers -> Tasks]
             /\ \A s \in Servers : serviceServer'[s] = Service!Free
  BY <1>8, ServiceValues DEF Service!Crash
<1>9. \/ UNCHANGED serviceServer
      \/ Service!TakeOld \/ Service!TakeOldSsh \/ Service!Undo \/ Service!Awaited
      \/ Service!AwaitedLast \/ Service!Undone \/ Service!PublishHttp \/ Service!Crash
      \/ \E s \in Servers : Service!LaunchHttp(s) \/ Service!LaunchSocks5(s)
                                                 \/ Service!LaunchSsh(s)
  BY DEF OperationStep, Service!Initialize, Service!Load, Service!LoadFails,
      Service!LoadDisabled, Service!LoadEnabled, Service!SubReads, Service!SubSets,
      Service!Update, Service!Shutdown, Service!Stop, Service!Launch, Service!LaunchNothing,
      Service!BindFails, Service!Save, Service!SkipSave, Service!SaveSettings,
      Service!SaveFails, Service!Publish, Service!PublishSocks5, Service!PublishSsh
<1>10. serviceServer' \in [Servers -> Tasks]
  BY <1>1, <1>2, <1>3, <1>4, <1>5, <1>6, <1>7, <1>8, <1>9
<1> QED
  BY <1>2, <1>3, <1>4, <1>5, <1>6, <1>7, <1>8, <1>9, <1>10

LEMMA ServiceTypes ==
  ASSUME Service!TypeOK, Service!Next
  PROVE  Service!TypeOK'
<1>1. OperationTypes /\ TaskTypes
  BY ServiceTypeParts
<1>2. ASSUME NEW s \in Servers, Service!Server(s)
      PROVE  OperationTypes' /\ TaskTypes'
  <2>1. /\ Ends(s) \/ Works(s) \/ Sends(s)
        /\ serviceServer' \in [Servers -> Tasks]
        /\ serviceServer'[s].conns - serviceServer'[s].ended \in 0..MaxConn
    BY <1>2, TaskSteps
  <2>2. TaskFrame(s) /\ (UNCHANGED <<status, dirty>> \/ Sends(s))
    BY <2>1 DEF Ends, Works, Sends
  <2>3. TaskTypes'
    BY <1>1, <2>1, <2>2 DEF TaskTypes, TaskFrame
  <2>4. status' \in Service!Statuses /\ dirty' \in BOOLEAN
    <3>1. serviceServer[s].out \in Service!Statuses \cup {Service!Nothing}
      BY <1>1 DEF TaskTypes, Tasks
    <3> QED
      BY <1>1, <2>2, <3>1 DEF Sends, OperationTypes, Service!Idle
  <2> QED
    BY <1>1, <2>2, <2>3, <2>4 DEF OperationTypes, TaskFrame
<1>3. ASSUME OperationStep
      PROVE  OperationTypes' /\ TaskTypes'
  <2>1. OperationTypes'
    BY <1>3, OperationStepTypes
  <2>2. serviceServer' \in [Servers -> Tasks]
    BY <1>3, OperationTasks
  <2>3. ASSUME NEW s \in Servers
        PROVE  \/ /\ serviceServer'[s].conns = serviceServer[s].conns
                  /\ serviceServer'[s].ended = serviceServer[s].ended
               \/ serviceServer'[s].conns = 0 /\ serviceServer'[s].ended = 0
    <3>1. serviceServer[s] \in Tasks
      BY <1>1 DEF TaskTypes
    <3>2. \A at \in {"gated", "serving"} :
            Launched(s, at).conns = 0 /\ Launched(s, at).ended = 0
      BY DEF Launched, Service!Free
    <3>3. \/ UNCHANGED serviceServer \/ Tells(running) \/ Undoes(new) \/ Drops(waits)
          \/ \E u \in Servers : Launches(u, "gated") \/ Launches(u, "serving")
          \/ Opens(new) \/ serviceServer'[s] = Service!Free
      BY <1>3, OperationTasks
    <3>4. CASE UNCHANGED serviceServer \/ serviceServer'[s] = Service!Free \/ Drops(waits)
      BY <3>4, ServiceValues DEF Drops
    <3>5. CASE Tells(running) \/ Undoes(new) \/ Opens(new)
      BY <3>1, <3>5 DEF Tells, Undoes, Opens, Tasks
    <3>6. ASSUME NEW u \in Servers, NEW at \in {"gated", "serving"}, Launches(u, at)
          PROVE  \/ /\ serviceServer'[s].conns = serviceServer[s].conns
                    /\ serviceServer'[s].ended = serviceServer[s].ended
                 \/ serviceServer'[s].conns = 0 /\ serviceServer'[s].ended = 0
      BY <3>2, <3>6 DEF Launches
    <3> QED
      BY <3>3, <3>4, <3>5, <3>6
  <2>4. \A s \in Servers : serviceServer'[s].conns - serviceServer'[s].ended \in 0..MaxConn
    <3>1. 0 - 0 \in 0..MaxConn
      BY ServiceAssumption
    <3> QED
      BY <1>1, <2>3, <3>1 DEF TaskTypes
  <2> QED
    BY <2>1, <2>2, <2>4 DEF TaskTypes
<1>4. OperationTypes' /\ TaskTypes'
  BY <1>2, <1>3 DEF Service!Next, OperationStep
<1> QED
  BY <1>4 DEF Service!TypeOK, OperationTypes, TaskTypes, Tasks

\* A step of a task leaves who holds which server alone.
LEMMA TaskStepHolds ==
  ASSUME ServiceInv, NEW s \in Servers, Service!Server(s)
  PROVE  Stored' /\ Owned' /\ Kept' /\ SettingsSaved' /\ GateHolds'
<1>1. /\ Ends(s) \/ Works(s) \/ Sends(s)
      /\ serviceServer \in [Servers -> Tasks]
  BY TaskSteps, ServiceTypeParts DEF ServiceInv, TaskTypes
<1>2. TaskFrame(s)
  BY <1>1 DEF Ends, Works, Sends
<1>3. \/ serviceServer'[s] = Service!Free /\ s \notin {running, new}
      \/ /\ serviceServer'[s].stop = serviceServer[s].stop
         /\ serviceServer'[s].port = serviceServer[s].port
         /\ Service!Alive(s) <=> serviceServer'[s].at # "free"
         /\ serviceServer'[s].at \in {serviceServer[s].at, "failed"}
              \/ (serviceServer'[s].at = "draining" /\ serviceServer[s].stop)
  <2>1. CASE Ends(s)
    BY <2>1 DEF Ends, ServiceInv, Kept
  <2>2. CASE Works(s)
    BY <2>2 DEF Works, Service!Alive
  <2>3. CASE Sends(s)
    <3>1. serviceServer[s] \in Tasks
      BY <1>1
    <3> QED
      BY <2>3, <3>1 DEF Sends, Tasks, Service!Alive
  <2> QED
    BY <1>1, <2>1, <2>2, <2>3
<1>4. Service!Free.at = "free"
  BY ServiceValues
<1>5. Stored'
  BY <1>2 DEF TaskFrame, ServiceInv, Stored
<1>6. Owned'
  <2>1. ASSUME NEW u \in Servers, serviceServer'[u].at # "free"
        PROVE  /\ serviceServer[u].at # "free"
               /\ serviceServer'[u].stop = serviceServer[u].stop
    BY <1>2, <1>3, <1>4, <2>1 DEF TaskFrame, Service!Alive
  <2> QED
    BY <1>2, <2>1 DEF TaskFrame, ServiceInv, Owned, Service!Alive
<1>7. Kept'
  BY <1>2, <1>3, <1>4 DEF TaskFrame, ServiceInv, Kept, Service!Alive
<1>8. SettingsSaved'
  <2>1. ASSUME NEW u, u \in {running, new}, u # NoServer
        PROVE  serviceServer'[u].port = serviceServer[u].port
    <3>1. u \in Servers
      BY <2>1, ServiceTypeParts DEF ServiceInv, OperationTypes
    <3> QED
      BY <1>2, <1>3, <2>1, <3>1 DEF TaskFrame
  <2> QED
    BY <1>2, <2>1 DEF TaskFrame, ServiceInv, SettingsSaved
<1>9. GateHolds'
  <2> SUFFICES ASSUME serviceKind = "http", new # NoServer
               PROVE  serviceServer'[new] = serviceServer[new]
    BY <1>2 DEF TaskFrame, ServiceInv, GateHolds
  <2>1. /\ new \in Servers /\ serviceServer[new].at = "gated"
        /\ serviceServer[new].out = Service!Nothing
        /\ ~serviceServer[new].stop
    BY ServiceTypeParts DEF ServiceInv, OperationTypes, GateHolds, Kept, Service!Free
  <2>2. s # new
    BY <1>1, <2>1 DEF Ends, Works, Sends, Service!Idle
  <2> QED
    BY <1>2, <2>1, <2>2 DEF TaskFrame
<1> QED
  BY <1>5, <1>6, <1>7, <1>8, <1>9

\* What a task has reported last, from its record.
Report(mine) ==
  IF mine.at = "failed" THEN Service!Failed ELSE Service!Up(mine.port, mine.conns)

LEMMA TaskStepReports ==
  ASSUME ServiceInv, NEW s \in Servers, Service!Server(s)
  PROVE  Reports' /\ Projected' /\ StatusIsTrue'
<1>1. /\ Ends(s) \/ Works(s) \/ Sends(s)
      /\ serviceServer \in [Servers -> Tasks] /\ serviceServer[s] \in Tasks
  BY TaskSteps, ServiceTypeParts DEF ServiceInv, TaskTypes
<1>2. TaskFrame(s)
  BY <1>1 DEF Ends, Works, Sends
<1>3. /\ Service!Free.at = "free" /\ Service!Free.out = Service!Nothing
      /\ Service!Free.conns = 0 /\ Service!Free.ended = 0
      /\ Service!Failed # Service!Nothing /\ Explains(Service!Failed)
      /\ Service!Failed.port = NoPort
      /\ \A port \in Ports, conns \in 0..MaxCount :
           /\ Service!Up(port, conns) # Service!Nothing /\ Explains(Service!Up(port, conns))
  BY ServiceValues, ServiceAssumption DEF Explains
<1>4. Reports'
  <2> DEFINE Reporting(u) ==
               /\ serviceServer[u].at # "free" => serviceServer[u].port \in Ports
               /\ serviceServer[u].at = "free" => serviceServer[u].out = Service!Nothing
               /\ serviceServer[u].out # Service!Nothing => Explains(serviceServer[u].out)
               /\ serviceKind = "ssh" => /\ serviceServer[u].conns = 0
                                         /\ serviceServer[u].ended = 0
                                         /\ serviceServer[u].out \in {Service!Nothing,
                                              Service!Failed}
  <2>1. \A u \in Servers : Reporting(u)
    BY DEF ServiceInv, Reports, Service!Alive, Service!Idle
  <2>2. Reporting(s)'
    <3>1. CASE Ends(s)
      BY <1>3, <3>1 DEF Ends
    <3>2. CASE Works(s)
      <4>1. serviceServer'[s] \in Tasks
        BY TaskSteps DEF ServiceInv
      <4>2. serviceServer'[s].conns \in 0..MaxCount /\ serviceServer[s].port \in Ports
        BY <2>1, <3>2, <4>1 DEF Works, Tasks
      <4>3. /\ serviceServer'[s].at # "free" /\ serviceServer'[s].port \in Ports
        BY <3>2, <4>2 DEF Works
      <4>4. serviceServer'[s].out # Service!Nothing => Explains(serviceServer'[s].out)
        BY <1>3, <2>1, <3>2, <4>2 DEF Works
      <4>5. serviceKind = "ssh" => /\ serviceServer'[s].conns = 0
                                   /\ serviceServer'[s].ended = 0
                                   /\ serviceServer'[s].out \in {Service!Nothing, Service!Failed}
        BY <2>1, <3>2 DEF Works
      <4> QED
        BY <1>2, <4>3, <4>4, <4>5 DEF TaskFrame, Explains
    <3>3. CASE Sends(s)
      <4>1. /\ serviceServer'[s].out = Service!Nothing
            /\ serviceServer'[s].at = serviceServer[s].at
            /\ serviceServer'[s].port = serviceServer[s].port
            /\ serviceServer'[s].conns = serviceServer[s].conns
            /\ serviceServer'[s].ended = serviceServer[s].ended
        BY <1>1, <3>3 DEF Sends, Tasks
      <4> QED
        BY <1>2, <2>1, <4>1 DEF TaskFrame
    <3> QED
      BY <1>1, <3>1, <3>2, <3>3
  <2>3. \A u \in Servers \ {s} : Reporting(u)'
    BY <1>2, <2>1 DEF TaskFrame, Explains
  <2> HIDE DEF Reporting
  <2>4. \A u \in Servers : Reporting(u)'
    BY <2>2, <2>3
  <2> QED
    BY <2>4 DEF Reporting, Reports, Service!Alive, Service!Idle
<1>5. Projected'
  <2>1. Sends(s) => pc \notin {"off", "load"}
    BY DEF Sends, ServiceInv, Owned, Reports, Service!Alive
  <2> QED
    BY <1>1, <1>2, <2>1 DEF Ends, Works, Sends, TaskFrame, ServiceInv, Projected
<1>6. ASSUME pc = "idle", s # running, Service!Alive(s)
      PROVE  serviceKind = "ssh"
  BY <1>6, ServiceAssumption DEF ServiceInv, Stored, Owned
<1>7. /\ s = running => ~serviceServer[s].stop /\ serviceServer[s].at # "draining"
      /\ ~Service!Idle(s) => Service!Alive(s) /\ Explains(serviceServer[s].out)
      /\ serviceKind = "ssh" => serviceServer[s].out \in {Service!Nothing, Service!Failed}
  BY DEF ServiceInv, Kept, Reports, Service!Idle
<1>8. StatusIsTrue'
  <2> SUFFICES ASSUME pc = "idle"
               PROVE  /\ running = NoServer => status'.port = NoPort
                      /\ serviceKind = "http" /\ running # NoServer =>
                           /\ serviceServer'[running].current
                           /\ serviceServer'[running].at \in {"serving", "failed"}
                           /\ Report(serviceServer'[running]) = IF serviceServer'[running].out =
                                Service!Nothing
                                THEN status' ELSE serviceServer'[running].out
                      /\ \/ file = NoPort \/ Explains(status')
                         \/ (~dirty' /\ sub = Service!Nothing /\ ctx = Service!Failed)
    BY <1>2 DEF TaskFrame, StatusIsTrue, Service!Idle, Explains, Service!Reported, Report
  <2>1. /\ running = NoServer => status.port = NoPort
        /\ serviceKind = "http" /\ running # NoServer =>
             /\ serviceServer[running].current
             /\ serviceServer[running].at \in {"serving", "failed"}
             /\ Report(serviceServer[running]) = IF serviceServer[running].out = Service!Nothing
                  THEN status ELSE serviceServer[running].out
        /\ \/ file = NoPort \/ Explains(status)
           \/ (~dirty /\ sub = Service!Nothing /\ ctx = Service!Failed)
    BY DEF ServiceInv, StatusIsTrue, Service!Idle, Service!Reported, Report
  <2>2. running \in Servers \cup {NoServer}
    BY ServiceTypeParts DEF ServiceInv, OperationTypes
  <2>3. s # running /\ running # NoServer =>
          /\ serviceServer'[running] = serviceServer[running]
          /\ Report(serviceServer'[running]) = Report(serviceServer[running])
    BY <1>2, <2>2 DEF TaskFrame, Service!Reported
  <2>4. CASE Ends(s)
    <3>1. s # running
      BY <1>7, <2>4 DEF Ends
    <3> QED
      BY <2>1, <2>3, <2>4, <3>1 DEF Ends
  <2>5. CASE Works(s)
    <3>1. CASE s # running
      BY <2>1, <2>3, <2>5, <3>1 DEF Works
    <3>2. CASE s = running
      <4>1. status' = status /\ dirty' = dirty
        BY <2>5 DEF Works
      <4> SUFFICES ASSUME serviceKind = "http"
                   PROVE  /\ serviceServer'[s].current
                          /\ serviceServer'[s].at \in {"serving", "failed"}
                          /\ Report(serviceServer'[s]) = IF serviceServer'[s].out = Service!Nothing
                               THEN status ELSE serviceServer'[s].out
        BY <2>1, <3>2, <4>1, ServiceAssumption
      <4>2. serviceServer[s].current /\ serviceServer[s].at = "serving"
        BY <2>1, <2>5, <3>2, ServiceAssumption DEF Works
      <4>3. /\ serviceServer'[s].current /\ serviceServer'[s].at \in {"serving", "failed"}
            /\ serviceServer'[s].port = serviceServer[s].port
        BY <1>7, <2>5, <3>2, <4>2 DEF Works
      <4>4. CASE /\ serviceServer'[s].out = serviceServer[s].out
                 /\ serviceServer'[s].conns = serviceServer[s].conns
                 /\ serviceServer'[s].at # "failed"
        <5>1. Report(serviceServer'[s]) = Report(serviceServer[s])
          BY <4>2, <4>3, <4>4 DEF Report
        <5> QED
          BY <2>1, <3>2, <4>3, <4>4, <5>1, ServiceAssumption
      <4>5. CASE serviceServer'[s].out = IF serviceServer'[s].at = "failed" THEN Service!Failed
                                         ELSE Service!Up(serviceServer[s].port,
                                           serviceServer'[s].conns)
        <5>1. serviceServer'[s].out = Report(serviceServer'[s])
          BY <4>3, <4>5 DEF Report
        <5>2. serviceServer'[s] \in Tasks
          BY TaskSteps DEF ServiceInv
        <5>3. /\ serviceServer'[s].conns \in 0..MaxCount
              /\ serviceServer[s].port \in Ports \cup {NoPort}
          BY <1>1, <5>2 DEF Tasks
        <5>4. serviceServer'[s].out # Service!Nothing
          BY <4>5, <5>3, ServiceValues
        <5> QED
          BY <4>3, <5>1, <5>4
      <4> QED
        BY <2>5, <4>2, <4>4, <4>5 DEF Works
    <3> QED
      BY <3>1, <3>2
  <2>6. CASE Sends(s)
    <3>1. /\ Service!Alive(s) /\ status' = serviceServer[s].out /\ Explains(status')
          /\ serviceServer[s].out # Service!Nothing
      BY <1>7, <2>6 DEF Sends, Service!Idle
    <3>2. CASE s # running
      <4>1. serviceKind = "ssh" /\ status' = Service!Failed
        BY <1>6, <1>7, <3>1, <3>2
      <4> QED
        BY <1>3, <3>1, <4>1
    <3>3. CASE s = running
      <4>1. serviceServer'[s].out = Service!Nothing /\ serviceServer'[s].at = serviceServer[s].at
            /\ serviceServer'[s].port = serviceServer[s].port
            /\ serviceServer'[s].conns = serviceServer[s].conns
            /\ serviceServer'[s].current = serviceServer[s].current
        BY <1>1, <2>6 DEF Sends, Tasks
      <4>2. Report(serviceServer'[s]) = Report(serviceServer[s])
        BY <4>1 DEF Report
      <4> QED
        BY <2>1, <3>1, <3>3, <4>1, <4>2, ServiceAssumption
    <3> QED
      BY <3>2, <3>3
  <2> QED
    BY <1>1, <2>4, <2>5, <2>6
<1> QED
  BY <1>4, <1>5, <1>8

ServiceRest == /\ Stored /\ Owned /\ Kept /\ SettingsSaved
               /\ GateHolds /\ Reports /\ Projected /\ StatusIsTrue

LEMMA Explanations ==
  /\ Explains(Service!Failed) /\ Service!Failed.port = NoPort
  /\ Service!Default.port = NoPort
  /\ Service!Free.at = "free" /\ Service!Free.out = Service!Nothing
  /\ Service!Free.conns = 0 /\ Service!Free.ended = 0
  /\ \A port \in Ports, conns \in 0..MaxCount : Explains(Service!Up(port, conns))
BY ServiceValues, ServiceAssumption DEF Explains

\* Nothing that is sent is lost: the projection is told of it.
LEMMA OperationProjected ==
  ASSUME ServiceInv, OperationStep
  PROVE  Projected'
<1>1. CASE Service!Initialize \/ Service!Load
  BY <1>1
  DEF Service!Initialize, Service!Load, Service!LoadFails, Service!LoadDisabled,
      Service!LoadEnabled, Service!shownVars, ServiceInv, Stored, Projected
<1>2. CASE Service!SubReads \/ Service!SubSets
  <2>1. status # Service!Nothing
    BY ServiceTypeParts, ServiceValues DEF ServiceInv, OperationTypes
  <2> QED
    BY <1>2, <2>1
  DEF Service!SubReads, Service!SubSets, Service!opVars, Service!shownVars, ServiceInv, Projected
<1>3. CASE \/ \E port \in Ports \cup {NoPort} : Service!Update(port)
           \/ Service!Shutdown \/ Service!TakeOld \/ Service!TakeOldSsh
  <2>1. pc' \in {"stop", "stopLast"} => pc = "idle" /\ running' = running
    BY <1>3 DEF Service!Update, Service!Shutdown, Service!TakeOld, Service!TakeOldSsh,
                Service!After
  <2>2. pc' \notin {"idle", "off", "load"} /\ UNCHANGED <<status, ctx, sub, dirty>>
    BY <1>3 DEF Service!Update, Service!Shutdown, Service!TakeOld, Service!TakeOldSsh,
                Service!After, Service!shownVars
  <2> QED
    BY <2>1, <2>2 DEF ServiceInv, Projected
<1>4. CASE Service!Awaited \/ Service!LaunchNothing \/ Service!SkipSave
           \/ Service!SaveSettings \/ Service!SaveFails \/ Service!Undo
           \/ \E s \in Servers : Service!LaunchHttp(s) \/ Service!LaunchSocks5(s)
                                                      \/ Service!LaunchSsh(s)
  <2>1. pc' \notin {"off", "load", "idle", "stop", "stopLast"} /\ UNCHANGED <<status, ctx, sub,
          dirty>>
    BY <1>4
    DEF Service!Awaited, Service!LaunchNothing, Service!SkipSave, Service!SaveSettings,
        Service!SaveFails, Service!Undo, Service!LaunchHttp, Service!LaunchSocks5,
        Service!LaunchSsh, Service!Bind, Service!shownVars
  <2> QED
    BY <2>1 DEF ServiceInv, Projected
<1>5. CASE Service!AwaitedLast \/ Service!BindFails \/ Service!Undone \/ Service!Publish
  BY <1>5
  DEF Service!AwaitedLast, Service!BindFails, Service!Undone, Service!Publish,
      Service!PublishHttp, Service!PublishSocks5, Service!PublishSsh, Service!Send, Projected
<1>6. CASE Service!Crash
  BY <1>6 DEF Service!Crash, Projected
<1> QED
  BY <1>1, <1>2, <1>3, <1>4, <1>5, <1>6
  DEF OperationStep, Service!Stop, Service!Launch, Service!Save

\* Steps that leave the tasks alone.
QuietStep ==
  \/ Service!Initialize \/ Service!Load \/ Service!SubReads \/ Service!SubSets
  \/ \E port \in Ports \cup {NoPort} : Service!Update(port)
  \/ Service!Shutdown \/ Service!LaunchNothing \/ Service!BindFails
  \/ Service!SkipSave \/ Service!SaveSettings \/ Service!SaveFails
  \/ Service!PublishSocks5 \/ Service!PublishSsh

LEMMA QuietHolds ==
  ASSUME ServiceInv, QuietStep
  PROVE  Stored' /\ Owned' /\ Kept' /\ SettingsSaved' /\ GateHolds' /\ Reports'
<1> USE DEF ServiceInv, Stored, Owned, Kept, SettingsSaved, GateHolds, Reports, Service!Alive,
            Service!Idle
<1>0. UNCHANGED <<serviceServer, serviceKind>>
  BY DEF QuietStep, Service!Initialize, Service!Load, Service!LoadFails, Service!LoadDisabled,
      Service!LoadEnabled, Service!SubReads, Service!SubSets, Service!Update,
      Service!Shutdown, Service!LaunchNothing, Service!BindFails, Service!SkipSave,
      Service!SaveSettings, Service!SaveFails, Service!PublishSocks5, Service!PublishSsh
<1>1. /\ running \in Servers \cup {NoServer} /\ new \in Servers \cup {NoServer}
      /\ waits \in Servers \cup {NoServer} /\ NoServer \notin Servers
      /\ persist \in BOOLEAN /\ NoPort \notin Ports /\ Torn \notin Ports
  BY ServiceTypeParts, ServiceAssumption DEF OperationTypes
<1>r. Reports'
  BY <1>0 DEF Explains
<1>2. CASE Service!Initialize \/ Service!LoadFails \/ Service!LoadDisabled
           \/ Service!LoadEnabled
  BY <1>0, <1>1, <1>r, <1>2
  DEF Service!Initialize, Service!LoadFails, Service!LoadDisabled, Service!LoadEnabled
<1>3. CASE Service!SubReads \/ Service!SubSets
  BY <1>0, <1>1, <1>r, <1>3 DEF Service!SubReads, Service!SubSets, Service!opVars
<1>4. CASE (\E port \in Ports \cup {NoPort} : Service!Update(port)) \/ Service!Shutdown
  BY <1>0, <1>1, <1>r, <1>4 DEF Service!Update, Service!Shutdown
<1>5. CASE Service!LaunchNothing \/ Service!BindFails
  BY <1>0, <1>1, <1>r, <1>5 DEF Service!LaunchNothing, Service!BindFails
<1>6. CASE Service!SkipSave \/ Service!SaveSettings \/ Service!SaveFails
  BY <1>0, <1>1, <1>r, <1>6 DEF Service!SkipSave, Service!SaveSettings, Service!SaveFails
<1>7. CASE Service!PublishSocks5 \/ Service!PublishSsh
  BY <1>0, <1>1, <1>r, <1>7 DEF Service!PublishSocks5, Service!PublishSsh
<1> QED
  BY <1>2, <1>3, <1>4, <1>5, <1>6, <1>7 DEF QuietStep, Service!Load

LEMMA QuietStatus ==
  ASSUME ServiceInv, QuietStep
  PROVE  StatusIsTrue'
<1>0. UNCHANGED <<serviceServer, serviceKind>>
  BY DEF QuietStep, Service!Initialize, Service!Load, Service!LoadFails, Service!LoadDisabled,
      Service!LoadEnabled, Service!SubReads, Service!SubSets, Service!Update,
      Service!Shutdown, Service!LaunchNothing, Service!BindFails, Service!SkipSave,
      Service!SaveSettings, Service!SaveFails, Service!PublishSocks5, Service!PublishSsh
<1>1. /\ running \in Servers \cup {NoServer} /\ new \in Servers \cup {NoServer}
      /\ NoServer \notin Servers /\ persist \in BOOLEAN /\ file \in Ports \cup {NoPort, Torn}
  BY ServiceTypeParts, ServiceAssumption DEF ServiceInv, OperationTypes
<1>2. ASSUME pc' = "idle", running' = NoServer, status'.port = NoPort,
             \/ file' = NoPort \/ Explains(status')
             \/ ~dirty' /\ sub' = Service!Nothing /\ ctx' = Service!Failed
      PROVE  StatusIsTrue'
  BY <1>2 DEF StatusIsTrue, Explains
<1>3. CASE Service!LoadFails \/ Service!LoadDisabled
  <2>1. pc' = "idle" /\ running' = NoServer /\ status' = Service!Default
    BY <1>3 DEF Service!LoadFails, Service!LoadDisabled, ServiceInv, Stored, Projected
  <2>2. \/ file' = NoPort
        \/ ~dirty' /\ sub' = Service!Nothing /\ ctx' = Service!Failed
    BY <1>3 DEF Service!LoadFails, Service!LoadDisabled, ServiceInv, Projected, Service!shownVars
  <2> QED
    BY <1>2, <2>1, <2>2, Explanations
<1>4. CASE Service!BindFails
  <2>1. pc' = "idle" /\ running' = NoServer /\ status' = Service!Failed
    BY <1>4 DEF Service!BindFails, Service!Send, ServiceInv, Stored
  <2> QED
    BY <1>2, <2>1, Explanations
<1>5. CASE Service!SubReads \/ Service!SubSets
  <2>1. /\ UNCHANGED <<file, pc, running, status>>
        /\ ~(~dirty /\ sub = Service!Nothing /\ ctx = Service!Failed)
    BY <1>5 DEF Service!SubReads, Service!SubSets, Service!opVars
  <2> QED
    BY <1>0, <2>1
    DEF ServiceInv, StatusIsTrue, Explains, Service!Reported, Service!Idle
<1>6. CASE Service!PublishSocks5 \/ Service!PublishSsh
  <2>1. /\ pc' = "idle" /\ file' = file /\ want = file /\ status' = Service!Launched
        /\ serviceKind # "http"
        /\ running' = new
        /\ IF new = NoServer THEN want = NoPort ELSE serviceServer[new].port = want
    BY <1>6 DEF Service!PublishSocks5, Service!PublishSsh, Service!Send, ServiceInv, Stored,
                SettingsSaved
  <2>2. CASE new = NoServer
    <3>1. status' = Service!Default /\ file' = NoPort /\ running' = NoServer
      BY <2>1, <2>2 DEF Service!Launched
    <3> QED
      BY <1>2, <2>1, <3>1, Explanations
  <2>3. CASE new # NoServer
    <3>1. want \in Ports
      BY <1>1, <2>1, <2>3 DEF ServiceInv, Kept, Reports
    <3>2. Explains(status')
      BY <2>1, <2>3, <3>1, ServiceValues, ServiceAssumption
      DEF Service!Launched, Explains
    <3> QED
      BY <1>0, <2>1, <2>3, <3>2 DEF StatusIsTrue, Explains
  <2> QED
    BY <2>2, <2>3
<1>7. CASE \/ Service!Initialize \/ Service!LoadEnabled
           \/ \E port \in Ports \cup {NoPort} : Service!Update(port)
           \/ Service!Shutdown \/ Service!LaunchNothing
           \/ Service!SkipSave \/ Service!SaveSettings \/ Service!SaveFails
  <2>1. pc' # "idle"
    BY <1>7
    DEF Service!Initialize, Service!LoadEnabled, Service!Update, Service!Shutdown,
        Service!LaunchNothing, Service!SkipSave, Service!SaveSettings, Service!SaveFails
  <2> QED
    BY <2>1 DEF StatusIsTrue
<1> QED
  BY <1>3, <1>4, <1>5, <1>6, <1>7 DEF QuietStep, Service!Load

LEMMA SignalHolds ==
  ASSUME ServiceInv, Service!TakeOld \/ Service!TakeOldSsh
  PROVE  ServiceRest'
<1>1. /\ Tells(running) /\ serviceServer \in [Servers -> Tasks] /\ OperationStep
      /\ NoServer \notin Servers
  BY OperationTasks, ServiceTypeParts, ServiceAssumption
  DEF OperationStep, Service!Stop, ServiceInv, TaskTypes
<1>2. ASSUME NEW s \in Servers
      PROVE  /\ serviceServer'[s].at = serviceServer[s].at
             /\ serviceServer'[s].port = serviceServer[s].port
             /\ serviceServer'[s].conns = serviceServer[s].conns
             /\ serviceServer'[s].ended = serviceServer[s].ended
             /\ serviceServer'[s].out = serviceServer[s].out
             /\ serviceServer'[s].stop = (serviceServer[s].stop \/ s = running)
  <2>1. serviceServer[s] \in Tasks
    BY <1>1
  <2> QED
    BY <1>1, <2>1 DEF Tells, Tasks
<1>3. /\ pc \in {"stop", "stopLast"} /\ pc' \in {"await", "awaitLast"}
      /\ UNCHANGED <<serviceKind, file, want, persist, new>>
      /\ running' = NoServer
      /\ IF serviceKind = "ssh" THEN waits' = waits ELSE waits' = running
      /\ pc' = "await" => pc = "stop"
  BY DEF Service!TakeOld, Service!TakeOldSsh, Service!After
<1>4. waits = NoServer /\ new = NoServer
  BY <1>3 DEF ServiceInv, Stored
<1>5. Stored'
  BY <1>3, <1>4 DEF Stored
<1>6. Owned'
  BY <1>1, <1>2, <1>3, <1>4 DEF ServiceInv, Owned, Service!Alive
<1>7. Kept'
  BY <1>1, <1>2, <1>3, <1>4 DEF ServiceInv, Kept, Service!Alive
<1>8. SettingsSaved' /\ GateHolds'
  BY <1>3, <1>4 DEF ServiceInv, SettingsSaved, GateHolds
<1>9. Reports'
  BY <1>2, <1>3 DEF ServiceInv, Reports, Service!Alive, Service!Idle, Explains
<1>10. StatusIsTrue'
  BY <1>3 DEF StatusIsTrue
<1> QED
  BY <1>1, <1>5, <1>6, <1>7, <1>8, <1>9, <1>10, OperationProjected DEF ServiceRest

LEMMA UndoHolds ==
  ASSUME ServiceInv, Service!Undo
  PROVE  ServiceRest'
<1>1. /\ Undoes(new) /\ serviceServer \in [Servers -> Tasks] /\ OperationStep
      /\ NoServer \notin Servers
  BY OperationTasks, ServiceTypeParts, ServiceAssumption
  DEF OperationStep, Service!Save, ServiceInv, TaskTypes
<1>2. ASSUME NEW s \in Servers
      PROVE  /\ serviceServer'[s].at = serviceServer[s].at
             /\ serviceServer'[s].port = serviceServer[s].port
             /\ serviceServer'[s].conns = serviceServer[s].conns
             /\ serviceServer'[s].ended = serviceServer[s].ended
             /\ serviceServer'[s].out = serviceServer[s].out
             /\ serviceServer'[s].stop = (serviceServer[s].stop \/ s = new)
  <2>1. serviceServer[s] \in Tasks
    BY <1>1
  <2> QED
    BY <1>1, <2>1 DEF Undoes, Tasks
<1>3. /\ pc = "undo" /\ pc' = "awaitUndo"
      /\ UNCHANGED <<serviceKind, file, want, persist>>
      /\ running' = NoServer /\ new' = NoServer
      /\ waits' = IF serviceKind = "ssh" THEN NoServer ELSE new
  BY DEF Service!Undo
<1>4. waits = NoServer /\ running = IF serviceKind = "ssh" THEN new ELSE NoServer
  BY <1>3 DEF ServiceInv, Stored
<1>5. Stored'
  BY <1>3, <1>4 DEF Stored
<1>6. Owned'
  BY <1>1, <1>2, <1>3, <1>4 DEF ServiceInv, Owned, Service!Alive
<1>7. Kept'
  BY <1>1, <1>2, <1>3, <1>4 DEF ServiceInv, Kept, Service!Alive
<1>8. SettingsSaved' /\ GateHolds'
  BY <1>3, <1>4 DEF ServiceInv, SettingsSaved, GateHolds
<1>9. Reports'
  BY <1>2, <1>3 DEF ServiceInv, Reports, Service!Alive, Service!Idle, Explains
<1>10. StatusIsTrue'
  BY <1>3 DEF StatusIsTrue
<1> QED
  BY <1>1, <1>5, <1>6, <1>7, <1>8, <1>9, <1>10, OperationProjected DEF ServiceRest

LEMMA DropHolds ==
  ASSUME ServiceInv, Service!Awaited \/ Service!AwaitedLast \/ Service!Undone
  PROVE  ServiceRest'
<1>1. /\ Drops(waits) /\ OperationStep /\ NoServer \notin Servers
  BY OperationTasks, ServiceAssumption
  DEF OperationStep, Service!Save, Service!Stop, ServiceInv
<1>2. /\ pc \in {"await", "awaitLast", "awaitUndo"}
      /\ pc' \in {"launch", "ended", "idle"}
      /\ UNCHANGED <<serviceKind, file, want, persist, running, new>>
      /\ waits' = NoServer
      /\ pc' = "launch" => pc = "await"
      /\ pc' = "idle" => status' = Service!Failed
  BY DEF Service!Awaited, Service!AwaitedLast, Service!Undone, Service!Send
<1>3. running = NoServer /\ new = NoServer
  BY <1>2 DEF ServiceInv, Stored
<1>4. Stored'
  BY <1>2, <1>3 DEF Stored
<1>5. Owned'
  BY <1>1, <1>2, <1>3, Explanations DEF ServiceInv, Owned, Service!Alive, Drops
<1>6. Kept'
  BY <1>1, <1>2, <1>3, Explanations DEF ServiceInv, Kept, Service!Alive, Drops
<1>7. SettingsSaved' /\ GateHolds'
  BY <1>2, <1>3 DEF ServiceInv, SettingsSaved, GateHolds
<1>8. Reports'
  BY <1>1, <1>2, Explanations
  DEF ServiceInv, Reports, Service!Alive, Service!Idle, Explains, Drops
<1>9. StatusIsTrue'
  BY <1>2, <1>3, Explanations DEF StatusIsTrue, Explains
<1> QED
  BY <1>1, <1>4, <1>5, <1>6, <1>7, <1>8, <1>9, OperationProjected DEF ServiceRest

LEMMA LaunchHolds ==
  ASSUME ServiceInv, NEW s \in Servers,
         Service!LaunchHttp(s) \/ Service!LaunchSocks5(s) \/ Service!LaunchSsh(s)
  PROVE  ServiceRest'
<1> DEFINE at == IF serviceKind = "http" THEN "gated" ELSE "serving"
<1>1. /\ Launches(s, at) /\ OperationStep /\ NoServer \notin Servers
      /\ Service!Bind(s, at) /\ running' = IF serviceKind = "ssh" THEN s ELSE running
  BY OperationTasks, ServiceAssumption
  DEF OperationStep, Service!Launch, ServiceInv, Service!LaunchHttp, Service!LaunchSocks5,
      Service!LaunchSsh
<1>2. /\ pc = "launch" /\ pc' = "save" /\ want \in Ports
      /\ UNCHANGED <<serviceKind, file, want, persist, waits>>
      /\ new' = s
  BY <1>1 DEF Service!Bind
<1>3. /\ Launched(s, at).at = at /\ Launched(s, at).port = want
      /\ ~Launched(s, at).stop /\ Launched(s, at).out = Service!Nothing
      /\ Launched(s, at).conns = 0 /\ Launched(s, at).ended = 0
      /\ at \in {"gated", "serving"}
  BY <1>1, BindTypes DEF ServiceInv
<1>4. running = NoServer /\ new = NoServer /\ waits = NoServer
  BY <1>2 DEF ServiceInv, Stored
<1>5. Stored'
  BY <1>1, <1>2, <1>4 DEF Stored
<1>6. Owned'
  BY <1>1, <1>2, <1>3, <1>4 DEF ServiceInv, Owned, Service!Alive, Launches
<1>7. Kept'
  BY <1>1, <1>2, <1>3, <1>4 DEF ServiceInv, Kept, Service!Alive, Launches
<1>8. SettingsSaved'
  BY <1>1, <1>2, <1>3, <1>4 DEF ServiceInv, SettingsSaved, Launches
<1>9. GateHolds'
  BY <1>1, <1>2 DEF GateHolds, Launches, Launched
<1>10. Reports'
  BY <1>1, <1>2, <1>3
  DEF ServiceInv, Reports, Service!Alive, Service!Idle, Explains, Launches
<1>11. StatusIsTrue'
  BY <1>2 DEF StatusIsTrue
<1> QED
  BY <1>1, <1>5, <1>6, <1>7, <1>8, <1>9, <1>10, <1>11, OperationProjected DEF ServiceRest

LEMMA PublishHttpHolds ==
  ASSUME ServiceInv, Service!PublishHttp
  PROVE  ServiceRest'
<1>1. /\ Opens(new) /\ OperationStep /\ NoServer \notin Servers
      /\ serviceServer \in [Servers -> Tasks]
      /\ new \in Servers \cup {NoServer} /\ file \in Ports \cup {NoPort, Torn}
  BY OperationTasks, ServiceTypeParts, ServiceAssumption
  DEF OperationStep, Service!Publish, ServiceInv, TaskTypes, OperationTypes
<1>2. /\ pc = "publish" /\ pc' = "idle" /\ serviceKind = "http"
      /\ UNCHANGED <<serviceKind, file, want, persist, waits>>
      /\ running' = new /\ new' = NoServer
      /\ status' = Service!Launched
  BY DEF Service!PublishHttp, Service!Send
<1>3. running = NoServer /\ waits = NoServer /\ want = file
  BY <1>2 DEF ServiceInv, Stored, SettingsSaved
<1>4. new # NoServer =>
        /\ new \in Servers /\ serviceServer[new].at = "gated" /\ serviceServer[new].port = want
        /\ serviceServer[new].current /\ serviceServer[new].conns = 0
        /\ serviceServer[new].out = Service!Nothing /\ ~serviceServer[new].stop
  BY <1>1, <1>2 DEF ServiceInv, GateHolds, Service!Free
<1>5. ASSUME NEW s \in Servers
      PROVE  /\ serviceServer'[s].at = IF s = new THEN "serving" ELSE serviceServer[s].at
             /\ serviceServer'[s].port = serviceServer[s].port
             /\ serviceServer'[s].conns = serviceServer[s].conns
             /\ serviceServer'[s].ended = serviceServer[s].ended
             /\ serviceServer'[s].out = serviceServer[s].out
             /\ serviceServer'[s].stop = serviceServer[s].stop
             /\ serviceServer'[s].current = serviceServer[s].current
  <2>1. serviceServer[s] \in Tasks
    BY <1>1
  <2> QED
    BY <1>1, <2>1 DEF Opens, Tasks
<1>6. Stored'
  BY <1>2, <1>3 DEF Stored
<1>7. Owned'
  BY <1>2, <1>3, <1>4, <1>5 DEF ServiceInv, Owned, Service!Alive
<1>8. Kept'
  BY <1>1, <1>2, <1>3, <1>4, <1>5 DEF ServiceInv, Kept, Service!Alive
<1>9. SettingsSaved' /\ GateHolds'
  BY <1>2, <1>3, <1>4, <1>5 DEF SettingsSaved, GateHolds
<1>10. Reports'
  <2>1. ASSUME NEW s \in Servers
        PROVE  serviceServer'[s].at = "free" <=> serviceServer[s].at = "free"
    BY <1>1, <1>4, <1>5
  <2> QED
    BY <1>2, <1>5, <2>1 DEF ServiceInv, Reports, Service!Alive, Service!Idle, Explains
<1>11. StatusIsTrue'
  <2>1. CASE new = NoServer
    <3>1. status' = Service!Default /\ file = NoPort
      BY <1>2, <1>3, <2>1 DEF Service!Launched, ServiceInv, SettingsSaved
    <3> QED
      BY <1>2, <2>1, <3>1, Explanations DEF StatusIsTrue
  <2>2. CASE new # NoServer
    <3>1. /\ status' = Service!Up(want, 0) /\ want \in Ports
      BY <1>2, <1>4, <2>2 DEF Service!Launched, ServiceInv, Reports, Service!Alive
    <3>2. Explains(status')
      BY <3>1, Explanations, ServiceValues
    <3>3. Report(serviceServer'[new]) = status'
      BY <1>4, <1>5, <2>2, <3>1 DEF Report
    <3> QED
      BY <1>2, <1>4, <1>5, <2>2, <3>2, <3>3
      DEF StatusIsTrue, Explains, Service!Idle, Service!Reported, Report
  <2> QED
    BY <2>1, <2>2
<1> QED
  BY <1>1, <1>6, <1>7, <1>8, <1>9, <1>10, <1>11, OperationProjected DEF ServiceRest

LEMMA CrashHolds ==
  ASSUME ServiceInv, Service!Crash
  PROVE  ServiceRest'
<1>1. /\ \A s \in Servers : serviceServer'[s] = Service!Free
      /\ OperationStep /\ NoServer \notin Servers
  BY OperationTasks, ServiceAssumption DEF OperationStep, ServiceInv
<1>2. /\ pc' = "off" /\ running' = NoServer /\ waits' = NoServer /\ new' = NoServer
      /\ UNCHANGED serviceKind
  BY DEF Service!Crash
<1>3. Stored' /\ SettingsSaved' /\ GateHolds' /\ StatusIsTrue'
  BY <1>2 DEF Stored, SettingsSaved, GateHolds, StatusIsTrue
<1>4. Owned' /\ Kept'
  BY <1>1, <1>2, Explanations DEF Owned, Kept, Service!Alive
<1>5. Reports'
  BY <1>1, Explanations DEF Reports, Service!Alive, Service!Idle, Explains
<1> QED
  BY <1>1, <1>3, <1>4, <1>5, OperationProjected DEF ServiceRest

LEMMA ServiceKept ==
  ASSUME ServiceInv, Service!Next
  PROVE  ServiceInv'
<1>1. Service!TypeOK'
  BY ServiceTypes DEF ServiceInv
<1>2. ASSUME NEW s \in Servers, Service!Server(s)
      PROVE  ServiceRest'
  BY <1>2, TaskStepHolds, TaskStepReports DEF ServiceRest
<1>3. ASSUME QuietStep
      PROVE  ServiceRest'
  <2>1. OperationStep
    BY <1>3 DEF QuietStep, OperationStep, Service!Launch, Service!Save, Service!Publish
  <2> QED
    BY <1>3, <2>1, QuietHolds, QuietStatus, OperationProjected DEF ServiceRest
<1>4. ASSUME NEW s \in Servers,
             Service!LaunchHttp(s) \/ Service!LaunchSocks5(s) \/ Service!LaunchSsh(s)
      PROVE  ServiceRest'
  BY <1>4, LaunchHolds
<1>5. ServiceRest'
  BY <1>2, <1>3, <1>4, SignalHolds, UndoHolds, DropHolds, PublishHttpHolds, CrashHolds
  DEF Service!Next, QuietStep, Service!Stop, Service!Launch, Service!Save, Service!Publish
<1> QED
  BY <1>1, <1>5 DEF ServiceInv, ServiceRest

LEMMA ServiceStarts == Service!Init => ServiceInv
<1> SUFFICES ASSUME Service!Init
             PROVE  ServiceInv
  OBVIOUS
<1>1. \A s \in Servers : serviceServer[s] = Service!Free
  BY DEF Service!Init
<1>2. OperationTypes
  BY ServiceValues DEF Service!Init, OperationTypes
<1>3. TaskTypes
  <2>1. Service!Free.conns - Service!Free.ended \in 0..MaxConn
    BY ServiceAssumption DEF Service!Free
  <2> QED
    BY <1>1, <2>1, ServiceValues DEF Service!Init, TaskTypes
<1>4. Stored /\ SettingsSaved /\ GateHolds /\ StatusIsTrue /\ Projected
  BY DEF Service!Init, Stored, SettingsSaved, GateHolds, StatusIsTrue, Projected
<1>5. Owned /\ Kept /\ Reports
  BY <1>1, Explanations, ServiceAssumption
  DEF Service!Init, Owned, Kept, Reports, Service!Alive, Service!Idle, Explains
<1> QED
  BY <1>2, <1>3, <1>4, <1>5, ServiceTypeParts DEF ServiceInv

\* What the run checks follows from the invariant.
LEMMA ServiceGoal ==
  ASSUME ServiceInv
  PROVE  /\ Service!TypeOK /\ Service!NoServerLeftBehind
         /\ Service!ShownIsTrue /\ Service!RunsWhatIsSaved /\ Service!EnabledIsExplained
<1>1. running \in Servers \cup {NoServer} /\ NoServer \notin Servers
  BY ServiceTypeParts, ServiceAssumption DEF ServiceInv, OperationTypes
<1>2. Service!NoServerLeftBehind
  BY <1>1 DEF ServiceInv, Stored, Owned, Service!NoServerLeftBehind
<1>3. Service!RunsWhatIsSaved
  BY DEF ServiceInv, SettingsSaved, Service!RunsWhatIsSaved
<1>4. Service!ShownIsTrue
  BY <1>1, Explanations
  DEF ServiceInv, Service!ShownIsTrue, Service!Settled, Projected, StatusIsTrue
<1>5. Service!EnabledIsExplained
  BY Explanations
  DEF ServiceInv, Service!EnabledIsExplained, Service!Settled, Projected, StatusIsTrue, Explains
<1> QED
  BY <1>2, <1>3, <1>4, <1>5 DEF ServiceInv

\* No server outlives its service except an aborted SSH server, the status is true
\* of the server, the server runs what is saved, and an enabled service without a
\* server says why: whatever is sent, fails or crashes, and in any order
\* (http_proxy/core.rs, socks5_proxy/core.rs, ssh_server/core.rs).
THEOREM ServersRunAsShown == Spec => []ServersAreShown
<1>1. Init => ServiceInv
  BY ServiceStarts DEF Init
<1>2. ServiceInv /\ [Next]_all => ServiceInv'
  <2>1. ASSUME ServiceInv, UNCHANGED serviceState
        PROVE  ServiceInv'
    BY <2>1
    DEF serviceState, ServiceInv, Service!TypeOK, Stored, Owned, Kept, SettingsSaved, GateHolds,
        Reports, Projected, StatusIsTrue, Service!Alive, Service!Idle, Service!Reported, Explains
  <2> QED
    BY <2>1, PartSteps, ServiceKept
<1>3. ServiceInv => ServersAreShown
  BY ServiceGoal DEF ServersAreShown
<1> QED
  BY <1>1, <1>2, <1>3, PTL DEF Spec

-----------------------------------------------------------------------------
(* SftpServer                                                              *)

Connected(c) == filesConn[c].at \in {"idle", "existing", "create", "gone"}

\* What a connection has where it is, and what an entry of the directory has.
Formed ==
  /\ \A c \in Conns :
       /\ Connected(c) => filesConn[c].number # 0
       /\ filesConn[c].at \in {"existing", "create"} => filesConn[c].name \in Names
  /\ \A n \in Names :
       /\ disk[n].node # 0 <=> disk[n].kind \in {"file", "dir"}
       /\ disk[n].kind = "link" => disk[n].to \in Names

\* A session is found by its connection only, and has handles only as long as
\* the connection has not closed it.
SessionsApart ==
  ~shared =>
    /\ \A c \in Conns : Connected(c) => sessions[filesConn[c].number] = c
    /\ \A n \in 1..MaxSessions : sessions[n] # NoConn =>
         Connected(sessions[n]) /\ filesConn[sessions[n]].number = n
    /\ \A c \in Conns : ~Connected(c) => handles[c] = {}

\* An open number is of one handle, or is to be closed by one connection.
NumbersApart ==
  ~shared =>
    /\ \A c \in Conns : \A h \in handles[c] :
         /\ raws[h.raw] = [kind |-> h.kind, node |-> h.node]
         /\ \A d \in Conns : h.raw \notin filesConn[d].closing
         /\ \A d \in Conns : \A g \in handles[d] : g.raw = h.raw => c = d /\ g = h
    /\ \A c \in Conns : \A r \in filesConn[c].closing :
         /\ raws[r] # Files!NotOpen /\ filesConn[c].at = "closing"
         /\ \A d \in Conns : r \in filesConn[d].closing => c = d
    /\ \A r \in 1..MaxRaw : raws[r] # Files!NotOpen =>
         \E c \in Conns : r \in filesConn[c].closing \/ \E h \in handles[c] : h.raw = r

\* The name of a handle leads to its node, or the node has lost a name.
NamesFollow ==
  \A c \in Conns : \A h \in handles[c] : Files!Named(h) = h.node \/ h.node \in moved

FilesInv == Files!TypeOK /\ Formed /\ SessionsApart /\ NumbersApart /\ NamesFollow

ConnectionRecords ==
  [at : {"none", "idle", "existing", "create", "gone", "closing", "ended"},
   number : 0..MaxSessions, name : Names \cup {NoName}, closing : SUBSET (1..MaxRaw)]
OpenFiles == [kind : {"none", "file", "dir"}, node : 0..MaxNodes]

LEMMA FilesValues ==
  /\ Files!NotOpen \in OpenFiles /\ Files!NotOpen.kind = "none"
  /\ Files!Nothing.kind = "none" /\ Files!Nothing.node = 0 /\ Files!Nothing \in Files!Entries
  /\ Files!NoConnection \in ConnectionRecords
  /\ Files!NoConnection.at = "none" /\ Files!NoConnection.closing = {}
  /\ \A node \in 1..MaxNodes :
       /\ Files!File(node) \in Files!Entries /\ Files!Directory(node) \in Files!Entries
       /\ Files!File(node).kind = "file" /\ Files!Directory(node).kind = "dir"
       /\ Files!File(node).node = node /\ Files!Directory(node).node = node
BY FilesAssumption
DEF Files!NotOpen, Files!Nothing, Files!NoConnection, Files!File, Files!Directory, Files!Entries,
    OpenFiles, ConnectionRecords

\* A step of a connection that keeps its session: it resolves, acts, or is over.
Moves(c) ==
  /\ \A d \in Conns \ {c} : filesConn'[d] = filesConn[d]
  /\ filesConn'[c].number = filesConn[c].number /\ filesConn'[c].closing = filesConn[c].closing
  /\ Connected(c) /\ Connected(c)'
  /\ filesConn'[c].at \in {"existing", "create"} => filesConn'[c].name \in Names
  /\ filesConn' \in [Conns -> ConnectionRecords]

LEMMA AnswerMoves ==
  ASSUME Files!TypeOK, NEW c \in Conns, Connected(c), Files!Answered(c)
  PROVE  Moves(c)
<1>1. filesConn \in [Conns -> ConnectionRecords] /\ filesConn[c] \in ConnectionRecords
  BY DEF Files!TypeOK, ConnectionRecords
<1> DEFINE record == [filesConn[c] EXCEPT !.at = "idle", !.name = NoName]
<1>2. /\ record \in ConnectionRecords /\ record.at = "idle" /\ record.number = filesConn[c].number
      /\ record.closing = filesConn[c].closing
  BY <1>1 DEF ConnectionRecords
<1>3. filesConn' = [filesConn EXCEPT ![c] = record]
  BY <1>1 DEF Files!Answered
<1> HIDE DEF record
<1> QED
  BY <1>1, <1>2, <1>3 DEF Moves, Connected

LEMMA ResolveMoves ==
  ASSUME Files!TypeOK, Formed, NEW c \in Conns,
         \/ Files!Disconnect(c)
         \/ \E name \in Names : Files!Resolve(c, name)
  PROVE  Moves(c) /\ UNCHANGED <<sessions, nextSession, handles, raws, nextRaw, disk, nodes,
                                 shared, moved>>
<1>1. filesConn \in [Conns -> ConnectionRecords] /\ filesConn[c] \in ConnectionRecords
  BY DEF Files!TypeOK, ConnectionRecords
<1>2. CASE Files!Disconnect(c)
  <2> DEFINE record == [filesConn[c] EXCEPT !.at = "gone"]
  <2>1. /\ record \in ConnectionRecords /\ record.at = "gone" /\ record.number = filesConn[c].number
        /\ record.closing = filesConn[c].closing
    BY <1>1 DEF ConnectionRecords
  <2>2. filesConn' = [filesConn EXCEPT ![c] = record]
    BY <1>1, <1>2 DEF Files!Disconnect
  <2>3. Connected(c)
    BY <1>2 DEF Files!Disconnect, Connected
  <2> HIDE DEF record
  <2> QED
    BY <1>1, <1>2, <2>1, <2>2, <2>3 DEF Moves, Connected, Files!Disconnect
<1>3. ASSUME NEW name \in Names, Files!Resolve(c, name)
      PROVE  Moves(c)
  <2>1. Files!Target(name) \in Names
    BY DEF Files!Target, Formed
  <2>2. PICK at \in {"existing", "create"}, new1 \in Names :
          filesConn' = [filesConn EXCEPT ![c].at = at, ![c].name = new1]
    BY <1>3, <2>1 DEF Files!Resolve
  <2> DEFINE record == [filesConn[c] EXCEPT !.at = at, !.name = new1]
  <2>3. /\ record \in ConnectionRecords /\ record.at = at /\ record.number = filesConn[c].number
        /\ record.closing = filesConn[c].closing /\ record.name = new1
    BY <1>1 DEF ConnectionRecords
  <2>4. filesConn' = [filesConn EXCEPT ![c] = record]
    BY <1>1, <2>2
  <2>5. Connected(c)
    BY <1>3 DEF Files!Resolve, Connected
  <2> HIDE DEF record
  <2> QED
    BY <1>1, <2>3, <2>4, <2>5 DEF Moves, Connected
<1> QED
  BY <1>2, <1>3 DEF Files!Disconnect, Files!Resolve

\* What a request that opens something adds to its session.
Opening(c, raw, kind, node) ==
  [name |-> filesConn[c].name, raw |-> raw, kind |-> kind, node |-> node]
OpensHandle(c, raw, kind, node) ==
  LET owner == sessions[filesConn[c].number] IN
  /\ raw \in 1..MaxRaw /\ owner \in Conns
  /\ Opening(c, raw, kind, node) \in Files!Handles
  /\ raws' \in [1..MaxRaw -> OpenFiles]
  /\ raws'[raw] = [kind |-> kind, node |-> node]
  /\ \A r \in 1..MaxRaw : r # raw => raws'[r] = raws[r]
  /\ handles' \in [Conns -> SUBSET Files!Handles]
  /\ handles'[owner] = handles[owner] \cup {Opening(c, raw, kind, node)}
  /\ \A d \in Conns : d # owner => handles'[d] = handles[d]
  /\ nextRaw' \in Nat
  /\ shared' = (shared \/ raws[raw] # Files!NotOpen)
  /\ Moves(c) /\ UNCHANGED <<sessions, nextSession>>

LEMMA OpenedOpens ==
  ASSUME Files!TypeOK, Formed, NEW c \in Conns, NEW kind \in {"file", "dir"},
         NEW node \in 1..MaxNodes, filesConn[c].at \in {"existing", "create"},
         Files!Opened(c, kind, node)
  PROVE  \E raw : OpensHandle(c, raw, kind, node)
<1> DEFINE raw == Files!Number(nextRaw)
           owner == sessions[filesConn[c].number]
           handle == Opening(c, raw, kind, node)
           open == [kind |-> kind, node |-> node]
<1>1. /\ raw \in 1..MaxRaw /\ nextRaw' \in Nat
  BY FilesAssumption DEF Files!TypeOK, Files!Opened, Files!Number
<1>2. /\ owner \in Conns
  <2>1. filesConn[c].number \in 1..MaxSessions
    BY FilesAssumption DEF Files!TypeOK, Formed, Connected
  <2> QED
    BY <2>1 DEF Files!TypeOK, Files!Opened
<1>3. Connected(c) /\ filesConn[c].name \in Names
  BY DEF Connected, Formed
<1>4. Moves(c)
  BY <1>3, AnswerMoves DEF Files!Opened
<1>5. handle \in Files!Handles
  BY <1>1, <1>3 DEF Opening, Files!Handles
<1>6. open \in OpenFiles
  BY FilesAssumption DEF OpenFiles
<1>7. /\ raws \in [1..MaxRaw -> OpenFiles] /\ handles \in [Conns -> SUBSET Files!Handles]
  BY DEF Files!TypeOK, OpenFiles
<1>8. /\ raws' = [raws EXCEPT ![raw] = open]
      /\ handles' = [handles EXCEPT ![owner] = handles[owner] \cup {handle}]
      /\ shared' = (shared \/ raws[raw] # Files!NotOpen)
      /\ UNCHANGED <<sessions, nextSession>>
  BY <1>2, <1>7 DEF Files!Opened, Opening
<1>9. handles[owner] \cup {handle} \in SUBSET Files!Handles
  BY <1>2, <1>5, <1>7
<1> HIDE DEF raw, handle, open
<1>10. /\ raws' \in [1..MaxRaw -> OpenFiles] /\ raws'[raw] = open
       /\ \A r \in 1..MaxRaw : r # raw => raws'[r] = raws[r]
  BY <1>1, <1>6, <1>7, <1>8
<1>11. /\ handles' \in [Conns -> SUBSET Files!Handles]
       /\ handles'[owner] = handles[owner] \cup {handle}
       /\ \A d \in Conns : d # owner => handles'[d] = handles[d]
  BY <1>2, <1>7, <1>8, <1>9
<1> QED
  BY <1>1, <1>2, <1>4, <1>5, <1>8, <1>10, <1>11 DEF OpensHandle, handle, open

\* Entries of the directory that a step replaces.
LEMMA EntryTypes ==
  ASSUME Files!TypeOK, NEW tree, NEW name \in Names, NEW given \in Files!Entries,
         tree = [disk EXCEPT ![name] = given]
  PROVE  /\ tree \in [Names -> Files!Entries]
         /\ tree[name] = given /\ \A n \in Names : n # name => tree[n] = disk[n]
BY DEF Files!TypeOK

\* What each step that opens something opens, and what becomes of the directory.
OpensAny(c) ==
  \E raw, kind, node :
    /\ OpensHandle(c, raw, kind, node) /\ kind \in {"file", "dir"} /\ node \in 1..MaxNodes
    /\ filesConn[c].name \in Names
    /\ UNCHANGED moved /\ disk' \in [Names -> Files!Entries]
    /\ LET name == Files!Target(filesConn[c].name) IN
       /\ name \in Names /\ disk'[name].node = node /\ disk'[name].kind = kind
       /\ \A n \in Names : n # name => disk'[n] = disk[n]
       /\ \/ UNCHANGED <<disk, nodes>>
          \/ disk[name].kind = "none" /\ nodes' \in 0..MaxNodes

LEMMA OpenSteps ==
  ASSUME Files!TypeOK, Formed, NEW c \in Conns,
         Files!Open(c) \/ Files!OpenNew(c) \/ Files!OpenDirectory(c)
  PROVE  OpensAny(c)
<1>1. /\ disk \in [Names -> Files!Entries] /\ filesConn[c].at \in {"existing", "create"}
      /\ filesConn[c].name \in Names
  BY DEF Files!TypeOK, Formed, Files!Open, Files!OpenNew, Files!OpenDirectory
<1> DEFINE name == Files!Target(filesConn[c].name)
<1>2. name \in Names
  BY <1>1 DEF Files!Target, Formed
<1>3. ASSUME NEW n \in Names, disk[n].kind \in {"file", "dir"}
      PROVE  disk[n].node \in 1..MaxNodes
  <2>1. disk[n].node \in 0..MaxNodes /\ disk[n].node # 0
    BY <1>1, <1>3 DEF Files!Entries, Formed
  <2> QED
    BY <2>1, FilesAssumption
<1>4. CASE Files!Open(c)
  <2>1. disk[name].kind = "file" /\ Files!Opened(c, "file", disk[name].node)
        /\ UNCHANGED <<disk, nodes, moved>>
    BY <1>4 DEF Files!Open
  <2>2. disk[name].node \in 1..MaxNodes
    BY <1>2, <1>3, <2>1
  <2>3. \E raw : OpensHandle(c, raw, "file", disk[name].node)
    BY <1>1, <2>1, <2>2, OpenedOpens
  <2> HIDE DEF name
  <2> QED
    BY <1>1, <1>2, <2>1, <2>2, <2>3 DEF OpensAny, name
<1>5. CASE Files!OpenNew(c)
  <2>1. /\ disk[name].kind = "none" /\ Files!Opened(c, "file", nodes + 1)
        /\ nodes' = nodes + 1 /\ nodes < MaxNodes
        /\ disk' = [disk EXCEPT ![name] = Files!File(nodes + 1)]
        /\ UNCHANGED moved
    BY <1>5 DEF Files!OpenNew
  <2>2. nodes + 1 \in 1..MaxNodes /\ nodes' \in 0..MaxNodes
    BY <2>1, FilesAssumption DEF Files!TypeOK
  <2>3. \E raw : OpensHandle(c, raw, "file", nodes + 1)
    BY <1>1, <2>1, <2>2, OpenedOpens
  <2>4. /\ Files!File(nodes + 1) \in Files!Entries
        /\ Files!File(nodes + 1).node = nodes + 1 /\ Files!File(nodes + 1).kind = "file"
    BY <2>2, FilesValues
  <2> HIDE DEF name
  <2>5. /\ disk' \in [Names -> Files!Entries] /\ disk'[name] = Files!File(nodes + 1)
        /\ \A n \in Names : n # name => disk'[n] = disk[n]
    BY <1>2, <2>1, <2>4, EntryTypes
  <2> QED
    BY <1>1, <1>2, <2>1, <2>2, <2>3, <2>4, <2>5 DEF OpensAny, name
<1>6. CASE Files!OpenDirectory(c)
  <2>1. /\ disk[filesConn[c].name].kind = "dir"
        /\ Files!Opened(c, "dir", disk[filesConn[c].name].node)
        /\ UNCHANGED <<disk, nodes, moved>>
    BY <1>6 DEF Files!OpenDirectory
  <2>2. name = filesConn[c].name
    BY <2>1 DEF Files!Target
  <2>3. disk[name].node \in 1..MaxNodes
    BY <1>1, <1>3, <2>1, <2>2
  <2>4. \E raw : OpensHandle(c, raw, "dir", disk[name].node)
    BY <1>1, <2>1, <2>2, <2>3, OpenedOpens
  <2> HIDE DEF name
  <2> QED
    BY <1>1, <1>2, <2>1, <2>2, <2>3, <2>4 DEF OpensAny, name
<1> QED
  BY <1>4, <1>5, <1>6

\* Steps that change the directory and open nothing.
ChangesDisk(c) ==
  /\ Moves(c) /\ UNCHANGED <<sessions, nextSession, handles, raws, nextRaw, shared>>
  /\ filesConn[c].name \in Names
  /\ disk' \in [Names -> Files!Entries] /\ nodes' \in 0..MaxNodes
  /\ moved' \subseteq 1..MaxNodes /\ moved \subseteq moved'

\* A name that named nothing names a directory.
Makes(c) ==
  /\ disk[filesConn[c].name].kind = "none" /\ UNCHANGED moved
  /\ disk'[filesConn[c].name].kind = "dir" /\ disk'[filesConn[c].name].node # 0
  /\ \A n \in Names : n # filesConn[c].name => disk'[n] = disk[n]

\* Names lose what they named, and one may get what the other named.
Unlinks(names) ==
  /\ names \subseteq Names
  /\ \A n \in Names : n \notin names => disk'[n] = disk[n]
  /\ \A n \in names : disk'[n] = Files!Nothing \/ \E m \in names : disk'[n] = disk[m]
  /\ \A n \in names : disk[Files!Target(n)].node # 0 => disk[Files!Target(n)].node \in moved'

LEMMA UnlinkedMoves ==
  ASSUME Files!TypeOK, Formed, NEW names \in SUBSET Names, Files!Unlinked(names)
  PROVE  /\ moved' \subseteq 1..MaxNodes /\ moved \subseteq moved'
         /\ \A n \in names : disk[Files!Target(n)].node # 0 =>
                               disk[Files!Target(n)].node \in moved'
<1>1. ASSUME NEW n \in names, disk[Files!Target(n)].node # 0
      PROVE  disk[Files!Target(n)].node \in 1..MaxNodes
  <2>1. Files!Target(n) \in Names
    BY DEF Files!Target, Formed
  <2>2. disk[Files!Target(n)].node \in 0..MaxNodes
    BY <2>1 DEF Files!TypeOK, Files!Entries
  <2> QED
    BY <1>1, <2>2, FilesAssumption
<1>2. moved \subseteq 1..MaxNodes
  BY DEF Files!TypeOK
<1> QED
  BY <1>1, <1>2 DEF Files!Unlinked

LEMMA DiskSteps ==
  ASSUME Files!TypeOK, Formed, NEW c \in Conns,
         \/ Files!Remove(c) \/ Files!Mkdir(c) \/ \E name \in Names : Files!Rename(c, name)
  PROVE  ChangesDisk(c) /\ (Makes(c) \/ \E names : Unlinks(names))
<1>1. /\ disk \in [Names -> Files!Entries] /\ filesConn[c].at \in {"existing", "create"}
      /\ filesConn[c].name \in Names /\ Connected(c)
      /\ nodes \in 0..MaxNodes /\ moved \subseteq 1..MaxNodes
  BY DEF Files!TypeOK, Formed, Files!Remove, Files!Mkdir, Files!Rename, Connected
<1>2. /\ Moves(c) /\ UNCHANGED <<sessions, nextSession, handles, raws, nextRaw, shared>>
  BY <1>1, AnswerMoves DEF Files!Remove, Files!Mkdir, Files!Rename, Files!DiskChanged
<1> DEFINE old == filesConn[c].name
<1>3. CASE Files!Remove(c)
  <2>1. /\ disk' = [disk EXCEPT ![old] = Files!Nothing] /\ Files!Unlinked({old})
        /\ UNCHANGED nodes
    BY <1>3 DEF Files!Remove
  <2> HIDE DEF old
  <2>2. /\ disk' \in [Names -> Files!Entries]
        /\ disk'[old] = Files!Nothing /\ \A n \in Names : n # old => disk'[n] = disk[n]
    BY <1>1, <2>1, EntryTypes, FilesValues DEF old
  <2>3. {old} \in SUBSET Names
    BY <1>1 DEF old
  <2>4. Unlinks({old})
    BY <2>1, <2>2, <2>3, UnlinkedMoves DEF Unlinks
  <2>5. ChangesDisk(c)
    BY <1>1, <1>2, <2>1, <2>2, <2>3, UnlinkedMoves DEF ChangesDisk
  <2> QED
    BY <2>4, <2>5
<1>4. CASE Files!Mkdir(c)
  <2>1. /\ disk' = [disk EXCEPT ![old] = Files!Directory(nodes + 1)] /\ nodes < MaxNodes
        /\ nodes' = nodes + 1 /\ UNCHANGED moved /\ disk[old].kind = "none"
    BY <1>4 DEF Files!Mkdir
  <2> HIDE DEF old
  <2>2. nodes + 1 \in 1..MaxNodes /\ nodes' \in 0..MaxNodes /\ nodes + 1 # 0
    BY <1>1, <2>1, FilesAssumption
  <2>3. /\ Files!Directory(nodes + 1) \in Files!Entries
        /\ Files!Directory(nodes + 1).node = nodes + 1
        /\ Files!Directory(nodes + 1).kind = "dir"
    BY <2>2, FilesValues
  <2>4. /\ disk' \in [Names -> Files!Entries] /\ disk'[old] = Files!Directory(nodes + 1)
        /\ \A n \in Names : n # old => disk'[n] = disk[n]
    BY <1>1, <2>1, <2>3, EntryTypes DEF old
  <2> QED
    BY <1>1, <1>2, <2>1, <2>2, <2>3, <2>4 DEF ChangesDisk, Makes, old
<1>5. ASSUME NEW new1 \in Names, Files!Rename(c, new1)
      PROVE  ChangesDisk(c) /\ \E names : Unlinks(names)
  <2>1. /\ disk' = [disk EXCEPT ![old] = Files!Nothing, ![new1] = disk[old]]
        /\ Files!Unlinked({old, new1}) /\ UNCHANGED nodes
    BY <1>5 DEF Files!Rename
  <2> HIDE DEF old
  <2>2. /\ old \in Names /\ disk[old] \in Files!Entries /\ Files!Nothing \in Files!Entries
    BY <1>1, FilesValues DEF old
  <2>3. /\ disk' \in [Names -> Files!Entries]
        /\ disk'[new1] = disk[old] /\ disk'[old] \in {Files!Nothing, disk[old]}
        /\ \A n \in Names : n \notin {old, new1} => disk'[n] = disk[n]
    BY <1>1, <2>1, <2>2
  <2>4. {old, new1} \in SUBSET Names
    BY <2>2
  <2>5. Unlinks({old, new1})
    BY <2>1, <2>3, <2>4, UnlinkedMoves DEF Unlinks
  <2>6. ChangesDisk(c)
    BY <1>1, <1>2, <2>1, <2>3, <2>4, UnlinkedMoves DEF ChangesDisk
  <2> QED
    BY <2>5, <2>6
<1> QED
  BY <1>3, <1>4, <1>5

\* Formed, of connections and of the directory.
ConnsFormed ==
  \A c \in Conns :
    /\ Connected(c) => filesConn[c].number # 0
    /\ filesConn[c].at \in {"existing", "create"} => filesConn[c].name \in Names
DiskFormed ==
  \A n \in Names : /\ disk[n].node # 0 <=> disk[n].kind \in {"file", "dir"}
                   /\ disk[n].kind = "link" => disk[n].to \in Names

LEMMA FormedParts == Formed <=> ConnsFormed /\ DiskFormed
BY DEF Formed, ConnsFormed, DiskFormed

LEMMA MovesKeep ==
  ASSUME FilesInv, NEW c \in Conns, Moves(c)
  PROVE  /\ ConnsFormed'
         /\ UNCHANGED <<sessions, handles, shared>> => SessionsApart'
         /\ UNCHANGED <<handles, raws, shared>> => NumbersApart'
         /\ \A d \in Conns : /\ Connected(d)' <=> Connected(d)
                             /\ filesConn'[d].number = filesConn[d].number
                             /\ filesConn'[d].closing = filesConn[d].closing
<1>1. \A d \in Conns : /\ Connected(d)' <=> Connected(d)
                       /\ filesConn'[d].number = filesConn[d].number
                       /\ filesConn'[d].closing = filesConn[d].closing
  BY DEF Moves, Connected
<1>2. ConnsFormed'
  BY <1>1, FormedParts DEF Moves, ConnsFormed, FilesInv
<1>3. UNCHANGED <<sessions, handles, shared>> => SessionsApart'
  <2> SUFFICES ASSUME UNCHANGED <<sessions, handles, shared>>, ~shared
               PROVE  SessionsApart'
    BY DEF SessionsApart
  <2>1. /\ \A d \in Conns : Connected(d)' => sessions[filesConn'[d].number] = d
        /\ \A d \in Conns : ~Connected(d)' => handles[d] = {}
    BY <1>1 DEF FilesInv, SessionsApart
  <2>2. \A n \in 1..MaxSessions : sessions[n] # NoConn =>
          Connected(sessions[n])' /\ filesConn'[sessions[n]].number = n
    <3>1. \A n \in 1..MaxSessions : sessions[n] \in Conns \cup {NoConn}
      BY DEF FilesInv, Files!TypeOK
    <3> QED
      BY <1>1, <3>1 DEF FilesInv, SessionsApart, Connected
  <2> QED
    BY <2>1, <2>2 DEF SessionsApart, Connected
<1>4. UNCHANGED <<handles, raws, shared>> => NumbersApart'
  <2> SUFFICES ASSUME UNCHANGED <<handles, raws, shared>>, ~shared
               PROVE  NumbersApart'
    BY DEF NumbersApart
  <2>1. \A d \in Conns : filesConn[d].at = "closing" => filesConn'[d].at = "closing"
    BY DEF Moves, Connected
  <2> QED
    BY <1>1, <2>1 DEF FilesInv, NumbersApart
<1> QED
  BY <1>1, <1>2, <1>3, <1>4

LEMMA OpensKeep ==
  ASSUME FilesInv, NEW c \in Conns, NEW raw, NEW kind \in {"file", "dir"}, NEW node,
         OpensHandle(c, raw, kind, node)
  PROVE  SessionsApart' /\ NumbersApart'
<1> DEFINE owner == sessions[filesConn[c].number]
           handle == Opening(c, raw, kind, node)
<1>1. /\ raw \in 1..MaxRaw /\ owner \in Conns /\ Moves(c)
      /\ raws'[raw] = [kind |-> kind, node |-> node]
      /\ \A r \in 1..MaxRaw : r # raw => raws'[r] = raws[r]
      /\ handles'[owner] = handles[owner] \cup {handle}
      /\ \A d \in Conns : d # owner => handles'[d] = handles[d]
      /\ shared' = (shared \/ raws[raw] # Files!NotOpen)
      /\ UNCHANGED <<sessions, nextSession>>
  BY DEF OpensHandle
<1>2. \A d \in Conns : /\ Connected(d)' <=> Connected(d)
                       /\ filesConn'[d].number = filesConn[d].number
                       /\ filesConn'[d].closing = filesConn[d].closing
  BY <1>1, MovesKeep
<1>3. /\ handle.raw = raw /\ handle.kind = kind /\ handle.node = node
      /\ raws'[raw] # Files!NotOpen
  BY <1>1 DEF Opening, Files!NotOpen
<1> HIDE DEF owner, handle
<1>4. CASE shared'
  BY <1>4 DEF SessionsApart, NumbersApart
<1>5. CASE ~shared'
  <2>1. ~shared /\ raws[raw] = Files!NotOpen
    BY <1>1, <1>5
  <2>2. /\ Connected(owner)
    <3>1. owner # NoConn /\ filesConn[c].number \in 1..MaxSessions
      BY <1>1, FilesAssumption DEF FilesInv, Files!TypeOK, Formed, Moves
    <3> QED
      BY <2>1, <3>1 DEF FilesInv, SessionsApart, owner
  <2>3. SessionsApart'
    <3>1. /\ \A d \in Conns : Connected(d)' => sessions[filesConn'[d].number] = d
          /\ \A d \in Conns : ~Connected(d)' => handles'[d] = {}
      BY <1>1, <1>2, <2>1, <2>2 DEF FilesInv, SessionsApart
    <3>2. ASSUME NEW n \in 1..MaxSessions, sessions[n] # NoConn
          PROVE  /\ filesConn'[sessions[n]].at \in {"idle", "existing", "create", "gone"}
                 /\ filesConn'[sessions[n]].number = n
      <4>1. sessions[n] \in Conns
        BY <3>2 DEF FilesInv, Files!TypeOK
      <4>2. Connected(sessions[n]) /\ filesConn[sessions[n]].number = n
        BY <2>1, <3>2 DEF FilesInv, SessionsApart
      <4> QED
        BY <1>2, <4>1, <4>2 DEF Connected
    <3> QED
      BY <1>1, <3>1, <3>2 DEF SessionsApart, Connected
  <2>4. ASSUME NEW d \in Conns, NEW h \in handles'[d]
        PROVE  h \in handles[d] \/ (d = owner /\ h = handle)
    BY <1>1, <2>4
  <2>5. ASSUME NEW d \in Conns, NEW h \in handles[d]
        PROVE  /\ h.raw # raw /\ h.raw \in 1..MaxRaw
               /\ raws[h.raw] = [kind |-> h.kind, node |-> h.node]
    <3>1. h \in Files!Handles
      BY DEF FilesInv, Files!TypeOK
    <3>2. raws[h.raw] = [kind |-> h.kind, node |-> h.node] /\ h.kind # "none"
      BY <2>1, <3>1 DEF FilesInv, NumbersApart, Files!Handles
    <3>3. raws[h.raw] # Files!NotOpen
      BY <3>2 DEF Files!NotOpen
    <3> QED
      BY <2>1, <3>1, <3>2, <3>3 DEF Files!Handles
  <2>6. ASSUME NEW d \in Conns
        PROVE  raw \notin filesConn'[d].closing
    BY <1>2, <2>1 DEF FilesInv, NumbersApart
  <2>7. ASSUME NEW a \in Conns, NEW h \in handles'[a]
        PROVE  /\ raws'[h.raw] = [kind |-> h.kind, node |-> h.node]
               /\ \A d \in Conns : h.raw \notin filesConn'[d].closing
               /\ \A d \in Conns : \A g \in handles'[d] : g.raw = h.raw => a = d /\ g = h
    <3>1. CASE h \in handles[a]
      <4>1. ASSUME NEW d \in Conns, NEW g \in handles'[d], g.raw = h.raw
            PROVE  a = d /\ g = h
        <5>1. g \in handles[d]
          BY <1>3, <2>4, <2>5, <3>1, <4>1
        <5> QED
          BY <2>1, <3>1, <4>1, <5>1 DEF FilesInv, NumbersApart
      <4> QED
        BY <1>1, <1>2, <2>1, <2>5, <3>1, <4>1 DEF FilesInv, NumbersApart
    <3>2. CASE a = owner /\ h = handle
      <4>1. \A d \in Conns : \A g \in handles'[d] : g.raw = h.raw => a = d /\ g = h
        BY <1>3, <2>4, <2>5, <3>2
      <4> QED
        BY <1>1, <1>3, <2>6, <3>2, <4>1
    <3> QED
      BY <2>4, <3>1, <3>2
  <2>8. ASSUME NEW a \in Conns, NEW r \in filesConn'[a].closing
        PROVE  /\ raws'[r] # Files!NotOpen /\ filesConn'[a].at = "closing"
               /\ \A d \in Conns : r \in filesConn'[d].closing => a = d
    <3>1. r # raw /\ r \in filesConn[a].closing /\ r \in 1..MaxRaw
      BY <1>2, <2>6 DEF FilesInv, Files!TypeOK
    <3>2. filesConn'[a] = filesConn[a]
      BY <1>1, <2>1, <3>1 DEF FilesInv, NumbersApart, Moves, Connected
    <3> QED
      BY <1>1, <1>2, <2>1, <3>1, <3>2 DEF FilesInv, NumbersApart
  <2>9. ASSUME NEW r \in 1..MaxRaw, raws'[r] # Files!NotOpen
        PROVE  \E a \in Conns : r \in filesConn'[a].closing \/ \E h \in handles'[a] : h.raw = r
    <3>1. CASE r = raw
      BY <1>1, <1>3, <3>1
    <3>2. CASE r # raw
      <4>1. PICK a \in Conns : r \in filesConn[a].closing \/ \E h \in handles[a] : h.raw = r
        BY <1>1, <2>1, <2>9, <3>2 DEF FilesInv, NumbersApart
      <4>2. handles[a] \subseteq handles'[a]
        BY <1>1
      <4> QED
        BY <1>2, <4>1, <4>2
    <3> QED
      BY <3>1, <3>2
  <2>10. NumbersApart'
    BY <2>7, <2>8, <2>9 DEF NumbersApart
  <2> QED
    BY <2>3, <2>10
<1> QED
  BY <1>4, <1>5

LEMMA FilesTypes ==
  FilesInv => /\ filesConn \in [Conns -> ConnectionRecords]
              /\ sessions \in [1..MaxSessions -> Conns \cup {NoConn}]
              /\ handles \in [Conns -> SUBSET Files!Handles]
              /\ raws \in [1..MaxRaw -> OpenFiles] /\ NoConn \notin Conns
BY FilesAssumption DEF FilesInv, Files!TypeOK, ConnectionRecords, OpenFiles

LEMMA HandlesApart ==
  ASSUME NumbersApart, ~shared, NEW a \in Conns, NEW h \in handles[a]
  PROVE  /\ raws[h.raw] = [kind |-> h.kind, node |-> h.node]
         /\ \A d \in Conns : h.raw \notin filesConn[d].closing
         /\ \A d \in Conns : \A g \in handles[d] : g.raw = h.raw => a = d /\ g = h
BY DEF NumbersApart

LEMMA ConnectKeeps ==
  ASSUME FilesInv, NEW c \in Conns, Files!Connect(c)
  PROVE  /\ filesConn' \in [Conns -> ConnectionRecords]
         /\ sessions' \in [1..MaxSessions -> Conns \cup {NoConn}] /\ nextSession' \in Nat
         /\ ConnsFormed' /\ SessionsApart' /\ NumbersApart'
<1> DEFINE number == Files!Number(nextSession)
           record == [Files!NoConnection EXCEPT !.at = "idle", !.number = number]
<1>1. number \in 1..MaxSessions /\ nextSession' \in Nat
  BY FilesAssumption DEF FilesInv, Files!TypeOK, Files!Connect, Files!Number
<1>2. /\ record \in ConnectionRecords /\ record.at = "idle" /\ record.number = number
      /\ record.closing = {}
  <2>1. ASSUME NEW start \in ConnectionRecords, NEW n \in 0..MaxSessions
        PROVE  LET new1 == [start EXCEPT !.at = "idle", !.number = n] IN
               /\ new1 \in ConnectionRecords /\ new1.at = "idle" /\ new1.number = n
               /\ new1.closing = start.closing
    BY DEF ConnectionRecords
  <2>2. number \in 0..MaxSessions
    BY <1>1, FilesAssumption
  <2> HIDE DEF number
  <2> QED
    BY <2>1, <2>2, FilesValues
<1>3. /\ filesConn[c].at = "none"
      /\ filesConn' = [filesConn EXCEPT ![c] = record]
      /\ sessions' = [sessions EXCEPT ![number] = c]
      /\ shared' = (shared \/ sessions[number] # NoConn)
      /\ UNCHANGED <<handles, raws>>
  BY DEF Files!Connect
<1> HIDE DEF number, record
<1>4. /\ filesConn' \in [Conns -> ConnectionRecords] /\ filesConn'[c] = record
      /\ \A d \in Conns : d # c => filesConn'[d] = filesConn[d]
      /\ sessions' \in [1..MaxSessions -> Conns \cup {NoConn}] /\ sessions'[number] = c
      /\ \A n \in 1..MaxSessions : n # number => sessions'[n] = sessions[n]
  BY <1>1, <1>2, <1>3, FilesTypes
<1>5. ConnsFormed'
  BY <1>1, <1>2, <1>4, FormedParts, FilesAssumption DEF FilesInv, ConnsFormed, Connected
<1>6. CASE shared'
  BY <1>4, <1>5, <1>6, <1>1 DEF SessionsApart, NumbersApart
<1>7. CASE ~shared'
  <2>1. ~shared /\ sessions[number] = NoConn /\ NoConn \notin Conns
    BY <1>3, <1>7, FilesTypes
  <2>2. ASSUME NEW d \in Conns, filesConn'[d].at \in {"idle", "existing", "create", "gone"}
        PROVE  sessions'[filesConn'[d].number] = d
    <3>1. CASE d = c
      BY <1>2, <1>4, <3>1
    <3>2. CASE d # c
      <4>1. sessions[filesConn[d].number] = d
        BY <1>4, <2>1, <2>2, <3>2 DEF FilesInv, SessionsApart, Connected
      <4>2. filesConn[d].number \in 1..MaxSessions
        BY <1>4, <2>2, <3>2, FilesTypes, FormedParts, FilesAssumption
        DEF FilesInv, ConnsFormed, ConnectionRecords, Connected
      <4>3. filesConn[d].number # number
        BY <2>1, <4>1
      <4> QED
        BY <1>4, <3>2, <4>1, <4>2, <4>3
    <3> QED
      BY <3>1, <3>2
  <2>3. ASSUME NEW n \in 1..MaxSessions, sessions'[n] # NoConn
        PROVE  /\ filesConn'[sessions'[n]].at \in {"idle", "existing", "create", "gone"}
               /\ filesConn'[sessions'[n]].number = n
    <3>1. CASE n = number
      BY <1>2, <1>4, <3>1
    <3>2. CASE n # number
      <4>1. /\ sessions'[n] = sessions[n] /\ sessions[n] \in Conns
            /\ Connected(sessions[n]) /\ filesConn[sessions[n]].number = n
        BY <1>4, <2>1, <2>3, <3>2, FilesTypes DEF FilesInv, SessionsApart
      <4>2. sessions[n] # c
        BY <1>3, <4>1 DEF Connected
      <4> QED
        BY <1>4, <4>1, <4>2 DEF Connected
    <3> QED
      BY <3>1, <3>2
  <2>4. ASSUME NEW d \in Conns, filesConn'[d].at \notin {"idle", "existing", "create", "gone"}
        PROVE  handles[d] = {}
    BY <1>2, <1>4, <2>1, <2>4 DEF FilesInv, SessionsApart, Connected
  <2>5. SessionsApart'
    BY <1>3, <2>2, <2>3, <2>4 DEF SessionsApart, Connected
  <2>6. filesConn[c].closing = {}
    BY <1>3, <2>1 DEF FilesInv, NumbersApart
  <2>7. ASSUME NEW d \in Conns
        PROVE  /\ filesConn'[d].closing = filesConn[d].closing
               /\ filesConn[d].at = "closing" => filesConn'[d].at = "closing"
    BY <1>2, <1>3, <1>4, <2>6
  <2>8. NumbersApart'
    BY <1>3, <2>1, <2>7 DEF FilesInv, NumbersApart
  <2> QED
    BY <1>1, <1>4, <1>5, <2>5, <2>8
<1> QED
  BY <1>6, <1>7

LEMMA CloseSessionKeeps ==
  ASSUME FilesInv, NEW c \in Conns, Files!CloseSession(c)
  PROVE  /\ filesConn' \in [Conns -> ConnectionRecords]
         /\ sessions' \in [1..MaxSessions -> Conns \cup {NoConn}]
         /\ handles' \in [Conns -> SUBSET Files!Handles]
         /\ ConnsFormed' /\ SessionsApart' /\ NumbersApart'
         /\ \A d \in Conns : handles'[d] \subseteq handles[d]
<1> DEFINE number == filesConn[c].number
           found == sessions[number]
           closing == {h.raw : h \in handles[found]}
           ended == [filesConn[c] EXCEPT !.at = "ended"]
           record == [filesConn[c] EXCEPT !.at = "closing", !.closing = closing]
<1>0. FilesInv /\ filesConn[c] \in ConnectionRecords /\ filesConn[c].at = "gone"
      /\ NoConn \notin Conns
  BY FilesTypes DEF Files!CloseSession
<1>1. number \in 1..MaxSessions /\ found \in Conns \cup {NoConn} /\ Connected(c)
  BY <1>0, FilesTypes, FormedParts, FilesAssumption
  DEF FilesInv, ConnsFormed, Connected, ConnectionRecords
<1>2. CASE found = NoConn
  <2>1. /\ filesConn' = [filesConn EXCEPT ![c] = ended]
        /\ UNCHANGED <<sessions, handles, raws, shared>>
    BY <1>0, <1>2, FilesTypes DEF Files!CloseSession
  <2>2. /\ ended \in ConnectionRecords /\ ended.at = "ended" /\ ended.closing = filesConn[c].closing
        /\ ended.number = number
    BY <1>0 DEF ConnectionRecords
  <2> HIDE DEF ended
  <2>3. /\ filesConn' \in [Conns -> ConnectionRecords] /\ filesConn'[c] = ended
        /\ \A d \in Conns : d # c => filesConn'[d] = filesConn[d]
    BY <2>1, <2>2, FilesTypes
  <2>4. ConnsFormed'
    BY <1>0, <2>2, <2>3, FormedParts DEF FilesInv, ConnsFormed, Connected
  <2>5. shared
    BY <1>0, <1>1, <1>2 DEF FilesInv, SessionsApart
  <2>6. SessionsApart' /\ NumbersApart'
    BY <2>1, <2>5 DEF SessionsApart, NumbersApart
  <2> QED
    BY <2>1, <2>3, <2>4, <2>6, FilesTypes
<1>3. CASE found # NoConn
  <2>1. /\ filesConn' = [filesConn EXCEPT ![c] = record]
        /\ sessions' = [sessions EXCEPT ![number] = NoConn]
        /\ handles' = [handles EXCEPT ![found] = {}]
        /\ UNCHANGED <<raws, shared>>
    BY <1>0, <1>3, FilesTypes DEF Files!CloseSession
  <2>2. closing \in SUBSET (1..MaxRaw)
    BY <1>1, <1>3, FilesTypes DEF Files!Handles
  <2>3. /\ record \in ConnectionRecords /\ record.at = "closing" /\ record.closing = closing
        /\ record.number = number
    BY <1>0, <2>2 DEF ConnectionRecords
  <2> HIDE DEF record, closing
  <2>4. /\ filesConn' \in [Conns -> ConnectionRecords] /\ filesConn'[c] = record
        /\ \A d \in Conns : d # c => filesConn'[d] = filesConn[d]
        /\ sessions' \in [1..MaxSessions -> Conns \cup {NoConn}]
        /\ \A n \in 1..MaxSessions : sessions'[n] = IF n = number THEN NoConn ELSE sessions[n]
        /\ handles' \in [Conns -> SUBSET Files!Handles]
        /\ \A d \in Conns : handles'[d] = IF d = found THEN {} ELSE handles[d]
    BY <1>1, <2>1, <2>3, FilesTypes
  <2>5. ConnsFormed'
    BY <1>0, <2>3, <2>4, FormedParts DEF FilesInv, ConnsFormed, Connected
  <2>6. CASE shared
    BY <2>1, <2>4, <2>5, <2>6 DEF SessionsApart, NumbersApart
  <2>7. CASE ~shared
    <3>1. found = c
      BY <1>0, <1>1, <2>7 DEF FilesInv, SessionsApart
    <3>2. ASSUME NEW d \in Conns, filesConn'[d].at \in {"idle", "existing", "create", "gone"}
          PROVE  sessions'[filesConn'[d].number] = d
      <4>1. d # c /\ filesConn'[d] = filesConn[d]
        BY <2>3, <2>4, <3>2
      <4>2. /\ sessions[filesConn[d].number] = d /\ filesConn[d].number \in 1..MaxSessions
        BY <1>0, <2>7, <3>2, <4>1, FilesTypes, FormedParts, FilesAssumption
        DEF FilesInv, SessionsApart, ConnsFormed, ConnectionRecords, Connected
      <4>3. filesConn[d].number # number
        BY <3>1, <4>1, <4>2
      <4> QED
        BY <2>4, <4>1, <4>2, <4>3
    <3>3. ASSUME NEW n \in 1..MaxSessions, sessions'[n] # NoConn
          PROVE  /\ filesConn'[sessions'[n]].at \in {"idle", "existing", "create", "gone"}
                 /\ filesConn'[sessions'[n]].number = n
      <4>1. /\ n # number /\ sessions'[n] = sessions[n] /\ sessions[n] \in Conns
            /\ Connected(sessions[n]) /\ filesConn[sessions[n]].number = n
        BY <1>0, <2>4, <2>7, <3>3, FilesTypes DEF FilesInv, SessionsApart
      <4>2. sessions[n] # c
        BY <4>1
      <4> QED
        BY <2>4, <4>1, <4>2 DEF Connected
    <3>4. ASSUME NEW d \in Conns, filesConn'[d].at \notin {"idle", "existing", "create", "gone"}
          PROVE  handles'[d] = {}
      BY <1>0, <2>4, <2>7, <3>1, <3>4 DEF FilesInv, SessionsApart, Connected
    <3>5. SessionsApart'
      BY <3>2, <3>3, <3>4 DEF SessionsApart, Connected
    <3>6. NumbersApart /\ filesConn[c].closing = {}
      BY <1>0, <2>7 DEF FilesInv, NumbersApart
    <3>7. /\ \A d \in Conns : d # c => filesConn'[d].closing = filesConn[d].closing
          /\ filesConn'[c].closing = closing
          /\ \A d \in Conns : handles'[d] = IF d = c THEN {} ELSE handles[d]
      BY <2>3, <2>4, <3>1
    <3>8. ASSUME NEW a \in Conns, NEW h \in handles'[a]
          PROVE  /\ raws[h.raw] = [kind |-> h.kind, node |-> h.node]
                 /\ \A d \in Conns : h.raw \notin filesConn'[d].closing
                 /\ \A d \in Conns : \A g \in handles'[d] : g.raw = h.raw => a = d /\ g = h
      <4>1. a # c /\ h \in handles[a]
        BY <3>7
      <4>2. h.raw \notin closing
        <5>1. ASSUME NEW g \in handles[c], g.raw = h.raw
              PROVE  a = c
          <6>1. \A d \in Conns : \A f \in handles[d] : f.raw = h.raw => a = d /\ f = h
            BY <2>7, <3>6, <4>1, HandlesApart
          <6> QED
            BY <5>1, <6>1
        <5> QED
          BY <3>1, <4>1, <5>1 DEF closing
      <4> QED
        BY <2>7, <3>6, <3>7, <4>1, <4>2, HandlesApart
    <3>9. ASSUME NEW a \in Conns, NEW r \in filesConn'[a].closing
          PROVE  /\ raws[r] # Files!NotOpen /\ filesConn'[a].at = "closing"
                 /\ \A d \in Conns : r \in filesConn'[d].closing => a = d
      <4>1. ASSUME r \in closing
            PROVE  /\ raws[r] # Files!NotOpen
                   /\ \A d \in Conns : d # c => r \notin filesConn[d].closing
        <5>1. PICK h \in handles[c] : r = h.raw
          BY <3>1, <4>1 DEF closing
        <5>2. h.kind \in {"file", "dir"} /\ raws[r] = [kind |-> h.kind, node |-> h.node]
          BY <2>7, <3>6, <5>1, FilesTypes DEF NumbersApart, Files!Handles
        <5>3. raws[r] # Files!NotOpen
          BY <5>2 DEF Files!NotOpen
        <5> QED
          BY <2>7, <3>6, <5>1, <5>3 DEF NumbersApart
      <4>2. CASE a = c
        BY <2>3, <2>4, <3>7, <4>1, <4>2
      <4>3. CASE a # c
        <5>1. r \in filesConn[a].closing /\ filesConn'[a] = filesConn[a]
          BY <2>4, <3>7, <4>3
        <5>2. r \notin closing
          BY <4>1, <4>3, <5>1
        <5> QED
          BY <2>7, <3>6, <3>7, <4>3, <5>1, <5>2 DEF NumbersApart
      <4> QED
        BY <4>2, <4>3
    <3>10. ASSUME NEW r \in 1..MaxRaw, raws[r] # Files!NotOpen
           PROVE  \E a \in Conns : r \in filesConn'[a].closing \/ \E h \in handles'[a] : h.raw = r
      <4>1. PICK a \in Conns : r \in filesConn[a].closing \/ \E h \in handles[a] : h.raw = r
        BY <2>7, <3>6, <3>10 DEF NumbersApart
      <4>2. CASE a = c
        <5>1. r \in closing
          BY <3>1, <3>6, <4>1, <4>2 DEF closing
        <5> QED
          BY <3>7, <5>1
      <4>3. CASE a # c
        BY <3>7, <4>1, <4>3
      <4> QED
        BY <4>2, <4>3
    <3>11. NumbersApart'
      BY <2>1, <3>8, <3>9, <3>10 DEF NumbersApart
    <3> QED
      BY <2>4, <2>5, <3>5, <3>11
  <2> QED
    BY <2>6, <2>7
<1> QED
  BY <1>2, <1>3

LEMMA CloseAllKeeps ==
  ASSUME FilesInv, NEW c \in Conns, Files!CloseAll(c)
  PROVE  /\ filesConn' \in [Conns -> ConnectionRecords] /\ raws' \in [1..MaxRaw -> OpenFiles]
         /\ ConnsFormed' /\ SessionsApart' /\ NumbersApart'
<1> DEFINE record == [Files!NoConnection EXCEPT !.at = "ended"]
<1>0. FilesInv /\ ~Connected(c) /\ filesConn[c].at = "closing"
  BY DEF Files!CloseAll, Connected
<1>1. record \in ConnectionRecords /\ record.at = "ended" /\ record.closing = {}
  <2>1. ASSUME NEW start \in ConnectionRecords
        PROVE  LET new1 == [start EXCEPT !.at = "ended"] IN
               /\ new1 \in ConnectionRecords /\ new1.at = "ended" /\ new1.closing = start.closing
    BY DEF ConnectionRecords
  <2> QED
    BY <2>1, FilesValues
<1>2. /\ filesConn' = [filesConn EXCEPT ![c] = record]
      /\ raws' = [r \in 1..MaxRaw |-> IF r \in filesConn[c].closing THEN Files!NotOpen ELSE raws[r]]
      /\ UNCHANGED <<sessions, handles, shared>>
  BY DEF Files!CloseAll
<1> HIDE DEF record
<1>3. /\ filesConn' \in [Conns -> ConnectionRecords] /\ filesConn'[c] = record
      /\ \A d \in Conns : d # c => filesConn'[d] = filesConn[d]
  BY <1>1, <1>2, FilesTypes
<1>4. /\ raws' \in [1..MaxRaw -> OpenFiles]
      /\ \A r \in 1..MaxRaw : raws'[r] = IF r \in filesConn[c].closing THEN Files!NotOpen ELSE
           raws[r]
  BY <1>2, FilesTypes, FilesValues
<1>5. /\ \A d \in Conns : Connected(d)' <=> Connected(d)
      /\ \A d \in Conns : Connected(d) => filesConn'[d] = filesConn[d]
  BY <1>0, <1>1, <1>3 DEF Connected
<1>6. ConnsFormed'
  BY <1>0, <1>1, <1>3, <1>5, FormedParts DEF FilesInv, ConnsFormed
<1>7. CASE shared
  BY <1>2, <1>3, <1>4, <1>6, <1>7 DEF SessionsApart, NumbersApart
<1>8. CASE ~shared
  <2>1. SessionsApart /\ NumbersApart
    BY <1>0 DEF FilesInv
  <2>2. ASSUME NEW n \in 1..MaxSessions, sessions[n] # NoConn
        PROVE  /\ filesConn'[sessions[n]].at \in {"idle", "existing", "create", "gone"}
               /\ filesConn'[sessions[n]].number = n
    <3>1. sessions[n] \in Conns /\ Connected(sessions[n]) /\ filesConn[sessions[n]].number = n
      BY <1>8, <2>1, <2>2, FilesTypes DEF SessionsApart
    <3> QED
      BY <1>5, <3>1 DEF Connected
  <2>3. SessionsApart'
    <3>1. /\ \A d \in Conns : Connected(d)' => sessions[filesConn'[d].number] = d
          /\ \A d \in Conns : ~Connected(d)' => handles[d] = {}
      BY <1>5, <1>8, <2>1 DEF SessionsApart
    <3> QED
      BY <1>2, <2>2, <3>1 DEF SessionsApart, Connected
  <2>4. ASSUME NEW d \in Conns
        PROVE  filesConn'[d].closing = IF d = c THEN {} ELSE filesConn[d].closing
    BY <1>1, <1>3
  <2>5. ASSUME NEW a \in Conns, NEW h \in handles[a]
        PROVE  /\ raws'[h.raw] = [kind |-> h.kind, node |-> h.node]
               /\ \A d \in Conns : h.raw \notin filesConn'[d].closing
               /\ \A d \in Conns : \A g \in handles[d] : g.raw = h.raw => a = d /\ g = h
    <3>1. h.raw \in 1..MaxRaw
      BY FilesTypes, <1>0 DEF Files!Handles
    <3>2. /\ raws[h.raw] = [kind |-> h.kind, node |-> h.node]
          /\ \A d \in Conns : h.raw \notin filesConn[d].closing
          /\ \A d \in Conns : \A g \in handles[d] : g.raw = h.raw => a = d /\ g = h
      BY <1>8, <2>1, HandlesApart
    <3> QED
      BY <1>4, <2>4, <3>1, <3>2
  <2>6. ASSUME NEW a \in Conns, NEW r \in filesConn'[a].closing
        PROVE  /\ raws'[r] # Files!NotOpen /\ filesConn'[a].at = "closing"
               /\ \A d \in Conns : r \in filesConn'[d].closing => a = d
    <3>1. a # c /\ r \in filesConn[a].closing /\ r \in 1..MaxRaw
      BY <2>4, <2>6, <1>0, FilesTypes DEF ConnectionRecords
    <3>2. /\ raws[r] # Files!NotOpen /\ filesConn[a].at = "closing"
          /\ \A d \in Conns : r \in filesConn[d].closing => a = d
      BY <1>8, <2>1, <3>1 DEF NumbersApart
    <3> QED
      BY <1>3, <1>4, <2>4, <3>1, <3>2
  <2>7. ASSUME NEW r \in 1..MaxRaw, raws'[r] # Files!NotOpen
        PROVE  \E a \in Conns : r \in filesConn'[a].closing \/ \E h \in handles[a] : h.raw = r
    <3>1. raws[r] # Files!NotOpen /\ r \notin filesConn[c].closing
      BY <1>4, <2>7
    <3>2. PICK a \in Conns : r \in filesConn[a].closing \/ \E h \in handles[a] : h.raw = r
      BY <1>8, <2>1, <3>1 DEF NumbersApart
    <3> QED
      BY <2>4, <3>1, <3>2
  <2>8. NumbersApart'
    BY <1>2, <2>5, <2>6, <2>7 DEF NumbersApart
  <2> QED
    BY <1>3, <1>4, <1>6, <2>3, <2>8
<1> QED
  BY <1>7, <1>8

LEMMA CloseKeeps ==
  ASSUME FilesInv, NEW c \in Conns, NEW owner \in Conns, NEW h \in handles[owner],
         Files!Close(c, owner, h)
  PROVE  /\ raws' \in [1..MaxRaw -> OpenFiles] /\ handles' \in [Conns -> SUBSET Files!Handles]
         /\ SessionsApart' /\ NumbersApart'
         /\ \A d \in Conns : handles'[d] \subseteq handles[d]
<1>0. FilesInv /\ h \in Files!Handles /\ h.raw \in 1..MaxRaw
  BY FilesTypes DEF Files!Handles
<1>1. /\ handles' = [handles EXCEPT ![owner] = handles[owner] \ {h}]
      /\ raws' = [raws EXCEPT ![h.raw] = Files!NotOpen]
      /\ UNCHANGED <<filesConn, sessions, shared>>
  BY FilesTypes DEF Files!Close, Files!Forgotten
<1>2. /\ handles' \in [Conns -> SUBSET Files!Handles]
      /\ \A d \in Conns : handles'[d] = IF d = owner THEN handles[owner] \ {h} ELSE handles[d]
      /\ raws' \in [1..MaxRaw -> OpenFiles]
      /\ \A r \in 1..MaxRaw : raws'[r] = IF r = h.raw THEN Files!NotOpen ELSE raws[r]
  BY <1>0, <1>1, FilesTypes, FilesValues
<1>3. \A d \in Conns : handles'[d] \subseteq handles[d]
  BY <1>2
<1>4. CASE shared
  BY <1>1, <1>2, <1>3, <1>4 DEF SessionsApart, NumbersApart
<1>5. CASE ~shared
  <2>1. SessionsApart /\ NumbersApart
    BY <1>0 DEF FilesInv
  <2>2. SessionsApart'
    BY <1>1, <1>3, <1>5, <2>1 DEF SessionsApart, Connected
  <2>3. /\ \A d \in Conns : h.raw \notin filesConn[d].closing
        /\ \A d \in Conns : \A g \in handles[d] : g.raw = h.raw => owner = d /\ g = h
    BY <1>5, <2>1, HandlesApart
  <2>4. ASSUME NEW a \in Conns, NEW f \in handles'[a]
        PROVE  /\ raws'[f.raw] = [kind |-> f.kind, node |-> f.node]
               /\ \A d \in Conns : f.raw \notin filesConn'[d].closing
               /\ \A d \in Conns : \A g \in handles'[d] : g.raw = f.raw => a = d /\ g = f
    <3>1. f \in handles[a] /\ f.raw # h.raw /\ f.raw \in 1..MaxRaw
      <4>1. f \in handles[a] /\ (a = owner => f # h)
        BY <1>2
      <4> QED
        BY <1>0, <2>3, <4>1, FilesTypes DEF Files!Handles
    <3>2. /\ raws[f.raw] = [kind |-> f.kind, node |-> f.node]
          /\ \A d \in Conns : f.raw \notin filesConn[d].closing
          /\ \A d \in Conns : \A g \in handles[d] : g.raw = f.raw => a = d /\ g = f
      BY <1>5, <2>1, <3>1, HandlesApart
    <3> QED
      BY <1>1, <1>2, <1>3, <3>1, <3>2
  <2>5. ASSUME NEW a \in Conns, NEW r \in filesConn[a].closing
        PROVE  /\ raws'[r] # Files!NotOpen /\ filesConn[a].at = "closing"
               /\ \A d \in Conns : r \in filesConn[d].closing => a = d
    <3>1. r \in 1..MaxRaw /\ r # h.raw
      BY <1>0, <2>3, FilesTypes DEF ConnectionRecords
    <3>2. /\ raws[r] # Files!NotOpen /\ filesConn[a].at = "closing"
          /\ \A d \in Conns : r \in filesConn[d].closing => a = d
      BY <1>5, <2>1 DEF NumbersApart
    <3> QED
      BY <1>2, <3>1, <3>2
  <2>6. ASSUME NEW r \in 1..MaxRaw, raws'[r] # Files!NotOpen
        PROVE  \E a \in Conns : r \in filesConn[a].closing \/ \E g \in handles'[a] : g.raw = r
    <3>1. raws[r] # Files!NotOpen /\ r # h.raw
      BY <1>2, <2>6
    <3>2. PICK a \in Conns : r \in filesConn[a].closing \/ \E g \in handles[a] : g.raw = r
      BY <1>5, <2>1, <3>1 DEF NumbersApart
    <3> QED
      BY <1>2, <3>1, <3>2
  <2>7. NumbersApart'
    BY <1>1, <2>4, <2>5, <2>6 DEF NumbersApart
  <2> QED
    BY <1>2, <1>3, <2>2, <2>7
<1> QED
  BY <1>4, <1>5

\* A handle still follows its name, or its file has lost one.
Follows(h) == Files!Named(h) = h.node \/ h.node \in moved

LEMMA HandleFacts ==
  ASSUME FilesInv, NEW a \in Conns, NEW h \in handles[a]
  PROVE  Follows(h) /\ h \in Files!Handles /\ h.name \in Names /\ h.node # 0
<1>1. h \in Files!Handles
  BY FilesTypes
<1>2. h.node # 0
  BY <1>1, FilesAssumption DEF Files!Handles
<1> QED
  BY <1>1, <1>2 DEF FilesInv, NamesFollow, Follows, Files!Handles

LEMMA TargetTypes ==
  ASSUME FilesInv, NEW n \in Names
  PROVE  Files!Target(n) \in Names
BY DEF FilesInv, Formed, Files!Target

\* A name that named nothing is filled.
LEMMA FillingFollows ==
  ASSUME FilesInv, NEW name \in Names, disk[name].kind = "none", moved \subseteq moved',
         \A n \in Names : n # name => disk'[n] = disk[n],
         NEW h, Follows(h), h.name \in Names, h.node # 0
  PROVE  Follows(h)'
<1> DEFINE target == Files!Target(h.name)
<1>1. target \in Names /\ disk[name].node = 0
  BY TargetTypes DEF FilesInv, Formed
<1>2. CASE target = name
  BY <1>1, <1>2 DEF Follows, Files!Named
<1>3. CASE target # name
  <2>1. h.name # name
    BY <1>3 DEF Files!Target
  <2>2. disk'[h.name] = disk[h.name] /\ disk'[target] = disk[target]
    BY <1>1, <1>3, <2>1
  <2>3. Files!Target(h.name)' = target
    BY <2>2 DEF Files!Target
  <2> QED
    BY <2>2, <2>3 DEF Follows, Files!Named
<1> QED
  BY <1>2, <1>3

LEMMA UnlinkingFollows ==
  ASSUME FilesInv, NEW names, Unlinks(names), moved \subseteq moved',
         NEW h, Follows(h), h.name \in Names, h.node # 0
  PROVE  Follows(h)'
<1> DEFINE target == Files!Target(h.name)
<1>1. target \in Names
  BY TargetTypes
<1>2. CASE h.node \in moved
  BY <1>2 DEF Follows
<1>3. CASE h.node \notin moved
  <2>1. disk[target].node = h.node
    BY <1>3 DEF Follows, Files!Named
  <2>2. Files!Target(target) = target
    BY <1>1, <2>1 DEF FilesInv, Formed, Files!Target
  <2>3. CASE h.name \in names \/ target \in names
    BY <2>1, <2>2, <2>3 DEF Unlinks, Follows
  <2>4. CASE h.name \notin names /\ target \notin names
    <3>1. disk'[h.name] = disk[h.name] /\ disk'[target] = disk[target]
      BY <1>1, <2>4 DEF Unlinks
    <3>2. Files!Target(h.name)' = target
      BY <3>1 DEF Files!Target
    <3> QED
      BY <2>1, <3>1, <3>2 DEF Follows, Files!Named
  <2> QED
    BY <2>3, <2>4
<1> QED
  BY <1>2, <1>3

\* The directory that an open request changes or leaves.
LEMMA OpensFollow ==
  ASSUME FilesInv, NEW c \in Conns, OpensAny(c)
  PROVE  /\ DiskFormed' /\ NamesFollow'
         /\ SessionsApart' /\ NumbersApart' /\ Moves(c)
         /\ handles' \in [Conns -> SUBSET Files!Handles] /\ raws' \in [1..MaxRaw -> OpenFiles]
         /\ nextRaw' \in Nat /\ shared' \in BOOLEAN /\ nodes' \in 0..MaxNodes
         /\ disk' \in [Names -> Files!Entries] /\ UNCHANGED <<sessions, nextSession, moved>>
<1> DEFINE name == Files!Target(filesConn[c].name)
<1>1. PICK raw, kind, node :
        /\ OpensHandle(c, raw, kind, node) /\ kind \in {"file", "dir"} /\ node \in 1..MaxNodes
        /\ filesConn[c].name \in Names
        /\ UNCHANGED moved /\ disk' \in [Names -> Files!Entries]
        /\ name \in Names /\ disk'[name].node = node /\ disk'[name].kind = kind
        /\ \A n \in Names : n # name => disk'[n] = disk[n]
        /\ \/ UNCHANGED <<disk, nodes>>
           \/ disk[name].kind = "none" /\ nodes' \in 0..MaxNodes
  BY DEF OpensAny
<1> DEFINE handle == Opening(c, raw, kind, node)
<1>2. SessionsApart' /\ NumbersApart'
  BY <1>1, OpensKeep
<1>3. /\ handle.name = filesConn[c].name /\ handle.node = node
  BY DEF Opening
<1>4. DiskFormed'
  <2>1. node # 0
    BY <1>1, FilesAssumption
  <2>2. DiskFormed
    BY FormedParts DEF FilesInv
  <2> QED
    BY <1>1, <2>1, <2>2 DEF DiskFormed
<1>5. ASSUME NEW h, h = handle
      PROVE  Follows(h)'
  <2>1. h.name = filesConn[c].name /\ h.node = node
    BY <1>3, <1>5
  <2>2. (IF disk'[h.name].kind = "link" THEN disk'[h.name].to ELSE h.name) = name
    BY <1>1, <2>1 DEF Files!Target
  <2>3. Files!Target(h.name)' = name
    BY <2>2 DEF Files!Target
  <2> QED
    BY <1>1, <2>1, <2>3 DEF Follows, Files!Named
<1>6. ASSUME NEW a \in Conns, NEW h \in handles[a]
      PROVE  Follows(h)'
  <2>1. Follows(h) /\ h.name \in Names /\ h.node # 0
    BY HandleFacts
  <2>2. CASE UNCHANGED disk
    BY <1>1, <2>1, <2>2 DEF Follows, Files!Named, Files!Target
  <2>3. CASE disk[name].kind = "none"
    BY <1>1, <2>1, <2>3, FillingFollows
  <2> QED
    BY <1>1, <2>2, <2>3
<1>7. NamesFollow'
  <2>1. ASSUME NEW a \in Conns, NEW h \in handles'[a]
        PROVE  Follows(h)'
    <3>1. h \in handles[a] \/ h = handle
      BY <1>1 DEF OpensHandle
    <3> QED
      BY <1>5, <1>6, <3>1
  <2> QED
    BY <2>1 DEF NamesFollow, Follows
<1>8. /\ Moves(c) /\ handles' \in [Conns -> SUBSET Files!Handles]
      /\ raws' \in [1..MaxRaw -> OpenFiles] /\ nextRaw' \in Nat
      /\ shared' = (shared \/ raws[raw] # Files!NotOpen)
      /\ UNCHANGED <<sessions, nextSession>>
  BY <1>1 DEF OpensHandle
<1>9. shared' \in BOOLEAN /\ nodes' \in 0..MaxNodes
  BY <1>1, <1>8 DEF FilesInv, Files!TypeOK
<1> QED
  BY <1>1, <1>2, <1>4, <1>7, <1>8, <1>9

\* A step that changes the directory and opens nothing.
LEMMA ChangesFollow ==
  ASSUME FilesInv, NEW c \in Conns, ChangesDisk(c), Makes(c) \/ \E names : Unlinks(names)
  PROVE  DiskFormed' /\ NamesFollow'
<1>0. /\ filesConn[c].name \in Names /\ moved \subseteq moved'
      /\ handles' = handles
  BY DEF ChangesDisk
<1>1. CASE Makes(c)
  <2>1. DiskFormed'
    BY <1>0, <1>1, FormedParts DEF FilesInv, DiskFormed, Makes
  <2>2. ASSUME NEW a \in Conns, NEW h \in handles[a]
        PROVE  Follows(h)'
    BY <1>0, <1>1, HandleFacts, FillingFollows DEF Makes
  <2> QED
    BY <1>0, <2>1, <2>2 DEF NamesFollow, Follows
<1>2. ASSUME NEW names, Unlinks(names)
      PROVE  DiskFormed' /\ NamesFollow'
  <2>1. DiskFormed'
    <3>1. DiskFormed
      BY FormedParts DEF FilesInv
    <3>2. ASSUME NEW n \in Names
          PROVE  disk'[n] = Files!Nothing \/ \E m \in Names : disk'[n] = disk[m]
      BY <1>2 DEF Unlinks
    <3> QED
      BY <3>1, <3>2, FilesValues DEF DiskFormed
  <2>2. ASSUME NEW a \in Conns, NEW h \in handles[a]
        PROVE  Follows(h)'
    BY <1>0, <1>2, HandleFacts, UnlinkingFollows
  <2> QED
    BY <1>0, <2>1, <2>2 DEF NamesFollow, Follows
<1> QED
  BY <1>1, <1>2

\* A step that leaves the directory, and adds no handle.
LEMMA FewerFollow ==
  ASSUME FilesInv, UNCHANGED <<disk, moved>>, \A d \in Conns : handles'[d] \subseteq handles[d]
  PROVE  DiskFormed' /\ NamesFollow'
<1>1. DiskFormed'
  BY FormedParts DEF FilesInv, DiskFormed
<1>2. ASSUME NEW a \in Conns, NEW h \in handles'[a]
      PROVE  Follows(h)'
  BY HandleFacts DEF Follows, Files!Named, Files!Target
<1> QED
  BY <1>1, <1>2 DEF NamesFollow, Follows

LEMMA FilesKept ==
  ASSUME FilesInv, Files!Next
  PROVE  FilesInv'
<1> SUFFICES ASSUME NEW c \in Conns,
                    \/ Files!Connect(c) \/ Files!Disconnect(c) \/ Files!CloseSession(c)
                    \/ Files!CloseAll(c)
                    \/ \E name \in Names : Files!Resolve(c, name) \/ Files!Rename(c, name)
                    \/ Files!Refused(c) \/ Files!Open(c) \/ Files!OpenNew(c)
                    \/ Files!OpenDirectory(c)
                    \/ \E owner \in Conns : \E h \in handles[owner] : Files!Close(c, owner, h)
                    \/ Files!Remove(c) \/ Files!Mkdir(c)
             PROVE  FilesInv'
  BY DEF Files!Next
<1>0. /\ Files!TypeOK /\ Formed /\ ConnsFormed /\ SessionsApart /\ NumbersApart
      /\ nodes \in 0..MaxNodes /\ moved \subseteq 1..MaxNodes /\ shared \in BOOLEAN
      /\ nextSession \in Nat /\ nextRaw \in Nat /\ disk \in [Names -> Files!Entries]
  BY FormedParts DEF FilesInv, Files!TypeOK
<1>1. CASE Files!Connect(c)
  <2>1. UNCHANGED <<handles, raws, nextRaw, disk, nodes, moved>> /\ shared' \in BOOLEAN
    BY <1>1 DEF Files!Connect
  <2>2. ConnsFormed' /\ SessionsApart' /\ NumbersApart' /\ DiskFormed' /\ NamesFollow'
    BY <1>1, <2>1, ConnectKeeps, FewerFollow
  <2>3. Files!TypeOK'
    BY <1>0, <1>1, <2>1, ConnectKeeps, FilesTypes DEF Files!TypeOK, ConnectionRecords, OpenFiles
  <2> QED
    BY <2>2, <2>3, FormedParts DEF FilesInv, Formed, ConnsFormed, DiskFormed
<1>2. CASE Files!CloseSession(c)
  <2>1. UNCHANGED <<nextSession, raws, nextRaw, disk, nodes, shared, moved>>
    BY <1>2 DEF Files!CloseSession
  <2>2. ConnsFormed' /\ SessionsApart' /\ NumbersApart' /\ DiskFormed' /\ NamesFollow'
    BY <1>2, <2>1, CloseSessionKeeps, FewerFollow
  <2>3. Files!TypeOK'
    BY <1>0, <1>2, <2>1, CloseSessionKeeps, FilesTypes
    DEF Files!TypeOK, ConnectionRecords, OpenFiles
  <2> QED
    BY <2>2, <2>3 DEF FilesInv, Formed, ConnsFormed, DiskFormed
<1>3. CASE Files!CloseAll(c)
  <2>1. UNCHANGED <<sessions, nextSession, handles, nextRaw, disk, nodes, shared, moved>>
    BY <1>3 DEF Files!CloseAll
  <2>2. ConnsFormed' /\ SessionsApart' /\ NumbersApart' /\ DiskFormed' /\ NamesFollow'
    BY <1>3, <2>1, CloseAllKeeps, FewerFollow
  <2>3. Files!TypeOK'
    BY <1>0, <1>3, <2>1, CloseAllKeeps, FilesTypes
    DEF Files!TypeOK, ConnectionRecords, OpenFiles
  <2> QED
    BY <2>2, <2>3 DEF FilesInv, Formed, ConnsFormed, DiskFormed
<1>4. ASSUME NEW owner \in Conns, NEW h \in handles[owner], Files!Close(c, owner, h)
      PROVE  FilesInv'
  <2>1. UNCHANGED <<filesConn, sessions, nextSession, nextRaw, disk, nodes, shared, moved>>
    BY <1>4 DEF Files!Close
  <2>2. SessionsApart' /\ NumbersApart' /\ DiskFormed' /\ NamesFollow'
    BY <1>4, <2>1, CloseKeeps, FewerFollow
  <2>3. Files!TypeOK'
    BY <1>0, <1>4, <2>1, CloseKeeps, FilesTypes
    DEF Files!TypeOK, ConnectionRecords, OpenFiles
  <2>4. ConnsFormed'
    BY <1>0, <2>1 DEF ConnsFormed, Connected
  <2> QED
    BY <2>2, <2>3, <2>4 DEF FilesInv, Formed, ConnsFormed, DiskFormed
<1>5. ASSUME Moves(c), UNCHANGED <<sessions, nextSession, handles, raws, nextRaw, disk, nodes,
                                   shared, moved>>
      PROVE  FilesInv'
  <2>1. ConnsFormed' /\ SessionsApart' /\ NumbersApart' /\ DiskFormed' /\ NamesFollow'
    BY <1>5, MovesKeep, FewerFollow
  <2>2. Files!TypeOK'
    BY <1>0, <1>5, FilesTypes DEF Files!TypeOK, ConnectionRecords, OpenFiles, Moves
  <2> QED
    BY <2>1, <2>2 DEF FilesInv, Formed, ConnsFormed, DiskFormed
<1>6. CASE Files!Disconnect(c) \/ \E name \in Names : Files!Resolve(c, name)
  BY <1>0, <1>5, <1>6, ResolveMoves
<1>7. CASE Files!Refused(c)
  <2>1. Connected(c) /\ Files!Answered(c)
    BY <1>7 DEF Files!Refused, Connected
  <2>2. Moves(c)
    BY <1>0, <2>1, AnswerMoves
  <2> QED
    BY <1>5, <1>7, <2>2 DEF Files!Refused
<1>8. CASE Files!Open(c) \/ Files!OpenNew(c) \/ Files!OpenDirectory(c)
  <2>1. OpensAny(c)
    BY <1>0, <1>8, OpenSteps
  <2>2. /\ SessionsApart' /\ NumbersApart' /\ DiskFormed' /\ NamesFollow' /\ Moves(c)
        /\ handles' \in [Conns -> SUBSET Files!Handles] /\ raws' \in [1..MaxRaw -> OpenFiles]
        /\ nextRaw' \in Nat /\ shared' \in BOOLEAN /\ nodes' \in 0..MaxNodes
        /\ disk' \in [Names -> Files!Entries] /\ UNCHANGED <<sessions, nextSession, moved>>
    BY <2>1, OpensFollow
  <2>3. ConnsFormed'
    BY <2>2, MovesKeep
  <2>4. Files!TypeOK'
    BY <1>0, <2>2, FilesTypes DEF Files!TypeOK, ConnectionRecords, OpenFiles, Moves
  <2> QED
    BY <2>2, <2>3, <2>4 DEF FilesInv, Formed, ConnsFormed, DiskFormed
<1>9. CASE Files!Remove(c) \/ Files!Mkdir(c) \/ \E name \in Names : Files!Rename(c, name)
  <2>1. ChangesDisk(c) /\ (Makes(c) \/ \E names : Unlinks(names))
    BY <1>0, <1>9, DiskSteps
  <2>2. /\ Moves(c) /\ UNCHANGED <<sessions, nextSession, handles, raws, nextRaw, shared>>
        /\ disk' \in [Names -> Files!Entries] /\ nodes' \in 0..MaxNodes
        /\ moved' \subseteq 1..MaxNodes
    BY <2>1 DEF ChangesDisk
  <2>3. ConnsFormed' /\ SessionsApart' /\ NumbersApart' /\ DiskFormed' /\ NamesFollow'
    BY <2>1, <2>2, MovesKeep, ChangesFollow
  <2>4. Files!TypeOK'
    BY <1>0, <2>2, FilesTypes DEF Files!TypeOK, ConnectionRecords, OpenFiles, Moves
  <2> QED
    BY <2>3, <2>4 DEF FilesInv, Formed, ConnsFormed, DiskFormed
<1> QED
  BY <1>1, <1>2, <1>3, <1>4, <1>6, <1>7, <1>8, <1>9

LEMMA FilesStart == Files!Init => FilesInv
<1> SUFFICES ASSUME Files!Init
             PROVE  FilesInv
  OBVIOUS
<1>1. /\ \A c \in Conns : filesConn[c] = Files!NoConnection /\ handles[c] = {}
      /\ \A n \in 1..MaxSessions : sessions[n] = NoConn
      /\ \A r \in 1..MaxRaw : raws[r] = Files!NotOpen
  BY DEF Files!Init
<1>2. \A c \in Conns : /\ filesConn[c].at = "none" /\ filesConn[c].closing = {}
                       /\ ~Connected(c)
  BY <1>1, FilesValues DEF Connected
<1>3. /\ disk \in [Names -> Files!Entries] /\ nodes \in 0..MaxNodes /\ DiskFormed
  <2>1. disk \in Served /\ nodes = Files!Used(disk)
    BY DEF Files!Init
  <2>2. /\ disk \in [Names -> Files!Entries]
        /\ Files!Used(disk) \in 0..MaxNodes
        /\ \A n \in Names : /\ disk[n].node # 0 <=> disk[n].kind \in {"file", "dir"}
                            /\ disk[n].kind = "link" => disk[n].to \in Names
    BY <2>1, FilesAssumption
  <2> QED
    BY <2>1, <2>2 DEF DiskFormed
<1>4. Files!TypeOK
  <2>1. filesConn \in [Conns -> ConnectionRecords] /\ raws \in [1..MaxRaw -> OpenFiles]
    BY FilesValues DEF Files!Init
  <2>2. /\ sessions \in [1..MaxSessions -> Conns \cup {NoConn}]
        /\ handles \in [Conns -> SUBSET Files!Handles]
    BY DEF Files!Init
  <2>3. /\ nextSession \in Nat /\ nextRaw \in Nat
        /\ moved \subseteq 1..MaxNodes /\ shared \in BOOLEAN
    <3>1. nextSession \in {0, 1} /\ nextRaw \in {0, 1} /\ moved = {} /\ shared = FALSE
      BY DEF Files!Init
    <3>2. nextSession \in Nat /\ nextRaw \in Nat
      BY <3>1
    <3>3. moved \subseteq 1..MaxNodes /\ shared \in BOOLEAN
      BY <3>1
    <3> QED
      BY <3>2, <3>3
  <2> QED
    BY <1>3, <2>1, <2>2, <2>3 DEF Files!TypeOK, ConnectionRecords, OpenFiles
<1>5. ConnsFormed /\ SessionsApart /\ NumbersApart /\ NamesFollow
  BY <1>1, <1>2 DEF ConnsFormed, SessionsApart, NumbersApart, NamesFollow
<1> QED
  BY <1>3, <1>4, <1>5, FormedParts DEF FilesInv

\* What the run checks follows from the invariant.
LEMMA FilesGoal ==
  ASSUME FilesInv
  PROVE  /\ Files!TypeOK /\ Files!NumbersTellHandlesApart
         /\ Files!AttributesHitTheirFile /\ Files!NothingStaysOpen
<1>1. Files!NumbersTellHandlesApart
  BY DEF FilesInv, SessionsApart, NumbersApart, Connected, Files!NumbersTellHandlesApart,
         Files!HandlesReachTheirFiles, Files!Reached
<1>2. Files!AttributesHitTheirFile
  BY DEF FilesInv, NamesFollow, Files!AttributesHitTheirFile
<1>3. Files!NothingStaysOpen
  <2> SUFFICES ASSUME \A c \in Conns : filesConn[c].at \in {"none", "ended"}, ~shared,
                      NEW r \in 1..MaxRaw, raws[r] # Files!NotOpen
               PROVE  FALSE
    BY DEF Files!NothingStaysOpen
  <2>1. \A c \in Conns : handles[c] = {} /\ filesConn[c].at # "closing"
    BY DEF FilesInv, SessionsApart, Connected
  <2>2. PICK c \in Conns : r \in filesConn[c].closing \/ \E h \in handles[c] : h.raw = r
    BY DEF FilesInv, NumbersApart
  <2> QED
    BY <2>1, <2>2 DEF FilesInv, NumbersApart
<1> QED
  BY <1>1, <1>2, <1>3 DEF FilesInv

\* A handle of an SFTP session finds the file it was opened for, attributes go to
\* that file unless it lost a name, and nothing stays open when its connection is
\* gone, as long as no number was given twice: for any number of connections that
\* interleave, and any change of the directory (sftp_server/).
THEOREM HandlesAreApart == Spec => []HandlesStayApart
<1>1. Init => FilesInv
  BY FilesStart DEF Init
<1>2. FilesInv /\ [Next]_all => FilesInv'
  <2>1. ASSUME FilesInv, UNCHANGED filesState
        PROVE  FilesInv'
    <3>1. Files!TypeOK'
      BY <2>1 DEF filesState, FilesInv, Files!TypeOK
    <3>2. Formed' /\ SessionsApart' /\ NumbersApart'
      BY <2>1 DEF filesState, FilesInv, Formed, SessionsApart, NumbersApart, Connected
    <3>3. NamesFollow'
      BY <2>1 DEF filesState, FilesInv, NamesFollow, Files!Named, Files!Target
    <3> QED
      BY <3>1, <3>2, <3>3 DEF FilesInv
  <2> QED
    BY <2>1, PartSteps, FilesKept
<1>3. FilesInv => HandlesStayApart
  BY FilesGoal DEF HandlesStayApart
<1> QED
  BY <1>1, <1>2, <1>3, PTL DEF Spec

-----------------------------------------------------------------------------
(* McpRouter                                                               *)

Distinct(s) == \A i, j \in 1..Len(s) : s[i] = s[j] => i = j
Has(s, r) == \E i \in 1..Len(s) : s[i] = r

\* A request waits in one place: the ingress, the adapter or the queue of a lane.
InOnePlace ==
  /\ Distinct(ingress) /\ \A l \in LaneIds : Distinct(lanes[l].queue)
  /\ \A r \in Router!Requests : Has(ingress, r) =>
       routing.req # r /\ \A l \in LaneIds : ~Has(lanes[l].queue, r)
  /\ \A l \in LaneIds : ~Has(lanes[l].queue, routing.req)
  /\ \A r \in Router!Requests : \A k, l \in LaneIds :
       Has(lanes[k].queue, r) /\ Has(lanes[l].queue, r) => k = l

\* A request that waits has no answer and did not run.
Pending(r) == Has(ingress, r) \/ routing.req = r \/ \E l \in LaneIds : Has(lanes[l].queue, r)
PendingWaits == \A r \in Router!Requests : Pending(r) => routerTold[r] = "waiting" /\ r \notin ran

\* What was not accepted did not run, and what a lane runs did.
RunOrRefused ==
  /\ \A r \in Router!Requests : routerTold[r] \in {"new", "rejected"} => r \notin ran
  /\ \A l \in LaneIds : lanes[l].phase = "running" => lanes[l].cur \in ran

\* The control lane never stops; the others are of workspaces.
LanesFormed ==
  /\ \A l \in LaneIds : ~Router!Live(l) => lanes[l] = Router!Free
  /\ Router!Live(ControlLane) /\ lanes[ControlLane].ws = Control
  /\ \A l \in LaneIds \ {ControlLane} : Router!Live(l) => lanes[l].ws \in Workspaces
  /\ routing.req # 0 => routing.lane \in LaneIds

\* The table has the only lane of a workspace whose lane was not given up; what
\* says that a lane is over is of other workspaces.
Intact(w) == w \in Router!Open /\ w \notin givenUp
TableHasLanes ==
  /\ \A w \in Workspaces : Intact(w) =>
       \A l \in LaneIds : Router!Live(l) /\ lanes[l].ws = w => table[w] = l
  /\ \A w \in Workspaces : Has(stopped, w) => ~Intact(w)
  /\ \A w \in Workspaces : Has(closed, w) => w \notin Router!Open

RouterInv ==
  Router!TypeOK /\ InOnePlace /\ PendingWaits /\ RunOrRefused /\ LanesFormed /\ TableHasLanes

LEMMA TailHas ==
  ASSUME NEW S, NEW s \in Seq(S), s # <<>>, Distinct(s)
  PROVE  /\ Head(s) \in S /\ Has(s, Head(s)) /\ Tail(s) \in Seq(S)
         /\ Len(Tail(s)) = Len(s) - 1 /\ Len(s) \in Nat \ {0}
         /\ Distinct(Tail(s)) /\ ~Has(Tail(s), Head(s))
         /\ \A r : Has(Tail(s), r) => Has(s, r)
         /\ \A r : Has(s, r) => r = Head(s) \/ Has(Tail(s), r)
<1>1. /\ Len(s) \in Nat /\ Len(s) # 0 /\ Head(s) = s[1] /\ s[1] \in S
      /\ Tail(s) \in Seq(S) /\ Len(Tail(s)) = Len(s) - 1
      /\ \A i \in 1..(Len(s) - 1) : Tail(s)[i] = s[i + 1]
  OBVIOUS
<1>2. Distinct(Tail(s))
  <2>1. ASSUME NEW i \in 1..(Len(s) - 1), NEW j \in 1..(Len(s) - 1), Tail(s)[i] = Tail(s)[j]
        PROVE  i = j
    <3>1. /\ s[i + 1] = s[j + 1] /\ i + 1 \in 1..Len(s) /\ j + 1 \in 1..Len(s)
      BY <1>1, <2>1
    <3>2. i + 1 = j + 1
      BY <3>1 DEF Distinct
    <3> QED
      BY <3>2
  <2> QED
    BY <1>1, <2>1 DEF Distinct
<1>3. ~Has(Tail(s), Head(s))
  <2> SUFFICES ASSUME NEW i \in 1..(Len(s) - 1), Tail(s)[i] = s[1]
               PROVE  FALSE
    BY <1>1 DEF Has
  <2>1. s[i + 1] = s[1] /\ i + 1 \in 1..Len(s) /\ 1 \in 1..Len(s)
    BY <1>1
  <2>2. i + 1 = 1
    BY <2>1 DEF Distinct
  <2> QED
    BY <2>2
<1>4. ASSUME NEW r, Has(Tail(s), r)
      PROVE  Has(s, r)
  <2>1. PICK i \in 1..(Len(s) - 1) : Tail(s)[i] = r
    BY <1>1, <1>4 DEF Has
  <2>2. i + 1 \in 1..Len(s) /\ s[i + 1] = r
    BY <1>1, <2>1
  <2> QED
    BY <2>2 DEF Has
<1>5. ASSUME NEW r, Has(s, r)
      PROVE  r = Head(s) \/ Has(Tail(s), r)
  <2>1. PICK i \in 1..Len(s) : s[i] = r
    BY <1>5 DEF Has
  <2>2. CASE i = 1
    BY <1>1, <2>1, <2>2
  <2>3. CASE i # 1
    <3>1. i - 1 \in 1..(Len(s) - 1) /\ Tail(s)[i - 1] = s[(i - 1) + 1] /\ (i - 1) + 1 = i
      BY <1>1, <2>1, <2>3
    <3>2. Tail(s)[i - 1] = r
      BY <2>1, <3>1
    <3> QED
      BY <1>1, <3>1, <3>2 DEF Has
  <2> QED
    BY <2>2, <2>3
<1>6. Has(s, Head(s))
  BY <1>1 DEF Has
<1> QED
  BY <1>1, <1>2, <1>3, <1>4, <1>5, <1>6

\* The same without distinct elements.
LEMMA TailHasLess ==
  ASSUME NEW S, NEW s \in Seq(S), s # <<>>
  PROVE  /\ Head(s) \in S /\ Has(s, Head(s)) /\ Tail(s) \in Seq(S)
         /\ Len(Tail(s)) = Len(s) - 1 /\ Len(s) \in Nat \ {0}
         /\ \A r : Has(Tail(s), r) => Has(s, r)
<1>1. /\ Len(s) \in Nat /\ Len(s) # 0 /\ Head(s) = s[1] /\ s[1] \in S
      /\ Tail(s) \in Seq(S) /\ Len(Tail(s)) = Len(s) - 1
      /\ \A i \in 1..(Len(s) - 1) : Tail(s)[i] = s[i + 1]
  OBVIOUS
<1>2. ASSUME NEW r, Has(Tail(s), r)
      PROVE  Has(s, r)
  <2>1. PICK i \in 1..(Len(s) - 1) : Tail(s)[i] = r
    BY <1>1, <1>2 DEF Has
  <2>2. i + 1 \in 1..Len(s) /\ s[i + 1] = r
    BY <1>1, <2>1
  <2> QED
    BY <2>2 DEF Has
<1>3. Has(s, Head(s))
  BY <1>1 DEF Has
<1> QED
  BY <1>1, <1>2, <1>3

LEMMA AppendHas ==
  ASSUME NEW S, NEW s \in Seq(S), NEW e \in S
  PROVE  /\ Append(s, e) \in Seq(S) /\ Len(Append(s, e)) = Len(s) + 1 /\ Len(s) \in Nat
         /\ \A r : Has(Append(s, e), r) <=> Has(s, r) \/ r = e
         /\ Distinct(s) /\ ~Has(s, e) => Distinct(Append(s, e))
<1>1. /\ Append(s, e) \in Seq(S) /\ Len(Append(s, e)) = Len(s) + 1 /\ Len(s) \in Nat
      /\ \A i \in 1..Len(s) : Append(s, e)[i] = s[i]
      /\ Append(s, e)[Len(s) + 1] = e
  OBVIOUS
<1> HIDE DEF Distinct, Has
<1> DEFINE t == Append(s, e)
<1> HIDE DEF t
<1>2. /\ Len(t) = Len(s) + 1 /\ Len(s) \in Nat
      /\ \A i \in 1..Len(s) : t[i] = s[i]
      /\ t[Len(s) + 1] = e
  BY <1>1 DEF t
<1>3. ASSUME NEW r, Has(t, r)
      PROVE  Has(s, r) \/ r = e
  <2>1. PICK i \in 1..(Len(s) + 1) : t[i] = r
    BY <1>2, <1>3 DEF Has
  <2>2. i \in 1..Len(s) \/ i = Len(s) + 1
    BY <1>2
  <2> QED
    BY <1>2, <2>1, <2>2 DEF Has
<1>4. ASSUME NEW r, Has(s, r) \/ r = e
      PROVE  Has(t, r)
  <2>1. CASE r = e
    BY <1>2, <2>1 DEF Has
  <2>2. CASE Has(s, r)
    <3>1. PICK i \in 1..Len(s) : s[i] = r
      BY <2>2 DEF Has
    <3>2. i \in 1..Len(t) /\ t[i] = r
      BY <1>2, <3>1
    <3> QED
      BY <3>2 DEF Has
  <2> QED
    BY <1>4, <2>1, <2>2
<1>5. ASSUME Distinct(s), ~Has(s, e)
      PROVE  Distinct(t)
  <2>1. \A i \in 1..Len(s) : t[i] # e
    BY <1>2, <1>5 DEF Has
  <2>2. ASSUME NEW i \in 1..Len(t), NEW j \in 1..Len(t), t[i] = t[j]
        PROVE  i = j
    <3>1. /\ i \in 1..Len(s) \/ i = Len(s) + 1
          /\ j \in 1..Len(s) \/ j = Len(s) + 1
      BY <1>2
    <3>2. CASE i \in 1..Len(s) /\ j \in 1..Len(s)
      BY <1>2, <1>5, <2>2, <3>2 DEF Distinct
    <3> QED
      BY <1>2, <2>1, <2>2, <3>1, <3>2
  <2> QED
    BY <2>2 DEF Distinct
<1> QED
  BY <1>1, <1>3, <1>4, <1>5 DEF t

LEMMA NothingHas == (\A r : ~Has(<<>>, r)) /\ Distinct(<<>>)
BY DEF Has, Distinct

LaneRecords ==
  [phase : {"free", "recv", "running", "checking"}, ws : Router!Routes,
   queue : Seq(Router!Requests), cur : Router!Requests \cup {0}]

LEMMA RouterValues ==
  /\ 0 \notin Router!Requests /\ Router!NoRequest = 0 /\ Router!NotRouting.req = 0
  /\ Router!NotRouting \in [req : Router!Requests \cup {0}, lane : LaneIds \cup {NoLane}]
  /\ Router!Free \in LaneRecords /\ Router!Free.phase = "free" /\ Router!Free.ws = Control
  /\ Router!Free.queue = <<>> /\ Control \notin Workspaces
<1>1. 0 \notin Router!Requests /\ <<>> \in Seq(Router!Requests)
  BY RouterAssumption DEF Router!Requests
<1> QED
  BY <1>1, RouterAssumption
  DEF Router!NoRequest, Router!NotRouting, Router!Free, LaneRecords, Router!Routes

LEMMA RouterTypes ==
  RouterInv => /\ lanes \in [LaneIds -> LaneRecords]
               /\ \A l \in LaneIds : /\ lanes[l] \in LaneRecords
                                     /\ lanes[l].queue \in Seq(Router!Requests)
               /\ ingress \in Seq(Router!Requests) /\ ran \subseteq Router!Requests
               /\ routerTold \in [Router!Requests -> {"new", "waiting", "rejected", "result"}]
               /\ routing.req \in Router!Requests \cup {0}
               /\ to \in [Router!Requests -> Router!Routes]
               /\ table \in [Workspaces -> LaneIds \cup {NoLane}]
               /\ stopped \in Seq(Workspaces) /\ closed \in Seq(Workspaces)
               /\ givenUp \subseteq Workspaces
BY RouterValues DEF RouterInv, Router!TypeOK, LaneRecords

\* What becomes of one lane.
LEMMA LaneChanges ==
  ASSUME lanes \in [LaneIds -> LaneRecords], NEW l \in LaneIds, NEW lane \in LaneRecords,
         lanes' = [lanes EXCEPT ![l] = lane]
  PROVE  /\ lanes' \in [LaneIds -> LaneRecords] /\ lanes'[l] = lane
         /\ \A k \in LaneIds : k # l => lanes'[k] = lanes[k]
OBVIOUS

RequestsInv == InOnePlace /\ PendingWaits /\ RunOrRefused

LEMMA CallKeeps ==
  ASSUME RouterInv, NEW r \in Router!Requests, NEW dest, Router!Call(r, dest)
  PROVE  RequestsInv'
<1>0. /\ InOnePlace /\ PendingWaits /\ RunOrRefused
  BY DEF RouterInv
<1>1. /\ routerTold[r] = "new" /\ ingress' = Append(ingress, r)
      /\ routerTold' = [routerTold EXCEPT ![r] = "waiting"]
      /\ UNCHANGED <<ran, routing, lanes>>
  BY DEF Router!Call, Router!Unsent, Router!laneVars
<1>2. ~Pending(r) /\ r \notin ran /\ r # 0
  BY <1>0, <1>1, RouterValues DEF PendingWaits, RunOrRefused
<1>3. /\ ~Has(ingress, r) /\ routing.req # r /\ \A l \in LaneIds : ~Has(lanes[l].queue, r)
  BY <1>2 DEF Pending
<1>4. /\ \A q : Has(ingress', q) <=> Has(ingress, q) \/ q = r
      /\ Distinct(ingress')
  <2>1. ingress \in Seq(Router!Requests) /\ Distinct(ingress)
    BY <1>0, RouterTypes DEF InOnePlace
  <2> QED
    BY <1>1, <1>3, <2>1, AppendHas
<1>5. InOnePlace'
  BY <1>0, <1>1, <1>3, <1>4 DEF InOnePlace
<1>6. /\ routerTold'[r] = "waiting"
      /\ \A q \in Router!Requests : q # r => routerTold'[q] = routerTold[q]
  BY <1>1, RouterTypes
<1>7. PendingWaits'
  <2>1. ASSUME NEW q \in Router!Requests, Pending(q)'
        PROVE  q = r \/ Pending(q)
    BY <1>1, <1>4, <2>1 DEF Pending
  <2> QED
    BY <1>0, <1>1, <1>2, <1>6, <2>1 DEF PendingWaits
<1>8. RunOrRefused'
  BY <1>0, <1>1, <1>2, <1>6 DEF RunOrRefused
<1> QED
  BY <1>5, <1>7, <1>8 DEF RequestsInv

LEMMA TimeoutKeeps ==
  ASSUME RouterInv, NEW r \in Router!Requests, Router!CallTimesOut(r)
  PROVE  RequestsInv'
<1>0. /\ InOnePlace /\ PendingWaits /\ RunOrRefused
  BY DEF RouterInv
<1>1. /\ routerTold[r] = "new"
      /\ routerTold' = [routerTold EXCEPT ![r] = "rejected"]
      /\ UNCHANGED <<ran, routing, lanes, ingress>>
  BY DEF Router!CallTimesOut, Router!Unsent, Router!laneVars
<1>2. ~Pending(r) /\ r \notin ran
  BY <1>0, <1>1 DEF PendingWaits, RunOrRefused
<1>3. \A q \in Router!Requests : q # r => routerTold'[q] = routerTold[q]
  BY <1>1, RouterTypes
<1>4. InOnePlace'
  BY <1>0, <1>1 DEF InOnePlace
<1>5. PendingWaits'
  BY <1>0, <1>1, <1>2, <1>3 DEF PendingWaits, Pending
<1>6. RunOrRefused'
  BY <1>0, <1>1, <1>2, <1>3 DEF RunOrRefused
<1> QED
  BY <1>4, <1>5, <1>6 DEF RequestsInv

\* The adapter takes the first command of the ingress.
LEMMA RoutedKeeps ==
  ASSUME RouterInv, ingress # <<>>, routing.req = 0,
         ingress' = Tail(ingress), routing'.req = Head(ingress),
         \A l \in LaneIds : /\ lanes'[l].queue = lanes[l].queue
                            /\ lanes'[l].phase = "running" => lanes'[l] = lanes[l],
         UNCHANGED <<routerTold, ran>>
  PROVE  RequestsInv'
<1> DEFINE r == Head(ingress)
<1>0. /\ InOnePlace /\ PendingWaits /\ RunOrRefused
  BY DEF RouterInv
<1>1. /\ r \in Router!Requests /\ Has(ingress, r) /\ Distinct(ingress') /\ ~Has(ingress', r)
      /\ \A q : Has(ingress', q) => Has(ingress, q)
  <2>1. ingress \in Seq(Router!Requests) /\ Distinct(ingress)
    BY <1>0, RouterTypes DEF InOnePlace
  <2> QED
    BY <2>1, TailHas
<1>2. routing'.req = r
  OBVIOUS
<1> HIDE DEF r
<1>3. \A l \in LaneIds : ~Has(lanes[l].queue, r)
  BY <1>0, <1>1 DEF InOnePlace
<1>4. InOnePlace'
  BY <1>0, <1>1, <1>2, <1>3 DEF InOnePlace
<1>5. PendingWaits'
  <2>1. ASSUME NEW q \in Router!Requests, Pending(q)'
        PROVE  Pending(q)
    BY <1>1, <1>2, <2>1 DEF Pending
  <2> QED
    BY <1>0, <2>1 DEF PendingWaits
<1>6. RunOrRefused'
  BY <1>0 DEF RunOrRefused
<1> QED
  BY <1>4, <1>5, <1>6 DEF RequestsInv

LEMMA EnqueueKeeps ==
  ASSUME RouterInv, Router!Enqueue
  PROVE  RequestsInv'
<1> DEFINE r == routing.req
           l == routing.lane
           lane == [lanes[l] EXCEPT !.queue = Append(lanes[l].queue, r)]
<1>0. /\ InOnePlace /\ PendingWaits /\ RunOrRefused
  BY DEF RouterInv
<1>1. r \in Router!Requests /\ l \in LaneIds /\ lanes[l] \in LaneRecords
      /\ lanes[l].queue \in Seq(Router!Requests) /\ lanes \in [LaneIds -> LaneRecords]
  BY RouterTypes, RouterValues DEF Router!Enqueue, RouterInv, LanesFormed
<1>2. \A k \in LaneIds : ~Has(lanes[k].queue, r)
  BY <1>0 DEF InOnePlace
<1>3. /\ Append(lanes[l].queue, r) \in Seq(Router!Requests)
      /\ Distinct(Append(lanes[l].queue, r))
      /\ \A q : Has(Append(lanes[l].queue, r), q) <=> Has(lanes[l].queue, q) \/ q = r
  <2>1. Distinct(lanes[l].queue) /\ ~Has(lanes[l].queue, r)
    BY <1>0, <1>1, <1>2 DEF InOnePlace
  <2> HIDE DEF r, l
  <2> QED
    BY <1>1, <2>1, AppendHas
<1>4. /\ lane \in LaneRecords /\ lane.queue = Append(lanes[l].queue, r)
      /\ lane.phase = lanes[l].phase /\ lane.cur = lanes[l].cur
  BY <1>1, <1>3 DEF LaneRecords
<1>5. /\ lanes' = [lanes EXCEPT ![l] = lane] /\ routing' = Router!NotRouting
      /\ UNCHANGED <<routerTold, ran, ingress>>
  BY <1>1 DEF Router!Enqueue, Router!requestVars
<1>6. r # 0 /\ routing'.req = 0 /\ ~Has(ingress, r)
  BY <1>0, <1>1, <1>5, RouterValues DEF InOnePlace
<1> HIDE DEF lane, l
<1>7. /\ lanes'[l] = lane /\ \A k \in LaneIds : k # l => lanes'[k] = lanes[k]
  BY <1>1, <1>4, <1>5, LaneChanges
<1>8. \A k \in LaneIds : /\ Distinct(lanes'[k].queue)
                         /\ \A q : Has(lanes'[k].queue, q) <=>
                                     Has(lanes[k].queue, q) \/ (k = l /\ q = r)
                         /\ lanes'[k].phase = lanes[k].phase /\ lanes'[k].cur = lanes[k].cur
  BY <1>0, <1>3, <1>4, <1>7 DEF InOnePlace
<1> HIDE DEF r
<1>9. \A k \in LaneIds : ~Has(lanes[k].queue, 0)
  <2>1. ASSUME NEW k \in LaneIds, Has(lanes[k].queue, 0)
        PROVE  FALSE
    BY <2>1, RouterTypes, RouterValues DEF Has
  <2> QED
    BY <2>1
<1>10. InOnePlace'
  <2>1. \A q \in Router!Requests : Has(ingress', q) =>
          routing'.req # q /\ \A k \in LaneIds : ~Has(lanes'[k].queue, q)
    BY <1>0, <1>5, <1>6, <1>8, RouterValues DEF InOnePlace
  <2>2. \A k \in LaneIds : ~Has(lanes'[k].queue, routing'.req)
    BY <1>6, <1>8, <1>9
  <2>3. \A q \in Router!Requests : \A j, k \in LaneIds :
          Has(lanes'[j].queue, q) /\ Has(lanes'[k].queue, q) => j = k
    BY <1>0, <1>2, <1>8 DEF InOnePlace
  <2> QED
    BY <1>0, <1>5, <1>8, <2>1, <2>2, <2>3 DEF InOnePlace
<1>11. PendingWaits'
  <2>1. ASSUME NEW q \in Router!Requests, Pending(q)'
        PROVE  Pending(q)
    BY <1>1, <1>5, <1>6, <1>8, <2>1, RouterValues DEF Pending, r
  <2> QED
    BY <1>0, <1>5, <2>1 DEF PendingWaits
<1>12. RunOrRefused'
  BY <1>0, <1>5, <1>8 DEF RunOrRefused
<1> QED
  BY <1>10, <1>11, <1>12 DEF RequestsInv

LEMMA RefuseKeeps ==
  ASSUME RouterInv, Router!Refuse
  PROVE  RequestsInv'
<1> DEFINE r == routing.req
<1>0. /\ InOnePlace /\ PendingWaits /\ RunOrRefused /\ r \in Router!Requests
  BY RouterTypes, RouterValues DEF RouterInv, Router!Refuse
<1>1. /\ routerTold' = [routerTold EXCEPT ![r] = "rejected"] /\ routing' = Router!NotRouting
      /\ UNCHANGED <<ran, ingress, lanes>>
  BY DEF Router!Refuse, Router!laneVars
<1>2. r \notin ran /\ ~Has(ingress, r) /\ \A l \in LaneIds : ~Has(lanes[l].queue, r)
  BY <1>0 DEF PendingWaits, Pending, InOnePlace
<1>3. r # 0 /\ routing'.req = 0
  BY <1>0, <1>1, RouterValues
<1>4. /\ \A q \in Router!Requests : q # r => routerTold'[q] = routerTold[q]
  BY <1>1, RouterTypes
<1> HIDE DEF r
<1>5. InOnePlace'
  <2>1. \A k \in LaneIds : ~Has(lanes[k].queue, 0)
    <3>1. ASSUME NEW k \in LaneIds, Has(lanes[k].queue, 0)
          PROVE  FALSE
      BY <3>1, RouterTypes, RouterValues DEF Has
    <3> QED
      BY <3>1
  <2> QED
    BY <1>0, <1>1, <1>3, <2>1, RouterValues DEF InOnePlace
<1>6. PendingWaits'
  <2>1. ASSUME NEW q \in Router!Requests, Pending(q)'
        PROVE  Pending(q) /\ q # r
    BY <1>1, <1>2, <1>3, <2>1, RouterValues DEF Pending
  <2> QED
    BY <1>0, <1>1, <1>4, <2>1 DEF PendingWaits
<1>7. RunOrRefused'
  BY <1>0, <1>1, <1>2, <1>4 DEF RunOrRefused
<1> QED
  BY <1>5, <1>6, <1>7 DEF RequestsInv

LEMMA ReceiveKeeps ==
  ASSUME RouterInv, NEW l \in LaneIds, Router!Receive(l)
  PROVE  RequestsInv'
<1> DEFINE queue1 == lanes[l].queue
           r == Head(queue1)
           lane == [lanes[l] EXCEPT !.phase = "running", !.queue = Tail(queue1), !.cur = r]
<1>0. /\ InOnePlace /\ PendingWaits /\ RunOrRefused
      /\ lanes[l] \in LaneRecords /\ lanes \in [LaneIds -> LaneRecords]
  BY RouterTypes DEF RouterInv
<1>1. /\ r \in Router!Requests /\ Has(queue1, r) /\ Tail(queue1) \in Seq(Router!Requests)
      /\ Distinct(Tail(queue1)) /\ ~Has(Tail(queue1), r)
      /\ \A q : Has(Tail(queue1), q) => Has(queue1, q)
  <2>1. queue1 \in Seq(Router!Requests) /\ queue1 # <<>> /\ Distinct(queue1)
    BY <1>0, RouterTypes DEF InOnePlace, Router!Receive
  <2> HIDE DEF queue1
  <2> QED
    BY <2>1, TailHas
<1>2. /\ lane \in LaneRecords /\ lane.queue = Tail(queue1) /\ lane.phase = "running"
      /\ lane.cur = r
  BY <1>0, <1>1 DEF LaneRecords
<1>3. /\ lanes' = [lanes EXCEPT ![l] = lane] /\ ran' = ran \cup {r}
      /\ UNCHANGED <<routerTold, ingress, routing>>
  BY <1>0 DEF Router!Receive
<1>4. Pending(r) /\ routerTold[r] = "waiting"
  BY <1>0, <1>1 DEF PendingWaits, Pending
<1>5. ~Has(ingress, r) /\ routing.req # r /\ \A k \in LaneIds : k # l => ~Has(lanes[k].queue, r)
  BY <1>0, <1>1 DEF InOnePlace
<1> HIDE DEF lane, r
<1>6. /\ lanes'[l] = lane /\ \A k \in LaneIds : k # l => lanes'[k] = lanes[k]
  BY <1>0, <1>2, <1>3, LaneChanges
<1>7. \A k \in LaneIds : /\ Distinct(lanes'[k].queue)
                         /\ \A q : Has(lanes'[k].queue, q) => Has(lanes[k].queue, q)
                         /\ ~Has(lanes'[k].queue, r)
  BY <1>0, <1>1, <1>2, <1>5, <1>6 DEF InOnePlace
<1> HIDE DEF queue1
<1>8. InOnePlace'
  BY <1>0, <1>3, <1>7 DEF InOnePlace
<1>9. PendingWaits'
  <2>1. ASSUME NEW q \in Router!Requests, Pending(q)'
        PROVE  Pending(q) /\ q # r
    BY <1>3, <1>5, <1>7, <2>1 DEF Pending
  <2> QED
    BY <1>0, <1>3, <2>1 DEF PendingWaits
<1>10. RunOrRefused'
  BY <1>0, <1>2, <1>3, <1>4, <1>6 DEF RunOrRefused
<1> QED
  BY <1>8, <1>9, <1>10 DEF RequestsInv

\* A lane step that leaves the queues.
LEMMA QuietLaneKeeps ==
  ASSUME RouterInv, UNCHANGED <<routerTold, ran, ingress, routing>>,
         \A l \in LaneIds : /\ lanes'[l].queue = lanes[l].queue
                            /\ lanes'[l].phase = "running" => lanes'[l] = lanes[l]
  PROVE  RequestsInv'
<1>0. /\ InOnePlace /\ PendingWaits /\ RunOrRefused
  BY DEF RouterInv
<1>1. InOnePlace'
  BY <1>0 DEF InOnePlace
<1>2. PendingWaits'
  BY <1>0 DEF PendingWaits, Pending
<1>3. RunOrRefused'
  BY <1>0 DEF RunOrRefused
<1> QED
  BY <1>1, <1>2, <1>3 DEF RequestsInv

LEMMA RespondKeeps ==
  ASSUME RouterInv, NEW l \in LaneIds, Router!Respond(l)
  PROVE  RequestsInv'
<1> DEFINE lane == [lanes[l] EXCEPT !.phase = "checking"]
           r == lanes[l].cur
<1>0. /\ InOnePlace /\ PendingWaits /\ RunOrRefused
      /\ lanes[l] \in LaneRecords /\ lanes \in [LaneIds -> LaneRecords]
  BY RouterTypes DEF RouterInv
<1>1. /\ lane \in LaneRecords /\ lane.queue = lanes[l].queue /\ lane.phase = "checking"
  BY <1>0 DEF LaneRecords
<1>2. /\ lanes' = [lanes EXCEPT ![l] = lane] /\ routerTold' = [routerTold EXCEPT ![r] = "result"]
      /\ UNCHANGED <<ran, ingress, routing>>
  BY <1>0 DEF Router!Respond
<1>3. r \in ran /\ r \in Router!Requests
  BY <1>0, RouterTypes DEF RunOrRefused, Router!Respond
<1>4. /\ routerTold'[r] = "result"
      /\ \A q \in Router!Requests : q # r => routerTold'[q] = routerTold[q]
  BY <1>2, <1>3, RouterTypes
<1> HIDE DEF lane, r
<1>5. /\ lanes'[l] = lane /\ \A k \in LaneIds : k # l => lanes'[k] = lanes[k]
  BY <1>0, <1>1, <1>2, LaneChanges
<1>6. \A k \in LaneIds : /\ lanes'[k].queue = lanes[k].queue
                         /\ lanes'[k].phase = "running" => lanes'[k] = lanes[k]
  BY <1>1, <1>5
<1>7. InOnePlace'
  BY <1>0, <1>2, <1>6 DEF InOnePlace
<1>8. PendingWaits'
  <2>1. ASSUME NEW q \in Router!Requests, Pending(q)'
        PROVE  Pending(q)
    BY <1>2, <1>6, <2>1 DEF Pending
  <2>2. ASSUME NEW q \in Router!Requests, Pending(q)
        PROVE  q # r
    BY <1>0, <1>3, <2>2 DEF PendingWaits
  <2> QED
    BY <1>0, <1>2, <1>4, <2>1, <2>2 DEF PendingWaits
<1>9. RunOrRefused'
  BY <1>0, <1>2, <1>4, <1>6 DEF RunOrRefused
<1> QED
  BY <1>7, <1>8, <1>9 DEF RequestsInv

LEMMA CheckFailsKeeps ==
  ASSUME RouterInv, NEW l \in LaneIds, Router!CheckFails(l)
  PROVE  RequestsInv'
<1>0. /\ InOnePlace /\ PendingWaits /\ RunOrRefused
      /\ lanes[l] \in LaneRecords /\ lanes \in [LaneIds -> LaneRecords]
  BY RouterTypes DEF RouterInv
<1>1. /\ lanes' = [lanes EXCEPT ![l] = Router!Free] /\ UNCHANGED <<ran, ingress, routing>>
      /\ \A r \in Router!Requests :
           routerTold'[r] = IF Has(lanes[l].queue, r) THEN "rejected" ELSE routerTold[r]
  BY DEF Router!CheckFails, Has
<1>2. /\ lanes'[l] = Router!Free /\ \A k \in LaneIds : k # l => lanes'[k] = lanes[k]
  BY <1>0, <1>1, RouterValues, LaneChanges
<1>3. \A k \in LaneIds : /\ Distinct(lanes'[k].queue)
                         /\ \A q : Has(lanes'[k].queue, q) => k # l /\ Has(lanes[k].queue, q)
                         /\ lanes'[k].phase = "running" => lanes'[k] = lanes[k]
  BY <1>0, <1>2, RouterValues, NothingHas DEF InOnePlace
<1>4. InOnePlace'
  BY <1>0, <1>1, <1>3 DEF InOnePlace
<1>5. PendingWaits'
  <2>1. ASSUME NEW q \in Router!Requests, Pending(q)'
        PROVE  Pending(q) /\ ~Has(lanes[l].queue, q)
    <3>1. CASE Has(ingress, q) \/ routing.req = q
      BY <1>0, <3>1 DEF InOnePlace, Pending
    <3>2. CASE \E k \in LaneIds : k # l /\ Has(lanes[k].queue, q)
      BY <1>0, <3>2 DEF InOnePlace, Pending
    <3> QED
      BY <1>1, <1>3, <2>1, <3>1, <3>2 DEF Pending
  <2> QED
    BY <1>0, <1>1, <2>1 DEF PendingWaits
<1>6. RunOrRefused'
  <2>1. ASSUME NEW q \in Router!Requests, routerTold'[q] \in {"new", "rejected"}
        PROVE  q \notin ran
    BY <1>0, <1>1, <2>1 DEF RunOrRefused, PendingWaits, Pending
  <2> QED
    BY <1>0, <1>1, <1>3, <2>1 DEF RunOrRefused
<1> QED
  BY <1>4, <1>5, <1>6 DEF RequestsInv

LanesInv == LanesFormed /\ TableHasLanes

LEMMA LaneFacts ==
  RouterInv => /\ LanesFormed /\ TableHasLanes
               /\ \A l \in LaneIds : Router!Live(l) <=> lanes[l].phase # "free"
               /\ ControlLane \in LaneIds /\ NoLane \notin LaneIds /\ Control \notin Workspaces
               /\ \A w \in Workspaces : w \in Router!Open <=> runtime[w] # "closed"
BY RouterAssumption DEF RouterInv, Router!Live, Router!Open

\* A step that ends no lane and starts none.
LEMMA SameLanes ==
  ASSUME RouterInv, UNCHANGED <<table, stopped, closed, runtime, givenUp>>,
         \A l \in LaneIds : /\ lanes'[l].phase = "free" <=> lanes[l].phase = "free"
                            /\ lanes'[l].ws = lanes[l].ws
                            /\ lanes[l].phase = "free" => lanes'[l] = lanes[l],
         routing'.req # 0 => routing'.lane \in LaneIds
  PROVE  LanesInv'
<1>1. LanesFormed'
  <2>1. \A l \in LaneIds : lanes'[l].phase = "free" => lanes'[l] = Router!Free
    BY LaneFacts DEF LanesFormed
  <2>2. lanes'[ControlLane].phase # "free" /\ lanes'[ControlLane].ws = Control
    BY LaneFacts DEF LanesFormed
  <2>3. \A l \in LaneIds \ {ControlLane} : lanes'[l].phase # "free" => lanes'[l].ws \in Workspaces
    BY LaneFacts DEF LanesFormed
  <2> QED
    BY <2>1, <2>2, <2>3 DEF LanesFormed, Router!Live, Router!Free
<1>2. TableHasLanes'
  <2>1. \A w \in Workspaces : Intact(w)' <=> Intact(w)
    BY DEF Intact, Router!Open
  <2>2. \A w \in Workspaces : Intact(w) =>
          \A l \in LaneIds : lanes'[l].phase # "free" /\ lanes'[l].ws = w => table[w] = l
    BY LaneFacts DEF TableHasLanes
  <2> QED
    BY <2>1, <2>2, LaneFacts DEF TableHasLanes, Router!Live, Intact, Router!Open
<1> QED
  BY <1>1, <1>2 DEF LanesInv

\* A lane ends: its workspace has given it up or is closed.
LEMMA EndsLane ==
  ASSUME RouterInv, NEW l \in LaneIds, l # ControlLane, Router!Live(l),
         lanes' = [lanes EXCEPT ![l] = Router!Free],
         stopped' = Append(stopped, lanes[l].ws),
         givenUp \subseteq givenUp', UNCHANGED <<routing, table, closed, runtime>>,
         lanes[l].ws \in Workspaces =>
           runtime'[lanes[l].ws] = "closed" \/ lanes[l].ws \in givenUp'
  PROVE  LanesInv' /\ lanes[l].ws \in Workspaces
<1>1. lanes[l].ws \in Workspaces
  BY LaneFacts DEF LanesFormed
<1>2. /\ lanes'[l] = Router!Free /\ \A k \in LaneIds : k # l => lanes'[k] = lanes[k]
  BY RouterTypes, RouterValues, LaneChanges
<1>3. LanesFormed'
  <2>1. \A k \in LaneIds : lanes'[k].phase = "free" => lanes'[k] = Router!Free
    BY <1>2, LaneFacts DEF LanesFormed
  <2>2. lanes'[ControlLane].phase # "free" /\ lanes'[ControlLane].ws = Control
    BY <1>2, LaneFacts DEF LanesFormed
  <2>3. \A k \in LaneIds \ {ControlLane} : lanes'[k].phase # "free" => lanes'[k].ws \in Workspaces
    BY <1>2, LaneFacts, RouterValues DEF LanesFormed
  <2>4. routing'.req # 0 => routing'.lane \in LaneIds
    BY LaneFacts DEF LanesFormed
  <2> QED
    BY <2>1, <2>2, <2>3, <2>4 DEF LanesFormed, Router!Live, Router!Free
<1>4. \A w \in Workspaces : /\ Intact(w)' => Intact(w)
                            /\ w \in Router!Open' <=> w \in Router!Open
  BY DEF Intact, Router!Open
<1>5. \A w : Has(stopped', w) <=> Has(stopped, w) \/ w = lanes[l].ws
  BY <1>1, RouterTypes, AppendHas
<1>6. \A w \in Workspaces : Intact(w)' =>
        \A k \in LaneIds : lanes'[k].phase # "free" /\ lanes'[k].ws = w => table[w] = k
  BY <1>2, <1>4, LaneFacts, RouterValues DEF TableHasLanes
<1>7. \A w \in Workspaces : Has(stopped', w) => ~Intact(w)'
  <2>1. ASSUME NEW w \in Workspaces, w = lanes[l].ws
        PROVE  ~Intact(w)'
    BY <2>1 DEF Intact, Router!Open
  <2> QED
    BY <1>4, <1>5, <2>1, LaneFacts DEF TableHasLanes
<1>8. \A w \in Workspaces : Has(closed', w) => w \notin Router!Open'
  BY <1>4, LaneFacts DEF TableHasLanes
<1>9. TableHasLanes'
  BY <1>6, <1>7, <1>8 DEF TableHasLanes, Router!Live
<1> QED
  BY <1>1, <1>3, <1>9 DEF LanesInv

LEMMA DrainedIs ==
  ASSUME RouterInv, NEW w \in Workspaces
  PROVE  /\ Router!Drained[w] = IF Has(stopped, w) THEN NoLane ELSE table[w]
         /\ Router!Drained[w] \in LaneIds \cup {NoLane}
         /\ Router!Drained \in [Workspaces -> LaneIds \cup {NoLane}]
<1>1. \A v : v \in Router!Stops <=> Has(stopped, v)
  BY DEF Router!Stops, Has
<1> QED
  BY <1>1, RouterTypes DEF Router!Drained

\* The adapter drains the events of lanes and forgets some.
LEMMA TableStepKeeps ==
  ASSUME RouterInv, UNCHANGED <<lanes, runtime>>, stopped' = <<>>, givenUp \subseteq givenUp',
         \A w : Has(closed', w) => Has(closed, w),
         \A w \in Workspaces : Intact(w)' => table'[w] = table[w] \/ table[w] = NoLane,
         routing'.req # 0 => routing'.lane \in LaneIds
  PROVE  LanesInv'
<1>1. LanesFormed'
  BY LaneFacts DEF LanesFormed, Router!Live, Router!Free
<1>2. \A w \in Workspaces : /\ Intact(w)' => Intact(w)
                            /\ w \in Router!Open' <=> w \in Router!Open
  BY DEF Intact, Router!Open
<1>3. \A w \in Workspaces : Intact(w)' =>
        \A k \in LaneIds : lanes[k].phase # "free" /\ lanes[k].ws = w => table'[w] = k
  BY <1>2, LaneFacts DEF TableHasLanes
<1>4. \A w \in Workspaces : Has(closed', w) => w \notin Router!Open'
  BY <1>2, LaneFacts DEF TableHasLanes
<1>5. TableHasLanes'
  BY <1>3, <1>4, NothingHas DEF TableHasLanes, Router!Live
<1> QED
  BY <1>1, <1>5 DEF LanesInv

LEMMA FreshLaneIsLane == Router!FreshLane \in LaneIds
<1>1. CASE \A l \in LaneIds : Router!Live(l)
  <2>1. \E l \in LaneIds : \A k \in LaneIds : ~Router!Live(k) => ~Router!Live(l)
    BY <1>1, RouterAssumption
  <2> QED
    BY <2>1 DEF Router!FreshLane
<1>2. CASE \E l \in LaneIds : ~Router!Live(l)
  <2>1. \E l \in LaneIds : \A k \in LaneIds : ~Router!Live(k) => ~Router!Live(l)
    BY <1>2
  <2> QED
    BY <2>1 DEF Router!FreshLane
<1> QED
  BY <1>1, <1>2

LEMMA RouteNewLanes ==
  ASSUME RouterInv, Router!RouteNew
  PROVE  /\ LanesInv' /\ lanes' \in [LaneIds -> LaneRecords]
         /\ \A k \in LaneIds : /\ lanes'[k].queue = lanes[k].queue
                               /\ lanes'[k].phase = "running" => lanes'[k] = lanes[k]
         /\ routing'.req = Head(ingress) /\ routing'.lane \in LaneIds
         /\ table' \in [Workspaces -> LaneIds \cup {NoLane}]
<1> DEFINE r == Head(ingress)
           l == Router!FreshLane
           w0 == to[r]
           lane == [Router!Free EXCEPT !.phase = "recv", !.ws = w0]
<1>1. /\ w0 \in Workspaces /\ ~Router!Reusable(Router!Drained[w0]) /\ ~Router!Live(l)
      /\ lanes' = [lanes EXCEPT ![l] = lane] /\ table' = [Router!Drained EXCEPT ![w0] = l]
      /\ routing' = [req |-> r, lane |-> l] /\ stopped' = <<>>
      /\ UNCHANGED <<givenUp, closed, runtime>>
  BY DEF Router!RouteNew, Router!eventVars, Router!appVars
<1>2. l \in LaneIds
  BY FreshLaneIsLane
<1> HIDE DEF l
<1>3. /\ lane \in LaneRecords /\ lane.queue = <<>> /\ lane.phase = "recv" /\ lane.ws = w0
  <2>1. ASSUME NEW start \in LaneRecords, NEW w \in Workspaces
        PROVE  LET new1 == [start EXCEPT !.phase = "recv", !.ws = w] IN
               /\ new1 \in LaneRecords /\ new1.queue = start.queue
               /\ new1.phase = "recv" /\ new1.ws = w
    BY DEF LaneRecords, Router!Routes
  <2> HIDE DEF w0
  <2> QED
    BY <1>1, <2>1, RouterValues
<1> HIDE DEF lane, w0, r
<1>4. /\ lanes' \in [LaneIds -> LaneRecords]
      /\ lanes'[l] = lane /\ \A k \in LaneIds : k # l => lanes'[k] = lanes[k]
  BY <1>1, <1>2, <1>3, RouterTypes, LaneChanges
<1>5. lanes[l] = Router!Free /\ l # ControlLane
  BY <1>1, <1>2, LaneFacts DEF LanesFormed
<1>6. \A k \in LaneIds : /\ lanes'[k].queue = lanes[k].queue
                         /\ lanes'[k].phase = "running" => lanes'[k] = lanes[k]
  BY <1>3, <1>4, <1>5, RouterValues
<1>7. /\ table' \in [Workspaces -> LaneIds \cup {NoLane}] /\ table'[w0] = l
      /\ \A w \in Workspaces : w # w0 => table'[w] = Router!Drained[w]
  BY <1>1, <1>2, DrainedIs
<1>8. LanesFormed'
  <2>1. \A k \in LaneIds : lanes'[k].phase = "free" => lanes'[k] = Router!Free
    BY <1>3, <1>4, LaneFacts DEF LanesFormed
  <2>2. lanes'[ControlLane].phase # "free" /\ lanes'[ControlLane].ws = Control
    BY <1>4, <1>5, LaneFacts DEF LanesFormed
  <2>3. \A k \in LaneIds \ {ControlLane} : lanes'[k].phase # "free" => lanes'[k].ws \in Workspaces
    BY <1>1, <1>3, <1>4, LaneFacts DEF LanesFormed
  <2>4. routing'.lane \in LaneIds
    BY <1>1, <1>2
  <2> QED
    BY <2>1, <2>2, <2>3, <2>4 DEF LanesFormed, Router!Live, Router!Free
<1>9. \A w \in Workspaces : /\ Intact(w)' <=> Intact(w)
                            /\ w \in Router!Open' <=> w \in Router!Open
  BY <1>1 DEF Intact, Router!Open
<1>10. ASSUME NEW w \in Workspaces, Intact(w), NEW k \in LaneIds,
              lanes'[k].phase # "free", lanes'[k].ws = w
       PROVE  table'[w] = k
  <2>1. Router!Drained[w] = table[w]
    BY <1>10, DrainedIs, LaneFacts DEF TableHasLanes
  <2>2. CASE k = l
    BY <1>3, <1>4, <1>7, <1>10, <2>2
  <2>3. CASE k # l
    <3>1. Router!Live(k) /\ lanes[k].ws = w /\ table[w] = k
      BY <1>4, <1>10, <2>3, LaneFacts DEF TableHasLanes
    <3>2. w # w0
      BY <1>1, <2>1, <3>1, LaneFacts DEF Router!Reusable
    <3> QED
      BY <1>7, <2>1, <3>1, <3>2
  <2> QED
    BY <2>2, <2>3
<1>11. TableHasLanes'
  <2>1. \A w \in Workspaces : Has(closed', w) => w \notin Router!Open'
    BY <1>1, <1>9, LaneFacts DEF TableHasLanes
  <2>2. \A w \in Workspaces : ~Has(stopped', w)
    BY <1>1, NothingHas
  <2> QED
    BY <1>9, <1>10, <2>1, <2>2 DEF TableHasLanes, Router!Live
<1> QED
  BY <1>1, <1>2, <1>4, <1>6, <1>7, <1>8, <1>11 DEF LanesInv, r

AskTypes ==
  /\ to \in [Router!Requests -> Router!Routes]
  /\ routerTold \in [Router!Requests -> {"new", "waiting", "rejected", "result"}]
  /\ ran \subseteq Router!Requests
AdapterTypes ==
  /\ ingress \in Seq(Router!Requests) /\ Len(ingress) <= IngressCapacity
  /\ routing \in [req : Router!Requests \cup {0}, lane : LaneIds \cup {NoLane}]
LaneTypes ==
  /\ lanes \in [LaneIds -> LaneRecords]
  /\ \A l \in LaneIds : Len(lanes[l].queue) <= LaneCapacity
TableTypes ==
  /\ table \in [Workspaces -> LaneIds \cup {NoLane}] /\ idle \in [Workspaces -> BOOLEAN]
  /\ stopped \in Seq(Workspaces) /\ givenUp \subseteq Workspaces
EventTypes ==
  /\ closed \in Seq(Workspaces) /\ Len(closed) <= EventCapacity /\ lagged \in BOOLEAN
  /\ runtime \in [Workspaces -> {"opening", "up", "gone", "closed"}] /\ idles \in 0..MaxIdle

LEMMA RouterTypeParts ==
  Router!TypeOK <=> AskTypes /\ AdapterTypes /\ LaneTypes /\ TableTypes /\ EventTypes
BY RouterValues
DEF Router!TypeOK, AskTypes, AdapterTypes, LaneTypes, TableTypes, EventTypes, LaneRecords

LEMMA RouterInvParts ==
  RouterInv <=> /\ AskTypes /\ AdapterTypes /\ LaneTypes /\ TableTypes /\ EventTypes
                /\ RequestsInv /\ LanesInv
BY RouterTypeParts DEF RouterInv, RequestsInv, LanesInv

LEMMA RouterInvNext ==
  ASSUME AskTypes', AdapterTypes', LaneTypes', TableTypes', EventTypes', RequestsInv', LanesInv'
  PROVE  RouterInv'
<1>1. Router!TypeOK'
  BY RouterValues
  DEF Router!TypeOK, AskTypes, AdapterTypes, LaneTypes, TableTypes, EventTypes, LaneRecords
<1> QED
  BY <1>1 DEF RouterInv, RequestsInv, LanesInv

\* The parts of the state that a step leaves.
LEMMA RouterFrames ==
  ASSUME RouterInv
  PROVE  /\ UNCHANGED Router!requestVars => AskTypes'
         /\ UNCHANGED <<ingress, routing>> => AdapterTypes'
         /\ UNCHANGED lanes => LaneTypes'
         /\ UNCHANGED <<table, idle, stopped, givenUp>> => TableTypes'
         /\ UNCHANGED <<closed, lagged, runtime, idles>> => EventTypes'
<1>1. AskTypes /\ AdapterTypes /\ LaneTypes /\ TableTypes /\ EventTypes
  BY RouterInvParts
<1> QED
  BY <1>1 DEF AskTypes, AdapterTypes, LaneTypes, TableTypes, EventTypes, Router!requestVars

LEMMA CallHolds ==
  ASSUME RouterInv, NEW r \in Router!Requests,
         Router!CallTimesOut(r) \/ \E dest \in Router!Routes : Router!Call(r, dest)
  PROVE  RouterInv'
<1>0. AskTypes /\ AdapterTypes
  BY RouterInvParts
<1>1. /\ UNCHANGED <<ran, routing, lanes, table, idle, stopped, givenUp, closed, lagged, runtime,
                     idles>>
  BY DEF Router!CallTimesOut, Router!Call, Router!laneVars, Router!eventVars, Router!appVars
<1>2. LaneTypes' /\ TableTypes' /\ EventTypes'
  BY <1>1, RouterFrames
<1>3. RequestsInv'
  BY CallKeeps, TimeoutKeeps
<1>4. LanesInv'
  <2>1. routing'.req # 0 => routing'.lane \in LaneIds
    BY <1>1, LaneFacts DEF LanesFormed
  <2> QED
    BY <1>1, <2>1, SameLanes
<1>5. AskTypes'
  BY <1>0, <1>1 DEF AskTypes, Router!CallTimesOut, Router!Call
<1>6. AdapterTypes'
  <2>1. CASE Router!CallTimesOut(r)
    BY <1>0, <2>1 DEF AdapterTypes, Router!CallTimesOut
  <2>2. ASSUME NEW dest, Router!Call(r, dest)
        PROVE  AdapterTypes'
    <3>1. ingress' = Append(ingress, r) /\ Len(ingress) < IngressCapacity
      BY <2>2 DEF Router!Call
    <3>2. /\ ingress' \in Seq(Router!Requests) /\ Len(ingress') = Len(ingress) + 1
          /\ Len(ingress) \in Nat
      BY <1>0, <3>1, AppendHas DEF AdapterTypes
    <3> QED
      BY <1>0, <1>1, <3>1, <3>2, RouterAssumption DEF AdapterTypes
  <2> QED
    BY <2>1, <2>2
<1> QED
  BY <1>2, <1>3, <1>4, <1>5, <1>6, RouterInvNext

\* The adapter takes a command and finds its lane.
LEMMA RouteHolds ==
  ASSUME RouterInv, Router!Route
  PROVE  RouterInv'
<1>0. AskTypes /\ AdapterTypes /\ LaneTypes /\ TableTypes
  BY RouterInvParts
<1>1. /\ ingress # <<>> /\ routing.req = 0 /\ ingress' = Tail(ingress)
      /\ UNCHANGED <<Router!requestVars, givenUp, closed, lagged, runtime, idles>>
      /\ stopped' = <<>>
  BY RouterValues
  DEF Router!Route, Router!RouteControl, Router!RouteKnown, Router!RouteNew, Router!Waiting,
      Router!eventVars, Router!appVars
<1>2. AskTypes' /\ EventTypes'
  BY <1>1, RouterFrames
<1>3. /\ ingress' \in Seq(Router!Requests) /\ Len(ingress') = Len(ingress) - 1
      /\ Head(ingress) \in Router!Requests /\ Len(ingress) \in Nat
  BY <1>0, <1>1, TailHasLess DEF AdapterTypes
<1>4. routing' = [req |-> routing'.req, lane |-> routing'.lane] /\ routing'.req = Head(ingress)
  BY DEF Router!Route, Router!RouteControl, Router!RouteKnown, Router!RouteNew
<1>5. CASE Router!RouteNew
  <2>1. LanesInv' /\ routing'.lane \in LaneIds
    BY <1>5, RouteNewLanes
  <2>2. RequestsInv'
    BY <1>1, <1>4, <1>5, RouteNewLanes, RoutedKeeps DEF Router!requestVars
  <2>3. AdapterTypes'
    <3>1. Len(ingress') <= IngressCapacity
      BY <1>0, <1>3, RouterAssumption DEF AdapterTypes
    <3> QED
      BY <1>3, <1>4, <2>1, <3>1 DEF AdapterTypes
  <2>4. LaneTypes'
    BY <1>0, <1>5, RouteNewLanes DEF LaneTypes
  <2>5. TableTypes'
    <3>1. idle' \in [Workspaces -> BOOLEAN]
      BY <1>0, <1>5 DEF TableTypes, Router!RouteNew
    <3>2. table' \in [Workspaces -> LaneIds \cup {NoLane}]
      BY <1>5, RouteNewLanes
    <3> QED
      BY <1>0, <1>1, <3>1, <3>2 DEF TableTypes
  <2> QED
    BY <1>2, <2>1, <2>2, <2>3, <2>4, <2>5, RouterInvNext
<1>6. CASE Router!RouteControl \/ Router!RouteKnown
  <2>1. UNCHANGED <<lanes, idle>> /\ table' = Router!Drained
    BY <1>6 DEF Router!RouteControl, Router!RouteKnown
  <2>2. routing'.lane \in LaneIds
    <3>1. CASE Router!RouteControl
      BY <3>1, RouterAssumption DEF Router!RouteControl
    <3>2. CASE Router!RouteKnown
      <4>1. /\ to[Head(ingress)] \in Workspaces
            /\ routing'.lane = Router!Drained[to[Head(ingress)]] /\ routing'.lane # NoLane
        BY <3>2 DEF Router!RouteKnown, Router!Reusable
      <4> QED
        BY <4>1, DrainedIs
    <3> QED
      BY <1>6, <3>1, <3>2
  <2>3. RequestsInv'
    BY <1>1, <1>4, <2>1, RoutedKeeps DEF Router!requestVars
  <2>4. LanesInv'
    <3>1. \A w \in Workspaces : Intact(w)' => table'[w] = table[w]
      BY <1>1, <2>1, DrainedIs, LaneFacts DEF TableHasLanes, Intact, Router!Open
    <3> QED
      BY <1>1, <2>1, <2>2, <3>1, TableStepKeeps
  <2>5. AdapterTypes'
    <3>1. Len(ingress') <= IngressCapacity
      BY <1>0, <1>3, RouterAssumption DEF AdapterTypes
    <3> QED
      BY <1>3, <1>4, <2>2, <3>1 DEF AdapterTypes
  <2>6. LaneTypes'
    BY <2>1, RouterFrames
  <2>7. TableTypes'
    <3>1. table' \in [Workspaces -> LaneIds \cup {NoLane}]
      BY <2>1, RouterTypes DEF Router!Drained
    <3> QED
      BY <1>0, <1>1, <2>1, <3>1 DEF TableTypes
  <2> QED
    BY <1>2, <2>3, <2>4, <2>5, <2>6, <2>7, RouterInvNext
<1> QED
  BY <1>5, <1>6 DEF Router!Route

LEMMA EnqueueHolds ==
  ASSUME RouterInv, Router!Enqueue
  PROVE  RouterInv'
<1> DEFINE l == routing.lane
           queue1 == Append(lanes[l].queue, routing.req)
           lane == [lanes[l] EXCEPT !.queue = queue1]
<1>0. /\ AskTypes /\ AdapterTypes /\ LaneTypes /\ TableTypes
      /\ l \in LaneIds /\ lanes[l] \in LaneRecords /\ lanes \in [LaneIds -> LaneRecords]
      /\ routing.req \in Router!Requests /\ lanes[l].queue \in Seq(Router!Requests)
  BY RouterInvParts, RouterTypes, RouterValues DEF Router!Enqueue, RouterInv, LanesFormed
<1>1. /\ lanes' = [lanes EXCEPT ![l] = lane] /\ routing' = Router!NotRouting
      /\ UNCHANGED <<Router!requestVars, ingress, table, stopped, givenUp, closed, lagged, runtime,
                     idles>>
      /\ Len(lanes[l].queue) < LaneCapacity /\ idle' \in [Workspaces -> BOOLEAN]
      /\ lanes[l].phase # "free"
  BY <1>0 DEF Router!Enqueue, Router!eventVars, Router!appVars, Router!Live, TableTypes
<1>2. queue1 \in Seq(Router!Requests) /\ Len(queue1) <= LaneCapacity
  <2>1. /\ queue1 \in Seq(Router!Requests) /\ Len(queue1) = Len(lanes[l].queue) + 1
        /\ Len(lanes[l].queue) \in Nat
    BY <1>0, AppendHas
  <2> QED
    BY <1>1, <2>1, RouterAssumption
<1> HIDE DEF queue1, l
<1>3. /\ lane \in LaneRecords /\ lane.queue = queue1 /\ lane.phase = lanes[l].phase
      /\ lane.ws = lanes[l].ws
  BY <1>0, <1>2 DEF LaneRecords
<1> HIDE DEF lane
<1>4. /\ lanes' \in [LaneIds -> LaneRecords] /\ lanes'[l] = lane
      /\ \A k \in LaneIds : k # l => lanes'[k] = lanes[k]
  BY <1>0, <1>1, <1>3, LaneChanges
<1>5. LaneTypes'
  BY <1>0, <1>2, <1>3, <1>4 DEF LaneTypes
<1>6. AskTypes' /\ EventTypes'
  BY <1>1, RouterFrames
<1>7. TableTypes'
  BY <1>0, <1>1 DEF TableTypes
<1>8. AdapterTypes' /\ routing'.req = 0
  BY <1>0, <1>1, RouterValues DEF AdapterTypes
<1>9. LanesInv'
  <2>1. \A k \in LaneIds : /\ lanes'[k].phase = "free" <=> lanes[k].phase = "free"
                           /\ lanes'[k].ws = lanes[k].ws
                           /\ lanes[k].phase = "free" => lanes'[k] = lanes[k]
    BY <1>1, <1>3, <1>4
  <2> QED
    BY <1>1, <1>8, <2>1, SameLanes
<1> QED
  BY <1>5, <1>6, <1>7, <1>8, <1>9, EnqueueKeeps, RouterInvNext

LEMMA RefuseHolds ==
  ASSUME RouterInv, Router!Refuse
  PROVE  RouterInv'
<1>0. AskTypes /\ AdapterTypes
  BY RouterInvParts
<1>1. /\ routing' = Router!NotRouting /\ routing'.req = 0
      /\ UNCHANGED <<to, ran, ingress, lanes, table, idle, stopped, givenUp, closed, lagged,
                     runtime, idles>>
  BY RouterValues DEF Router!Refuse, Router!laneVars, Router!eventVars, Router!appVars
<1>2. LaneTypes' /\ TableTypes' /\ EventTypes'
  BY <1>1, RouterFrames
<1>3. AskTypes'
  BY <1>0, <1>1 DEF AskTypes, Router!Refuse
<1>4. AdapterTypes'
  BY <1>0, <1>1, RouterValues DEF AdapterTypes
<1>5. LanesInv'
  BY <1>1, SameLanes
<1> QED
  BY <1>2, <1>3, <1>4, <1>5, RefuseKeeps, RouterInvNext

\* A step of the adapter that handles an event or the tick.
LEMMA TableHolds ==
  ASSUME RouterInv, Router!Events \/ Router!Tick
  PROVE  RouterInv'
<1>0. TableTypes /\ EventTypes
  BY RouterInvParts
<1>1. /\ UNCHANGED <<Router!requestVars, ingress, routing, lanes, idle, runtime, idles>>
      /\ stopped' = <<>>
  BY DEF Router!Events, Router!Tick, Router!ReceiveClosed, Router!ReceiveLagged,
         Router!eventVars, Router!appVars
<1>2. AskTypes' /\ AdapterTypes' /\ LaneTypes'
  BY <1>1, RouterFrames
<1>3. RequestsInv'
  BY <1>1, QuietLaneKeeps DEF Router!requestVars
<1>4. routing'.req # 0 => routing'.lane \in LaneIds
  BY <1>1, LaneFacts DEF LanesFormed
<1>5. \A w \in Workspaces : /\ Router!Drained[w] \in LaneIds \cup {NoLane}
                            /\ Intact(w) => Router!Drained[w] = table[w]
  BY DrainedIs, LaneFacts DEF TableHasLanes
<1>6. CASE Router!ReceiveClosed
  <2>1. /\ table' = [Router!Drained EXCEPT ![Head(closed)] = NoLane]
        /\ closed' = Tail(closed) /\ UNCHANGED <<givenUp, lagged>> /\ closed # <<>>
    BY <1>6 DEF Router!ReceiveClosed
  <2>2. /\ Head(closed) \in Workspaces /\ Has(closed, Head(closed))
        /\ closed' \in Seq(Workspaces) /\ Len(closed') = Len(closed) - 1 /\ Len(closed) \in Nat
        /\ \A w : Has(closed', w) => Has(closed, w)
    BY <1>0, <2>1, TailHasLess DEF EventTypes
  <2>3. /\ table' \in [Workspaces -> LaneIds \cup {NoLane}]
        /\ \A w \in Workspaces : w # Head(closed) => table'[w] = Router!Drained[w]
    BY <2>1, <2>2, DrainedIs
  <2>4. EventTypes'
    <3>1. Len(closed') <= EventCapacity
      BY <1>0, <2>2, RouterAssumption DEF EventTypes
    <3> QED
      BY <1>0, <1>1, <2>1, <2>2, <3>1 DEF EventTypes
  <2>5. TableTypes'
    BY <1>0, <1>1, <2>1, <2>3 DEF TableTypes
  <2>6. LanesInv'
    <3>1. \A w \in Workspaces : Intact(w)' => Intact(w) /\ w # Head(closed)
      BY <1>1, <2>1, <2>2, LaneFacts DEF TableHasLanes, Intact, Router!Open
    <3>2. \A w \in Workspaces : Intact(w)' => table'[w] = table[w]
      BY <1>5, <2>3, <3>1
    <3> QED
      BY <1>1, <1>4, <2>1, <2>2, <3>2, TableStepKeeps
  <2> QED
    BY <1>2, <1>3, <2>4, <2>5, <2>6, RouterInvNext
<1>7. CASE Router!ReceiveLagged
  <2>1. /\ table' = [w \in Workspaces |-> IF w \in Router!Open THEN Router!Drained[w] ELSE NoLane]
        /\ UNCHANGED <<givenUp, closed>> /\ lagged' = FALSE
    BY <1>7 DEF Router!ReceiveLagged
  <2>2. EventTypes'
    BY <1>0, <1>1, <2>1 DEF EventTypes
  <2>3. TableTypes'
    BY <1>0, <1>1, <1>5, <2>1 DEF TableTypes
  <2>4. LanesInv'
    <3>1. \A w \in Workspaces : Intact(w)' => Intact(w) /\ w \in Router!Open
      BY <1>1, <2>1 DEF Intact, Router!Open
    <3>2. \A w \in Workspaces : Intact(w)' => table'[w] = table[w]
      BY <1>5, <2>1, <3>1
    <3> QED
      BY <1>1, <1>4, <2>1, <3>2, TableStepKeeps
  <2> QED
    BY <1>2, <1>3, <2>2, <2>3, <2>4, RouterInvNext
<1>8. CASE Router!Tick
  <2>1. /\ table' = [w \in Workspaces |-> IF idle[w] THEN NoLane ELSE Router!Drained[w]]
        /\ givenUp' = givenUp \cup {w \in Router!Open : idle[w] /\ Router!Drained[w] # NoLane}
        /\ UNCHANGED <<closed, lagged>>
    BY <1>8 DEF Router!Tick, Router!eventVars
  <2>2. EventTypes'
    BY <1>0, <1>1, <2>1 DEF EventTypes
  <2>3. TableTypes'
    <3>1. givenUp' \subseteq Workspaces
      BY <1>0, <2>1 DEF TableTypes, Router!Open
    <3>2. table' \in [Workspaces -> LaneIds \cup {NoLane}]
      BY <1>5, <2>1
    <3> QED
      BY <1>0, <1>1, <3>1, <3>2 DEF TableTypes
  <2>4. LanesInv'
    <3>1. ASSUME NEW w \in Workspaces, Intact(w)'
          PROVE  table'[w] = table[w] \/ table[w] = NoLane
      <4>1. Intact(w) /\ (idle[w] => Router!Drained[w] = NoLane)
        BY <1>1, <2>1, <3>1 DEF Intact, Router!Open
      <4>2. Router!Drained[w] = table[w]
        BY <1>5, <4>1
      <4> QED
        BY <2>1, <4>1, <4>2
    <3> QED
      BY <1>1, <1>4, <2>1, <3>1, TableStepKeeps
  <2> QED
    BY <1>2, <1>3, <2>2, <2>3, <2>4, RouterInvNext
<1> QED
  BY <1>6, <1>7, <1>8 DEF Router!Events

LEMMA TimeHolds ==
  ASSUME RouterInv, NEW w \in Workspaces, Router!TimePasses(w)
  PROVE  RouterInv'
<1>0. TableTypes /\ EventTypes
  BY RouterInvParts
<1>1. UNCHANGED <<Router!requestVars, ingress, routing, lanes, table, stopped, givenUp, closed,
                  lagged, runtime>>
  BY DEF Router!TimePasses, Router!eventVars
<1>2. AskTypes' /\ AdapterTypes' /\ LaneTypes'
  BY <1>1, RouterFrames
<1>3. TableTypes'
  BY <1>0, <1>1 DEF TableTypes, Router!TimePasses
<1>4. EventTypes'
  <2>1. idles' \in 0..MaxIdle
    BY <1>0, RouterAssumption DEF EventTypes, Router!TimePasses
  <2> QED
    BY <1>0, <1>1, <2>1 DEF EventTypes
<1>5. RequestsInv'
  BY <1>1, QuietLaneKeeps DEF Router!requestVars
<1>6. LanesInv'
  <2>1. routing'.req # 0 => routing'.lane \in LaneIds
    BY <1>1, LaneFacts DEF LanesFormed
  <2> QED
    BY <1>1, <2>1, SameLanes
<1> QED
  BY <1>2, <1>3, <1>4, <1>5, <1>6, RouterInvNext

\* What the application does to workspaces.
LEMMA RuntimeHolds ==
  ASSUME RouterInv, NEW w \in Workspaces,
         Router!RuntimeStarts(w) \/ Router!RuntimeEnds(w) \/ Router!CloseWorkspace(w)
  PROVE  RouterInv'
<1>0. EventTypes /\ TableTypes
  BY RouterInvParts
<1>1. UNCHANGED <<Router!requestVars, ingress, routing, lanes, table, idle, stopped, givenUp,
        idles>>
  BY DEF Router!RuntimeStarts, Router!RuntimeEnds, Router!CloseWorkspace, Router!laneVars
<1>2. AskTypes' /\ AdapterTypes' /\ LaneTypes' /\ TableTypes'
  BY <1>1, RouterFrames
<1>3. RequestsInv'
  BY <1>1, QuietLaneKeeps DEF Router!requestVars
<1>4. /\ runtime' \in [Workspaces -> {"opening", "up", "gone", "closed"}]
      /\ \A v \in Workspaces : v # w => runtime'[v] = runtime[v]
  BY <1>0 DEF EventTypes, Router!RuntimeStarts, Router!RuntimeEnds, Router!CloseWorkspace
<1>5. /\ closed' \in Seq(Workspaces) /\ Len(closed') <= EventCapacity /\ lagged' \in BOOLEAN
      /\ \A v \in Workspaces : Has(closed', v) => Has(closed, v) \/ runtime'[v] = "closed"
  <2>1. CASE Router!RuntimeStarts(w) \/ Router!RuntimeEnds(w)
    BY <1>0, <2>1 DEF EventTypes, Router!RuntimeStarts, Router!RuntimeEnds, Router!eventVars
  <2>2. CASE Router!CloseWorkspace(w)
    <3> DEFINE full == Len(closed) = EventCapacity
               kept == IF full THEN Tail(closed) ELSE closed
    <3>1. closed' = Append(kept, w) /\ lagged' = (lagged \/ full) /\ runtime'[w] = "closed"
      BY <1>0, <2>2 DEF EventTypes, Router!CloseWorkspace
    <3>2. /\ kept \in Seq(Workspaces) /\ Len(kept) \in Nat /\ Len(kept) < EventCapacity
          /\ \A v : Has(kept, v) => Has(closed, v)
      <4>1. CASE full
        <5>1. closed \in Seq(Workspaces) /\ closed # <<>>
          BY <1>0, <4>1, RouterAssumption DEF EventTypes
        <5>2. /\ Tail(closed) \in Seq(Workspaces) /\ Len(Tail(closed)) = Len(closed) - 1
              /\ Len(closed) \in Nat \ {0} /\ \A v : Has(Tail(closed), v) => Has(closed, v)
          BY <5>1, TailHasLess
        <5> QED
          BY <4>1, <5>2
      <4>2. CASE ~full
        BY <1>0, <4>2, RouterAssumption DEF EventTypes
      <4> QED
        BY <4>1, <4>2
    <3> HIDE DEF kept
    <3>3. /\ closed' \in Seq(Workspaces) /\ Len(closed') = Len(kept) + 1
          /\ \A v : Has(closed', v) <=> Has(kept, v) \/ v = w
      BY <3>1, <3>2, AppendHas
    <3>4. Len(closed') <= EventCapacity
      BY <3>2, <3>3, RouterAssumption
    <3>5. lagged' \in BOOLEAN
      BY <1>0, <3>1 DEF EventTypes
    <3> QED
      BY <3>1, <3>2, <3>3, <3>4, <3>5
  <2> QED
    BY <2>1, <2>2
<1>6. EventTypes'
  BY <1>0, <1>1, <1>4, <1>5 DEF EventTypes
<1>7. \A v \in Workspaces : v \in Router!Open' => v \in Router!Open
  BY <1>0, <1>4
  DEF Router!Open, Router!RuntimeStarts, Router!RuntimeEnds, Router!CloseWorkspace, EventTypes
<1>8. LanesInv'
  <2>1. LanesFormed'
    BY <1>1, LaneFacts DEF LanesFormed, Router!Live, Router!Free
  <2>2. \A v \in Workspaces : Intact(v)' => Intact(v)
    BY <1>1, <1>7 DEF Intact
  <2>3. \A v \in Workspaces : Has(closed', v) => v \notin Router!Open'
    BY <1>5, <1>7, LaneFacts DEF TableHasLanes, Router!Open
  <2>4. /\ \A v \in Workspaces : Intact(v)' =>
             \A l \in LaneIds : lanes'[l].phase # "free" /\ lanes'[l].ws = v => table'[v] = l
        /\ \A v \in Workspaces : Has(stopped', v) => ~Intact(v)'
    BY <1>1, <2>2, LaneFacts DEF TableHasLanes
  <2>5. TableHasLanes'
    BY <2>3, <2>4 DEF TableHasLanes, Router!Live
  <2> QED
    BY <2>1, <2>5 DEF LanesInv
<1> QED
  BY <1>2, <1>3, <1>6, <1>8, RouterInvNext

\* A lane step that goes on.
LEMMA WorkHolds ==
  ASSUME RouterInv, NEW l \in LaneIds,
         Router!Receive(l) \/ Router!Respond(l) \/ Router!CheckPasses(l)
  PROVE  RouterInv'
<1>0. /\ AskTypes /\ AdapterTypes /\ LaneTypes
      /\ lanes[l] \in LaneRecords /\ lanes \in [LaneIds -> LaneRecords]
      /\ lanes[l].queue \in Seq(Router!Requests) /\ lanes[l].phase # "free"
  BY RouterInvParts, RouterTypes DEF Router!Receive, Router!Respond, Router!CheckPasses
<1>1. UNCHANGED <<to, ingress, routing, table, idle, stopped, givenUp, closed, lagged, runtime,
                  idles>>
  BY DEF Router!Receive, Router!Respond, Router!CheckPasses, Router!requestVars,
         Router!eventVars, Router!appVars
<1>2. AdapterTypes' /\ TableTypes' /\ EventTypes'
  BY <1>1, RouterFrames
<1>3. PICK lane \in LaneRecords :
        /\ lanes' = [lanes EXCEPT ![l] = lane] /\ lane.ws = lanes[l].ws /\ lane.phase # "free"
        /\ Len(lane.queue) <= LaneCapacity
        /\ Router!CheckPasses(l) => lane.queue = lanes[l].queue /\ lane.phase = "recv"
  <2>1. CASE Router!Receive(l)
    <3> DEFINE queue1 == lanes[l].queue
               lane == [lanes[l] EXCEPT !.phase = "running", !.queue = Tail(queue1),
                                        !.cur = Head(queue1)]
    <3>1. /\ Head(queue1) \in Router!Requests /\ Tail(queue1) \in Seq(Router!Requests)
          /\ Len(Tail(queue1)) = Len(queue1) - 1 /\ Len(queue1) \in Nat
      BY <1>0, <2>1, TailHasLess DEF Router!Receive
    <3>2. Len(Tail(queue1)) <= LaneCapacity
      BY <1>0, <3>1, RouterAssumption DEF LaneTypes
    <3>3. /\ lane \in LaneRecords /\ lane.ws = lanes[l].ws /\ lane.phase = "running"
          /\ lane.queue = Tail(queue1)
      BY <1>0, <3>1 DEF LaneRecords
    <3>4. lanes' = [lanes EXCEPT ![l] = lane] /\ ~Router!CheckPasses(l)
      BY <1>0, <2>1 DEF Router!Receive, Router!CheckPasses
    <3> HIDE DEF lane, queue1
    <3> QED
      BY <3>2, <3>3, <3>4
  <2>2. CASE Router!Respond(l)
    <3> DEFINE lane == [lanes[l] EXCEPT !.phase = "checking"]
    <3>1. /\ lane \in LaneRecords /\ lane.ws = lanes[l].ws /\ lane.phase = "checking"
          /\ lane.queue = lanes[l].queue
      BY <1>0 DEF LaneRecords
    <3>2. lanes' = [lanes EXCEPT ![l] = lane] /\ ~Router!CheckPasses(l)
      BY <1>0, <2>2 DEF Router!Respond, Router!CheckPasses
    <3> HIDE DEF lane
    <3> QED
      BY <1>0, <3>1, <3>2 DEF LaneTypes
  <2>3. CASE Router!CheckPasses(l)
    <3> DEFINE lane == [lanes[l] EXCEPT !.phase = "recv", !.cur = 0]
    <3>1. /\ lane \in LaneRecords /\ lane.ws = lanes[l].ws /\ lane.phase = "recv"
          /\ lane.queue = lanes[l].queue
      BY <1>0 DEF LaneRecords
    <3>2. lanes' = [lanes EXCEPT ![l] = lane]
      BY <1>0, <2>3, RouterValues DEF Router!CheckPasses
    <3> HIDE DEF lane
    <3> QED
      BY <1>0, <3>1, <3>2 DEF LaneTypes
  <2> QED
    BY <2>1, <2>2, <2>3
<1>4. /\ lanes' \in [LaneIds -> LaneRecords] /\ lanes'[l] = lane
      /\ \A k \in LaneIds : k # l => lanes'[k] = lanes[k]
  BY <1>0, <1>3, LaneChanges
<1>5. LaneTypes'
  BY <1>0, <1>3, <1>4 DEF LaneTypes
<1>6. AskTypes'
  <2>1. ran' \subseteq Router!Requests
    BY <1>0, TailHasLess
    DEF AskTypes, Router!Receive, Router!Respond, Router!CheckPasses, Router!requestVars
  <2>2. routerTold' \in [Router!Requests -> {"new", "waiting", "rejected", "result"}]
    BY <1>0
    DEF AskTypes, Router!Receive, Router!Respond, Router!CheckPasses, Router!requestVars
  <2> QED
    BY <1>0, <1>1, <2>1, <2>2 DEF AskTypes
<1>7. LanesInv'
  <2>1. \A k \in LaneIds : /\ lanes'[k].phase = "free" <=> lanes[k].phase = "free"
                           /\ lanes'[k].ws = lanes[k].ws
                           /\ lanes[k].phase = "free" => lanes'[k] = lanes[k]
    BY <1>0, <1>3, <1>4
  <2>2. routing'.req # 0 => routing'.lane \in LaneIds
    BY <1>1, LaneFacts DEF LanesFormed
  <2> QED
    BY <1>1, <2>1, <2>2, SameLanes
<1>8. RequestsInv'
  <2>1. CASE Router!CheckPasses(l)
    <3>1. \A k \in LaneIds : /\ lanes'[k].queue = lanes[k].queue
                             /\ lanes'[k].phase = "running" => lanes'[k] = lanes[k]
      BY <1>3, <1>4, <2>1
    <3> QED
      BY <1>1, <2>1, <3>1, QuietLaneKeeps DEF Router!CheckPasses, Router!requestVars
  <2> QED
    BY <2>1, ReceiveKeeps, RespondKeeps
<1> QED
  BY <1>2, <1>5, <1>6, <1>7, <1>8, RouterInvNext

\* A lane step that ends the lane.
LEMMA EndHolds ==
  ASSUME RouterInv, NEW l \in LaneIds, Router!CheckFails(l) \/ Router!Disconnected(l)
  PROVE  RouterInv'
<1>0. /\ AskTypes /\ AdapterTypes /\ LaneTypes /\ TableTypes
      /\ lanes[l] \in LaneRecords /\ lanes \in [LaneIds -> LaneRecords]
  BY RouterInvParts, RouterTypes
<1>1. /\ lanes' = [lanes EXCEPT ![l] = Router!Free] /\ lanes[l].phase # "free"
      /\ stopped' = Append(stopped, lanes[l].ws)
      /\ UNCHANGED <<to, ran, ingress, routing, table, idle, closed, lagged, runtime, idles>>
  BY DEF Router!CheckFails, Router!Disconnected, Router!requestVars, Router!eventVars,
         Router!appVars
<1>2. AdapterTypes' /\ EventTypes'
  BY <1>1, RouterFrames
<1>3. l # ControlLane
  <2>1. ASSUME Router!CheckFails(l), l = ControlLane
        PROVE  FALSE
    <3>1. lanes[l].ws = Control
      BY <2>1, LaneFacts DEF LanesFormed
    <3> QED
      BY <2>1, <3>1 DEF Router!CheckFails, Router!Usable
  <2> QED
    BY <2>1 DEF Router!Disconnected
<1>4. Router!Live(l) /\ lanes[l].ws \in Workspaces
  BY <1>1, <1>3, LaneFacts DEF LanesFormed
<1>5. /\ givenUp \subseteq givenUp' /\ givenUp' \subseteq Workspaces
      /\ runtime'[lanes[l].ws] = "closed" \/ lanes[l].ws \in givenUp'
  <2>1. CASE Router!CheckFails(l)
    BY <1>0, <1>4, <2>1 DEF Router!CheckFails, TableTypes
  <2>2. CASE Router!Disconnected(l)
    <3>1. table[lanes[l].ws] # l /\ givenUp' = givenUp
      BY <2>2 DEF Router!Disconnected
    <3>2. ~Intact(lanes[l].ws)
      BY <1>4, <3>1, LaneFacts DEF TableHasLanes
    <3> QED
      BY <1>0, <1>1, <1>4, <3>1, <3>2, LaneFacts DEF TableTypes, Intact
  <2> QED
    BY <2>1, <2>2
<1>6. LanesInv'
  BY <1>1, <1>3, <1>4, <1>5, EndsLane
<1>7. LaneTypes'
  <2>1. /\ lanes' \in [LaneIds -> LaneRecords] /\ lanes'[l] = Router!Free
        /\ \A k \in LaneIds : k # l => lanes'[k] = lanes[k]
    BY <1>0, <1>1, RouterValues, LaneChanges
  <2>2. Len(Router!Free.queue) <= LaneCapacity
    BY RouterValues, RouterAssumption
  <2> QED
    BY <1>0, <2>1, <2>2 DEF LaneTypes
<1>8. TableTypes'
  <2>1. stopped' \in Seq(Workspaces)
    BY <1>0, <1>1, <1>4, AppendHas DEF TableTypes
  <2> QED
    BY <1>0, <1>1, <1>5, <2>1 DEF TableTypes
<1>9. AskTypes'
  BY <1>0, <1>1
  DEF AskTypes, Router!CheckFails, Router!Disconnected, Router!requestVars
<1>10. RequestsInv'
  <2>1. CASE Router!Disconnected(l)
    <3>1. \A k \in LaneIds : /\ lanes'[k].queue = lanes[k].queue
                             /\ lanes'[k].phase = "running" => lanes'[k] = lanes[k]
      <4>1. /\ lanes'[l] = Router!Free /\ \A k \in LaneIds : k # l => lanes'[k] = lanes[k]
        BY <1>0, <1>1, RouterValues, LaneChanges
      <4>2. lanes[l].queue = <<>>
        BY <2>1 DEF Router!Disconnected
      <4> QED
        BY <4>1, <4>2, RouterValues
    <3> QED
      BY <1>1, <2>1, <3>1, QuietLaneKeeps DEF Router!Disconnected, Router!requestVars
  <2> QED
    BY <2>1, CheckFailsKeeps
<1> QED
  BY <1>2, <1>6, <1>7, <1>8, <1>9, <1>10, RouterInvNext

LEMMA RouterKept ==
  ASSUME RouterInv, Router!Next
  PROVE  RouterInv'
BY CallHolds, RouteHolds, EnqueueHolds, RefuseHolds, TableHolds, TimeHolds, RuntimeHolds,
   WorkHolds, EndHolds
DEF Router!Next, Router!Lane

LEMMA RouterStarts == Router!Init => RouterInv
<1> SUFFICES ASSUME Router!Init
             PROVE  RouterInv
  OBVIOUS
<1> DEFINE lane == [Router!Free EXCEPT !.phase = "recv"]
<1>1. lane \in LaneRecords /\ lane.phase = "recv" /\ lane.queue = <<>> /\ lane.ws = Control
  <2>1. ASSUME NEW start \in LaneRecords
        PROVE  LET new1 == [start EXCEPT !.phase = "recv"] IN
               /\ new1 \in LaneRecords /\ new1.queue = start.queue
               /\ new1.phase = "recv" /\ new1.ws = start.ws
    BY DEF LaneRecords
  <2> QED
    BY <2>1, RouterValues
<1>2. lanes = [l \in LaneIds |-> IF l = ControlLane THEN lane ELSE Router!Free]
  BY DEF Router!Init
<1> HIDE DEF lane
<1>3. /\ lanes \in [LaneIds -> LaneRecords] /\ \A l \in LaneIds : lanes[l].queue = <<>>
      /\ \A l \in LaneIds : l # ControlLane => lanes[l] = Router!Free
      /\ lanes[ControlLane] = lane /\ \A l \in LaneIds : lanes[l].phase # "running"
  BY <1>1, <1>2, RouterValues, RouterAssumption
<1>4. /\ ingress = <<>> /\ routing = Router!NotRouting /\ stopped = <<>> /\ closed = <<>>
      /\ ran = {} /\ givenUp = {}
  BY DEF Router!Init
<1>5. AskTypes
  BY DEF Router!Init, AskTypes, Router!Routes
<1>6. AdapterTypes
  BY <1>4, RouterValues, RouterAssumption DEF AdapterTypes
<1>7. LaneTypes
  BY <1>3, RouterAssumption DEF LaneTypes
<1>8. TableTypes
  BY <1>4 DEF Router!Init, TableTypes
<1>9. EventTypes
  <2>1. runtime \in [Workspaces -> {"opening", "up", "gone", "closed"}] /\ lagged \in BOOLEAN
    BY DEF Router!Init
  <2>2. idles = 0
    BY DEF Router!Init
  <2> QED
    BY <1>4, <2>1, <2>2, RouterAssumption DEF EventTypes
<1>10. InOnePlace /\ PendingWaits /\ RunOrRefused
  BY <1>3, <1>4, RouterValues, NothingHas DEF InOnePlace, PendingWaits, Pending, RunOrRefused
<1>11. LanesFormed
  BY <1>1, <1>3, <1>4, RouterValues, RouterAssumption DEF LanesFormed, Router!Live
<1>12. TableHasLanes
  BY <1>1, <1>3, <1>4, RouterValues, NothingHas DEF TableHasLanes, Router!Live
<1> QED
  BY <1>5, <1>6, <1>7, <1>8, <1>9, <1>10, <1>11, <1>12, RouterTypeParts DEF RouterInv

\* What the run checks follows from the invariant.
LEMMA RouterGoal ==
  ASSUME RouterInv
  PROVE  Router!TypeOK /\ Router!RejectedNeverRan /\ Router!OneLaneUnlessGivenUp
<1>1. Router!RejectedNeverRan
  BY DEF RouterInv, RunOrRefused, Router!RejectedNeverRan
<1>2. ASSUME NEW l \in LaneIds, Router!HasWork(l)
      PROVE  Router!Live(l)
  BY <1>2, LaneFacts DEF LanesFormed, Router!HasWork, Router!Free
<1>3. \A w \in Router!Open \ givenUp : w \in Workspaces /\ Intact(w)
  BY DEF Router!Open, Intact
<1>4. Router!OneLaneUnlessGivenUp
  BY <1>2, <1>3, LaneFacts DEF TableHasLanes, Router!OneLaneUnlessGivenUp
<1> QED
  BY <1>1, <1>4 DEF RouterInv

\* A command that was refused never ran, and the commands of an open workspace
\* are in one lane unless its lane was given up: for any number of requests,
\* workspaces and lanes, full queues, lost events and closing workspaces
\* (bridge/router.rs).
THEOREM CommandsRunApart == Spec => []CommandsRunOnce
<1>1. Init => RouterInv
  BY RouterStarts DEF Init
<1>2. RouterInv /\ [Next]_all => RouterInv'
  <2>1. ASSUME RouterInv, UNCHANGED routerState
        PROVE  RouterInv'
    <3>1. AskTypes' /\ AdapterTypes' /\ LaneTypes' /\ TableTypes' /\ EventTypes'
      BY <2>1, RouterFrames DEF routerState, Router!requestVars
    <3>2. RequestsInv'
      BY <2>1, QuietLaneKeeps DEF routerState
    <3>3. LanesInv'
      <4>1. routing'.req # 0 => routing'.lane \in LaneIds
        BY <2>1, LaneFacts DEF routerState, LanesFormed
      <4> QED
        BY <2>1, <4>1, SameLanes DEF routerState
    <3> QED
      BY <3>1, <3>2, <3>3, RouterInvNext
  <2> QED
    BY <2>1, PartSteps, RouterKept
<1>3. RouterInv => CommandsRunOnce
  BY RouterGoal DEF CommandsRunOnce
<1> QED
  BY <1>1, <1>2, <1>3, PTL DEF Spec

-----------------------------------------------------------------------------
(* Lists and what events leave of them                                     *)

\* A set of numbers that has 0 and each successor has every number.
LEMMA SetInduction ==
  ASSUME NEW S, 0 \in S, \A n \in Nat : n \in S => n + 1 \in S
  PROVE  Nat \subseteq S
<1> SUFFICES ASSUME Nat \ S # {} PROVE FALSE
  OBVIOUS
<1>1. \E n \in Nat \ S : \A m \in Nat \ S : <<m, n>> \notin OpToRel(<, Nat)
  BY WFMin, NatLessThanWellFounded
<1>2. \A m, n \in Nat : m < n => <<m, n>> \in OpToRel(<, Nat)
  BY DEF OpToRel
<1>3. \E n \in Nat \ S : \A m \in Nat \ S : ~(m < n)
  BY <1>1, <1>2
<1> QED
  <2>1. PICK n \in Nat \ S : \A m \in Nat \ S : ~(m < n)
    BY <1>3
  <2>2. n # 0 /\ n - 1 \in Nat /\ n - 1 < n /\ (n - 1) + 1 = n
    BY <2>1
  <2>3. n - 1 \in S
    BY <2>1, <2>2
  <2> QED
    BY <2>1, <2>2, <2>3

-----------------------------------------------------------------------------
(* ProxyConnections                                                        *)

Events == {"opened", "closed"} \X Ids
\* What the events leave of a list: who was opened and not closed after it, and
\* who was listed and is not the subject of an event.
Listed(entries, s) ==
  {i \in Ids : \/ i \in entries /\ \A k \in DOMAIN s : s[k][2] # i
               \/ \E k \in DOMAIN s : /\ s[k] = <<"opened", i>>
                                      /\ \A m \in DOMAIN s : m > k => s[m][2] # i}

Taken == {c \in Clients : client[c] # "free"}
Up == connectionsServer = "up"
\* Until the server ends the counter is the number of its clients.
CounterIsTrue == connectionsServer # "ended" => active = Cardinality(Taken)
\* Who is not stopped has published what it has.
Published == Up /\ ~stop => shown = [count |-> active, list |-> list]
\* A SOCKS5 client that has ended has no connection left, and what is still listed
\* of a connection that is gone belongs to a client that is to be joined.
EndedAreGone ==
  Up /\ connectionsKind = "socks5" =>
    /\ \A c \in Clients : client[c] = "ended" => \A i \in Connections!Of(c) : entry[i].at = "gone"
    /\ \A i \in Listed(list, events) : entry[i].at = "gone" =>
         \E c \in entry[i].of : client[c] = "ended"
\* Every other connection is listed as long as it is relayed.
ListedAreOpen ==
  Up => {i \in Listed(list, events) : ~(connectionsKind = "socks5" /\ entry[i].at = "gone")}
          = Connections!OpenIds

Phases == {"free", "serving", "closing", "ended"}
Entries == [at : {"none", "made", "spawned", "relayed", "aborted", "gone"},
            tunnel : BOOLEAN, of : SUBSET Clients]
Numbers == 0..Cardinality(Clients)
ConnectionTypes ==
  /\ connectionsKind \in {"http", "socks5"} /\ connectionsServer \in {"up", "draining", "ended"}
  /\ stop \in BOOLEAN /\ busy \in 0..MaxRejected
  /\ client \in [Clients -> Phases] /\ entry \in [Ids -> Entries]
  /\ events \in Seq(Events) /\ list \subseteq Ids /\ active \in Numbers
  /\ shown \in [count : Numbers, list : SUBSET Ids]
ConnectionsInv ==
  /\ ConnectionTypes /\ CounterIsTrue /\ Published /\ EndedAreGone /\ ListedAreOpen

\* The lists on the way from the first to the last event.
After(entries, s) ==
  CHOOSE after : after = [n \in 0..Len(s) |-> IF n = 0 THEN entries
                                              ELSE Connections!Apply(after[n - 1], s[n])]

\* What the first n events leave of a list.
ListedAfter(entries, s, n) ==
  {i \in Ids : \/ i \in entries /\ \A k \in 1..n : s[k][2] # i
               \/ \E k \in 1..n : /\ s[k] = <<"opened", i>>
                                  /\ \A m \in 1..n : m > k => s[m][2] # i}

\* One event more.
LEMMA ListedOneMore ==
  ASSUME NEW s \in Seq(Events), NEW entries, NEW n \in 1..Len(s)
  PROVE  ListedAfter(entries, s, n) = Connections!Apply(ListedAfter(entries, s, n - 1), s[n])
<1>0. Len(s) \in Nat /\ n \in Nat /\ n - 1 \in Nat /\ s[n] \in Events
  BY LenProperties, ElementOfSeq
<1>1. \A k : k \in 1..n <=> k \in 1..(n - 1) \/ k = n
  BY <1>0
<1>2. \A k \in 1..(n - 1) : n > k /\ ~(k > n)
  BY <1>0
<1>3. s[n][1] \in {"opened", "closed"} /\ s[n][2] \in Ids /\ s[n] = <<s[n][1], s[n][2]>>
  BY <1>0 DEF Events
<1>4. ~(n > n)
  BY <1>0
<1>5. ASSUME NEW i \in Ids
      PROVE  i \in ListedAfter(entries, s, n)
               <=> i \in Connections!Apply(ListedAfter(entries, s, n - 1), s[n])
  <2>1. CASE s[n][2] # i
    <3>1. s[n] # <<"opened", i>>
      BY <2>1
    <3>2. i \in ListedAfter(entries, s, n) <=> i \in ListedAfter(entries, s, n - 1)
      BY <1>1, <1>2, <2>1, <3>1 DEF ListedAfter
    <3> QED
      BY <2>1, <3>2 DEF Connections!Apply
  <2>2. CASE s[n][2] = i
    <3>1. ~(i \in entries /\ \A k \in 1..n : s[k][2] # i)
      BY <1>1, <2>2
    <3>2. \A k \in 1..(n - 1) : ~(\A m \in 1..n : m > k => s[m][2] # i)
      BY <1>1, <1>2, <2>2
    <3>3. (\A m \in 1..n : m > n => s[m][2] # i)
      BY <1>1, <1>2, <1>4
    <3>4. s[n] = <<"opened", i>> <=> s[n][1] = "opened"
      BY <1>3, <2>2
    <3>5. i \in ListedAfter(entries, s, n) <=> s[n][1] = "opened"
      BY <1>1, <3>1, <3>2, <3>3, <3>4 DEF ListedAfter
    <3>6. i \in Connections!Apply(ListedAfter(entries, s, n - 1), s[n]) <=> s[n][1] = "opened"
      BY <2>2 DEF Connections!Apply
    <3> QED
      BY <3>5, <3>6
  <2> QED
    BY <2>1, <2>2
<1>6. ListedAfter(entries, s, n) \subseteq Ids
  BY DEF ListedAfter
<1>7. Connections!Apply(ListedAfter(entries, s, n - 1), s[n]) \subseteq Ids
  <2>1. ListedAfter(entries, s, n - 1) \subseteq Ids
    BY DEF ListedAfter
  <2> QED
    BY <1>3, <2>1 DEF Connections!Apply
<1> HIDE DEF ListedAfter
<1> QED
  BY <1>5, <1>6, <1>7

\* The recursive function is the one that lists what the events leave.
LEMMA AfterIs ==
  ASSUME NEW s \in Seq(Events), NEW entries, entries \subseteq Ids
  PROVE  After(entries, s)[Len(s)] = ListedAfter(entries, s, Len(s))
<1> DEFINE f == [n \in 0..Len(s) |-> ListedAfter(entries, s, n)]
           a == After(entries, s)
<1>0. Len(s) \in Nat
  BY LenProperties
<1>1. ListedAfter(entries, s, 0) = entries
  BY DEF ListedAfter
<1>2. f = [n \in 0..Len(s) |-> IF n = 0 THEN entries ELSE Connections!Apply(f[n - 1], s[n])]
  <2>1. ASSUME NEW n \in 0..Len(s)
        PROVE  ListedAfter(entries, s, n)
                 = IF n = 0 THEN entries ELSE Connections!Apply(f[n - 1], s[n])
    <3>1. CASE n = 0
      BY <1>1, <3>1
    <3>2. CASE n # 0
      <4>1. n \in 1..Len(s) /\ n - 1 \in 0..Len(s)
        BY <1>0, <3>2
      <4>2. f[n - 1] = ListedAfter(entries, s, n - 1)
        BY <4>1
      <4> HIDE DEF f
      <4> QED
        BY <3>2, <4>1, <4>2, ListedOneMore
    <3> QED
      BY <3>1, <3>2
  <2> QED
    BY <2>1
<1>3. a = [n \in 0..Len(s) |-> IF n = 0 THEN entries ELSE Connections!Apply(a[n - 1], s[n])]
  <2> HIDE DEF f
  <2> QED
    BY <1>2 DEF After
<1> HIDE DEF a, f
<1>4. \A n \in 0..Len(s) : a[n] = IF n = 0 THEN entries ELSE Connections!Apply(a[n - 1], s[n])
  BY <1>3
<1> DEFINE P(n) == n <= Len(s) => a[n] = ListedAfter(entries, s, n)
           U == {n \in Nat : P(n)}
<1>5. 0 \in U
  <2>1. 0 \in 0..Len(s)
    BY <1>0
  <2> QED
    BY <1>1, <1>4, <2>1
<1>6. ASSUME NEW n \in Nat, n \in U PROVE n + 1 \in U
  <2> SUFFICES ASSUME n + 1 <= Len(s)
               PROVE  a[n + 1] = ListedAfter(entries, s, n + 1)
    OBVIOUS
  <2>1. n + 1 \in 0..Len(s) /\ n + 1 # 0 /\ (n + 1) - 1 = n /\ n + 1 \in 1..Len(s) /\ n <= Len(s)
    BY <1>0
  <2>2. a[n] = ListedAfter(entries, s, n)
    BY <1>6, <2>1
  <2>3. a[n + 1] = Connections!Apply(a[(n + 1) - 1], s[n + 1])
    BY <1>4, <2>1
  <2>4. ListedAfter(entries, s, n + 1)
          = Connections!Apply(ListedAfter(entries, s, (n + 1) - 1), s[n + 1])
    BY <2>1, ListedOneMore
  <2> QED
    BY <2>1, <2>2, <2>3, <2>4
<1> HIDE DEF U
<1>7. Nat \subseteq U
  BY <1>5, <1>6, SetInduction
<1>8. Len(s) \in U
  BY <1>0, <1>7
<1> QED
  BY <1>0, <1>8 DEF U, a

LEMMA ListAfterEvents ==
  ASSUME events \in Seq(Events), NEW entries, entries \subseteq Ids
  PROVE  Connections!Drained(entries) = Listed(entries, events)
<1>1. Connections!Drained(entries) = After(entries, events)[Len(events)]
  BY DEF Connections!Drained, After
<1>2. DOMAIN events = 1..Len(events)
  BY LenProperties
<1>3. ListedAfter(entries, events, Len(events)) = Listed(entries, events)
  BY <1>2 DEF ListedAfter, Listed
<1> QED
  BY <1>1, <1>3, AfterIs

LEMMA ListedNothing ==
  ASSUME NEW entries, entries \subseteq Ids
  PROVE  Listed(entries, <<>>) = entries
BY DEF Listed

LEMMA ListedIsOfIds == \A entries, s : Listed(entries, s) \subseteq Ids
BY DEF Listed

\* What comes last is applied last.
LEMMA ListedAppend ==
  ASSUME NEW s \in Seq(Events), NEW entries, NEW event \in Events
  PROVE  Listed(entries, Append(s, event)) = Connections!Apply(Listed(entries, s), event)
<1> DEFINE t == Append(s, event)
<1>1. /\ t \in Seq(Events) /\ Len(t) = Len(s) + 1 /\ \A i \in 1..Len(s) : t[i] = s[i]
      /\ t[Len(s) + 1] = event
  BY AppendProperties
<1> HIDE DEF t
<1>2. /\ Len(s) \in Nat /\ Len(t) \in 1..Len(t) /\ Len(t) - 1 = Len(s)
      /\ DOMAIN s = 1..Len(s) /\ DOMAIN t = 1..Len(t)
  BY <1>1, LenProperties
<1>3. ListedAfter(entries, t, Len(t))
        = Connections!Apply(ListedAfter(entries, t, Len(t) - 1), t[Len(t)])
  BY <1>1, <1>2, ListedOneMore
<1>4. ListedAfter(entries, t, Len(s)) = ListedAfter(entries, s, Len(s))
  BY <1>1 DEF ListedAfter
<1>5. /\ ListedAfter(entries, t, Len(t)) = Listed(entries, t)
      /\ ListedAfter(entries, s, Len(s)) = Listed(entries, s)
  BY <1>2 DEF ListedAfter, Listed
<1> QED
  BY <1>1, <1>2, <1>3, <1>4, <1>5 DEF t

\* And what comes first is applied first.
LEMMA ListedTail ==
  ASSUME NEW s \in Seq(Events), NEW entries, s # <<>>, entries \subseteq Ids
  PROVE  /\ Tail(s) \in Seq(Events) /\ Connections!Apply(entries, Head(s)) \subseteq Ids
         /\ Listed(Connections!Apply(entries, Head(s)), Tail(s)) = Listed(entries, s)
<1> DEFINE t == Tail(s)  h == Head(s)  rest == Connections!Apply(entries, h)
<1>1. /\ t \in Seq(Events) /\ Len(t) = Len(s) - 1 /\ \A k \in 1..Len(t) : t[k] = s[k + 1]
  BY HeadTailProperties
<1>2. h = s[1] /\ h \in Events
  BY HeadTailProperties
<1> HIDE DEF t, h
<1>3. /\ Len(s) \in Nat \ {0} /\ DOMAIN s = 1..Len(s) /\ DOMAIN t = 1..(Len(s) - 1)
  BY <1>1, LenProperties, EmptySeq
<1>4. h[1] \in {"opened", "closed"} /\ h[2] \in Ids /\ h = <<h[1], h[2]>>
  BY <1>2 DEF Events
<1>5. rest \subseteq Ids
  BY <1>4 DEF Connections!Apply
<1>6. \A k : k \in DOMAIN s <=> k = 1 \/ (k - 1 \in DOMAIN t /\ k \in Nat)
  BY <1>3
<1>7. \A k \in DOMAIN t : k + 1 \in DOMAIN s /\ k + 1 > 1 /\ t[k] = s[k + 1] /\ ~(1 > k + 1)
  BY <1>1, <1>3
<1>8. \A k, m \in DOMAIN t : m + 1 > k + 1 <=> m > k
  BY <1>3
<1>9. \A k \in DOMAIN s : k # 1 => k - 1 \in DOMAIN t /\ (k - 1) + 1 = k
  BY <1>3
<1>10. 1 \in DOMAIN s
  BY <1>3
<1>11. ASSUME NEW i \in Ids
       PROVE  i \in Listed(rest, t) <=> i \in Listed(entries, s)
  <2> DEFINE Last(q, k) == q[k] = <<"opened", i>> /\ \A m \in DOMAIN q : m > k => q[m][2] # i
  <2>1. \A k \in DOMAIN t : Last(t, k) <=> Last(s, k + 1)
    <3> SUFFICES ASSUME NEW k \in DOMAIN t PROVE Last(t, k) <=> Last(s, k + 1)
      OBVIOUS
    <3>1. t[k] = s[k + 1]
      BY <1>7
    <3>2. ASSUME \A m \in DOMAIN t : m > k => t[m][2] # i, NEW m \in DOMAIN s, m > k + 1
          PROVE  s[m][2] # i
      <4>1. m # 1
        BY <1>7, <3>2
      <4>2. m - 1 \in DOMAIN t /\ (m - 1) + 1 = m
        BY <1>9, <4>1
      <4>3. m - 1 > k
        BY <1>8, <3>2, <4>2
      <4> QED
        BY <1>7, <3>2, <4>2, <4>3
    <3>3. ASSUME \A m \in DOMAIN s : m > k + 1 => s[m][2] # i, NEW m \in DOMAIN t, m > k
          PROVE  t[m][2] # i
      BY <1>7, <1>8, <3>3
    <3> QED
      BY <3>1, <3>2, <3>3
  <2>2. (\A k \in DOMAIN t : t[k][2] # i) <=> (\A m \in DOMAIN s : m > 1 => s[m][2] # i)
    <3>1. \A m \in DOMAIN s : m > 1 => m # 1
      BY <1>3
    <3> QED
      BY <1>7, <1>9, <3>1
  <2>3. (\A k \in DOMAIN s : s[k][2] # i) <=> s[1][2] # i /\ \A k \in DOMAIN t : t[k][2] # i
    BY <1>7, <1>9, <1>10
  <2>4. (\E k \in DOMAIN s : Last(s, k)) <=> Last(s, 1) \/ \E k \in DOMAIN t : Last(t, k)
    <3> HIDE DEF Last
    <3> QED
      BY <1>7, <1>9, <1>10, <2>1
  <2>5. i \in Listed(entries, s)
          <=> (i \in entries /\ \A k \in DOMAIN s : s[k][2] # i) \/ \E k \in DOMAIN s : Last(s, k)
    BY DEF Listed
  <2>6. i \in Listed(rest, t)
          <=> (i \in rest /\ \A k \in DOMAIN t : t[k][2] # i) \/ \E k \in DOMAIN t : Last(t, k)
    BY DEF Listed
  <2>7. Last(s, 1) <=> s[1] = <<"opened", i>> /\ \A k \in DOMAIN t : t[k][2] # i
    BY <2>2
  <2> HIDE DEF Last
  <2>8. i \in rest <=> s[1] = <<"opened", i>> \/ (i \in entries /\ s[1][2] # i)
    BY <1>2, <1>4 DEF Connections!Apply
  <2> QED
    BY <2>3, <2>4, <2>5, <2>6, <2>7, <2>8
<1>12. Listed(rest, t) = Listed(entries, s)
  <2> HIDE DEF rest
  <2>1. Listed(rest, t) \subseteq Ids /\ Listed(entries, s) \subseteq Ids
    BY ListedIsOfIds
  <2> QED
    BY <1>11, <2>1
<1> QED
  BY <1>1, <1>5, <1>12 DEF t, h

Socks == connectionsKind = "socks5"

LEMMA TakenIs ==
  /\ IsFiniteSet(Taken) /\ Cardinality(Taken) \in Numbers
  /\ Cardinality(Clients) \in Nat /\ Numbers \subseteq Nat
<1>1. IsFiniteSet(Clients) /\ Taken \in SUBSET Clients
  BY ConnectionsAssumption DEF Taken
<1>2. Cardinality(Clients) \in Nat
  BY <1>1, FS_CardinalityType
<1>3. IsFiniteSet(Taken) /\ Cardinality(Taken) <= Cardinality(Clients)
  BY <1>1, FS_Subset
<1>4. Cardinality(Taken) \in Nat
  BY <1>3, FS_CardinalityType
<1> QED
  BY <1>2, <1>3, <1>4 DEF Numbers

LEMMA TakenNext ==
  /\ IsFiniteSet(Taken') /\ Cardinality(Taken') \in Numbers
<1>1. IsFiniteSet(Clients) /\ Taken' \in SUBSET Clients
  BY ConnectionsAssumption DEF Taken
<1>2. Cardinality(Clients) \in Nat
  BY <1>1, FS_CardinalityType
<1>3. IsFiniteSet(Taken') /\ Cardinality(Taken') <= Cardinality(Clients)
  BY <1>1, FS_Subset
<1>4. Cardinality(Taken') \in Nat
  BY <1>3, FS_CardinalityType
<1> QED
  BY <1>2, <1>3, <1>4 DEF Numbers

\* A client that stays what it is, or becomes another kind of client that is
\* there, is counted as before.
LEMMA SameTaken ==
  ASSUME client \in [Clients -> Phases], NEW c \in Clients, client[c] # "free",
         NEW at \in Phases \ {"free"}, client' = [client EXCEPT ![c] = at]
  PROVE  Taken' = Taken /\ client' \in [Clients -> Phases]
BY DEF Taken, Phases

LEMMA ConnectionsFrame ==
  ASSUME ConnectionsInv, ConnectionTypes',
         UNCHANGED <<connectionsKind, client, entry, events, list, active, shown>>,
         Up' => Up, stop => stop',
         connectionsServer' # "ended" => connectionsServer # "ended"
  PROVE  ConnectionsInv'
<1>1. CounterIsTrue'
  BY DEF ConnectionsInv, CounterIsTrue, Taken
<1>2. Published'
  BY DEF ConnectionsInv, ConnectionTypes, Published
<1>3. EndedAreGone'
  BY DEF ConnectionsInv, EndedAreGone, Up, Connections!Of
<1>4. ListedAreOpen'
  BY DEF ConnectionsInv, ListedAreOpen, Up, Connections!OpenIds, Connections!Live
<1> QED
  BY <1>1, <1>2, <1>3, <1>4 DEF ConnectionsInv

LEMMA ConnectionsStutter ==
  ConnectionsInv /\ UNCHANGED connectionsState => ConnectionsInv'
<1> SUFFICES ASSUME ConnectionsInv, UNCHANGED connectionsState
             PROVE  ConnectionsInv'
  OBVIOUS
<1>1. ConnectionTypes'
  BY DEF ConnectionsInv, ConnectionTypes, connectionsState
<1> QED
  BY <1>1, ConnectionsFrame DEF connectionsState, Up

LEMMA ServerHolds ==
  ASSUME ConnectionsInv,
         Connections!AcceptBusy \/ Connections!BusyEnds \/ Connections!Stop
           \/ Connections!BreakOnStop \/ Connections!End
  PROVE  ConnectionsInv'
<1>0. MaxRejected \in Nat /\ ConnectionTypes
  BY ConnectionsAssumption DEF ConnectionsInv
<1>1. CASE Connections!AcceptBusy
  <2>1. ConnectionTypes'
    BY <1>0, <1>1 DEF Connections!AcceptBusy, ConnectionTypes
  <2> QED
    BY <1>1, <2>1, ConnectionsFrame DEF Connections!AcceptBusy, Up
<1>2. CASE Connections!BusyEnds
  <2>1. ConnectionTypes'
    BY <1>0, <1>2 DEF Connections!BusyEnds, ConnectionTypes
  <2> QED
    BY <1>2, <2>1, ConnectionsFrame DEF Connections!BusyEnds, Up
<1>3. CASE Connections!Stop
  <2>1. ConnectionTypes'
    BY <1>0, <1>3 DEF Connections!Stop, ConnectionTypes
  <2> QED
    BY <1>3, <2>1, ConnectionsFrame DEF Connections!Stop, Up
<1>4. CASE Connections!BreakOnStop
  <2>1. ConnectionTypes'
    BY <1>0, <1>4 DEF Connections!BreakOnStop, ConnectionTypes
  <2> QED
    BY <1>4, <2>1, ConnectionsFrame DEF Connections!BreakOnStop, Up
<1>5. CASE Connections!End
  <2>1. ConnectionTypes'
    BY <1>0, <1>5 DEF Connections!End, ConnectionTypes
  <2> QED
    BY <1>5, <2>1, ConnectionsFrame DEF Connections!End, Up
<1> QED
  BY <1>1, <1>2, <1>3, <1>4, <1>5

\* Entries that are aborted are relayed as before, until they are dropped.
LEMMA AbortedIs ==
  \A e \in Entries : /\ Connections!Aborted(e) \in Entries
                     /\ Connections!Aborted(e).of = e.of
                     /\ Connections!Aborted(e).at \in {"relayed", "aborted"}
                          <=> e.at \in {"relayed", "aborted"}
<1> SUFFICES ASSUME NEW e \in Entries
             PROVE  /\ Connections!Aborted(e) \in Entries
                    /\ Connections!Aborted(e).of = e.of
                    /\ Connections!Aborted(e).at \in {"relayed", "aborted"}
                          <=> e.at \in {"relayed", "aborted"}
  OBVIOUS
<1>1. CASE e.at \in {"made", "spawned"}
  <2>1. Connections!Aborted(e) = [e EXCEPT !.at = "gone"]
    BY <1>1 DEF Connections!Aborted, Entries
  <2> QED
    BY <1>1, <2>1 DEF Entries
<1>2. CASE e.at = "relayed"
  <2>1. Connections!Aborted(e) = [e EXCEPT !.at = "aborted"]
    BY <1>2 DEF Connections!Aborted, Entries
  <2> QED
    BY <1>2, <2>1 DEF Entries
<1>3. CASE e.at \notin {"made", "spawned", "relayed"}
  <2>1. Connections!Aborted(e) = [e EXCEPT !.at = e.at]
    BY <1>3 DEF Connections!Aborted, Entries
  <2> QED
    BY <1>3, <2>1 DEF Entries
<1> QED
  BY <1>1, <1>2, <1>3

LEMMA AbortedAll ==
  ASSUME ConnectionTypes, NEW ids \in SUBSET Ids, entry' = Connections!AbortAll(ids)
  PROVE  /\ entry' \in [Ids -> Entries] /\ Connections!OpenIds' = Connections!OpenIds
<1>1. \A i \in Ids : entry[i] \in Entries
  BY DEF ConnectionTypes
<1>2. \A i \in Ids : entry'[i] = IF i \in ids THEN Connections!Aborted(entry[i]) ELSE entry[i]
  BY DEF Connections!AbortAll
<1>3. \A i \in Ids : /\ entry'[i] \in Entries
                     /\ entry'[i].at \in {"relayed", "aborted"} <=> entry[i].at \in {"relayed", "aborted"}
  BY <1>1, <1>2, AbortedIs
<1>4. entry' = [i \in Ids |-> entry'[i]]
  BY DEF Connections!AbortAll
<1>5. entry' \in [Ids -> Entries]
  BY <1>3, <1>4
<1> QED
  BY <1>3, <1>5 DEF Connections!OpenIds, Connections!Live

LEMMA DroppedHolds ==
  ASSUME ConnectionsInv, Connections!Dropped
  PROVE  ConnectionsInv'
<1>1. ConnectionTypes
  BY DEF ConnectionsInv
<1>2. entry' \in [Ids -> Entries]
  BY <1>1, AbortedAll DEF Connections!Dropped
<1>3. ConnectionTypes'
  BY <1>1, <1>2, EmptySeq, ConnectionsAssumption DEF Connections!Dropped, ConnectionTypes, Phases
<1> QED
  BY <1>3 DEF Connections!Dropped, ConnectionsInv, CounterIsTrue, Published, EndedAreGone,
     ListedAreOpen, Up

\* What is listed of a connection that is not gone is relayed, also of another client.
Ghost(i) == Socks /\ entry[i].at = "gone"

LEMMA AcceptHolds ==
  ASSUME ConnectionsInv, NEW c \in Clients, Connections!Accept(c)
  PROVE  ConnectionsInv'
<1>1. ConnectionTypes /\ CounterIsTrue /\ Published /\ EndedAreGone /\ ListedAreOpen
  BY DEF ConnectionsInv
<1>2. /\ connectionsServer = "up" /\ client[c] = "free"
      /\ client' = [client EXCEPT ![c] = "serving"] /\ active' = active + 1
      /\ shown' = IF stop THEN shown ELSE [count |-> active + 1, list |-> list]
      /\ UNCHANGED <<connectionsKind, connectionsServer, stop, busy, events, list>>
  BY DEF Connections!Accept, Connections!Publish
<1>3. client' \in [Clients -> Phases] /\ Taken' = Taken \cup {c} /\ c \notin Taken
  BY <1>1, <1>2 DEF ConnectionTypes, Taken, Phases
<1>4. Cardinality(Taken') = Cardinality(Taken) + 1
  BY <1>3, TakenIs, FS_AddElement
<1>5. active' = Cardinality(Taken') /\ active' \in Numbers
  BY <1>1, <1>2, <1>4, TakenNext DEF CounterIsTrue
<1>6. \/ entry' = entry
      \/ /\ Socks
         /\ \E i \in Ids : /\ entry[i].at = "none"
                           /\ entry' = [entry EXCEPT ![i].at = "made", ![i].of = {c}]
  BY DEF Connections!Accept, Connections!NextId, Socks
<1>7. /\ entry' \in [Ids -> Entries]
      /\ \A i \in Ids : \/ entry'[i] = entry[i]
                        \/ entry[i].at = "none" /\ entry'[i].at = "made" /\ entry'[i].of = {c}
  <2>1. CASE entry' = entry
    BY <1>1, <2>1 DEF ConnectionTypes
  <2>2. ASSUME NEW i \in Ids, entry[i].at = "none",
               entry' = [entry EXCEPT ![i].at = "made", ![i].of = {c}]
        PROVE  /\ entry' \in [Ids -> Entries]
               /\ \A j \in Ids : \/ entry'[j] = entry[j]
                                 \/ /\ entry[j].at = "none" /\ entry'[j].at = "made"
                                    /\ entry'[j].of = {c}
    <3>1. entry \in [Ids -> Entries]
      BY <1>1 DEF ConnectionTypes
    <3>2. /\ entry'[i].at = "made" /\ entry'[i].of = {c} /\ entry'[i] \in Entries
          /\ \A j \in Ids \ {i} : entry'[j] = entry[j]
          /\ entry' = [j \in Ids |-> entry'[j]]
      BY <2>2, <3>1 DEF Entries
    <3>3. \A j \in Ids : entry'[j] \in Entries
      BY <3>1, <3>2
    <3>4. entry' \in [Ids -> Entries]
      BY <3>2, <3>3
    <3> QED
      BY <2>2, <3>2, <3>4
  <2> QED
    BY <1>6, <2>1, <2>2
<1>8. ConnectionTypes'
  BY <1>1, <1>2, <1>3, <1>5, <1>7 DEF ConnectionTypes
<1>9. Published'
  BY <1>2 DEF Published
<1>10. CounterIsTrue'
  BY <1>5 DEF CounterIsTrue
<1>11. Connections!OpenIds' = Connections!OpenIds
  BY <1>7 DEF Connections!OpenIds, Connections!Live
<1>12. \A i \in Ids : entry'[i].at = "gone" <=> entry[i].at = "gone"
  BY <1>7
<1>13. ListedAreOpen'
  BY <1>1, <1>2, <1>11, <1>12, ListedIsOfIds DEF ListedAreOpen, Up
<1>14. EndedAreGone'
  <2> SUFFICES ASSUME Socks PROVE EndedAreGone'
    BY <1>2 DEF EndedAreGone, Socks
  <2>1. Up
    BY <1>2 DEF Up
  <2>2. \A d \in Clients : client'[d] = "ended" <=> client[d] = "ended"
    BY <1>1, <1>2 DEF ConnectionTypes
  <2>3. client'[c] # "ended"
    BY <1>1, <1>2 DEF ConnectionTypes
  <2>4. ASSUME NEW d \in Clients, client'[d] = "ended", NEW i \in Connections!Of(d)'
        PROVE  entry'[i].at = "gone"
    <3>1. i \in Ids /\ d \in entry'[i].of /\ d # c
      BY <2>3, <2>4 DEF Connections!Of
    <3>2. entry'[i] = entry[i]
      BY <1>7, <3>1
    <3> QED
      BY <1>1, <2>1, <2>2, <2>4, <3>1, <3>2 DEF EndedAreGone, Connections!Of, Socks
  <2>5. ASSUME NEW i \in Listed(list, events), entry'[i].at = "gone"
        PROVE  \E d \in entry'[i].of : client'[d] = "ended"
    <3>1. i \in Ids
      BY ListedIsOfIds
    <3>2. entry'[i] = entry[i]
      BY <1>7, <2>5, <3>1
    <3>3. entry[i].of \subseteq Clients
      BY <1>1, <3>1 DEF ConnectionTypes, Entries
    <3> QED
      BY <1>1, <2>1, <2>2, <2>5, <3>2, <3>3 DEF EndedAreGone, Socks
  <2> QED
    BY <1>2, <2>4, <2>5 DEF EndedAreGone
<1> QED
  BY <1>8, <1>9, <1>10, <1>13, <1>14 DEF ConnectionsInv

LEMMA JoinHolds ==
  ASSUME ConnectionsInv, NEW c \in Clients, Connections!Join(c)
  PROVE  ConnectionsInv'
<1> DEFINE after == Listed(list, events) \ (IF Socks THEN Connections!Of(c) ELSE {})
<1>1. ConnectionTypes /\ CounterIsTrue /\ Published /\ EndedAreGone /\ ListedAreOpen
  BY DEF ConnectionsInv
<1>2. Connections!Drained(list) = Listed(list, events)
  BY <1>1, ListAfterEvents DEF ConnectionTypes
<1>3. /\ connectionsServer \in {"up", "draining"} /\ client[c] = "ended"
      /\ client' = [client EXCEPT ![c] = "free"] /\ active' = active - 1
      /\ entry' = [i \in Ids |-> [entry[i] EXCEPT !.of = @ \ {c}]]
      /\ events' = <<>> /\ list' = after
      /\ shown' = IF stop THEN shown ELSE [count |-> active - 1, list |-> after]
      /\ UNCHANGED <<connectionsKind, connectionsServer, stop, busy>>
  BY <1>2 DEF Connections!Join, Connections!Joined, Connections!Publish, Socks
<1>4. after \subseteq Ids /\ after \subseteq Listed(list, events)
  BY ListedIsOfIds
<1> HIDE DEF after
<1>5. client' \in [Clients -> Phases] /\ Taken' = Taken \ {c} /\ c \in Taken
  BY <1>1, <1>3 DEF ConnectionTypes, Taken, Phases
<1>6. Cardinality(Taken') = Cardinality(Taken) - 1
  BY <1>5, TakenIs, FS_RemoveElement
<1>7. active' = Cardinality(Taken') /\ active' \in Numbers
  BY <1>1, <1>3, <1>6, TakenNext DEF CounterIsTrue
<1>8. /\ entry' \in [Ids -> Entries]
      /\ \A i \in Ids : entry'[i].at = entry[i].at /\ entry'[i].of = entry[i].of \ {c}
  BY <1>1, <1>3 DEF ConnectionTypes, Entries
<1>9. ConnectionTypes'
  BY <1>1, <1>3, <1>4, <1>5, <1>7, <1>8, EmptySeq DEF ConnectionTypes
<1>10. Published' /\ CounterIsTrue'
  BY <1>3, <1>7 DEF Published, CounterIsTrue
<1>11. Listed(list', events') = after
  BY <1>3, <1>4, ListedNothing
<1>12. Up /\ Socks => \A i \in Connections!Of(c) : entry[i].at = "gone"
  BY <1>1, <1>3 DEF EndedAreGone, Socks
<1>13. ListedAreOpen'
  <2> SUFFICES ASSUME Up PROVE ListedAreOpen'
    BY <1>3 DEF ListedAreOpen, Up
  <2>1. Connections!OpenIds' = Connections!OpenIds
    BY <1>8 DEF Connections!OpenIds, Connections!Live
  <2>2. \A i \in Ids : ~Ghost(i) => (i \in after <=> i \in Listed(list, events))
    BY <1>12 DEF after, Ghost
  <2>3. {i \in after : ~(connectionsKind = "socks5" /\ entry'[i].at = "gone")}
          = {i \in Listed(list, events) : ~(connectionsKind = "socks5" /\ entry[i].at = "gone")}
    BY <1>4, <1>8, <2>2, ListedIsOfIds DEF Ghost, Socks
  <2> QED
    BY <1>1, <1>3, <1>11, <2>1, <2>3 DEF ListedAreOpen
<1>14. EndedAreGone'
  <2> SUFFICES ASSUME Up, Socks PROVE EndedAreGone'
    BY <1>3 DEF EndedAreGone, Socks, Up
  <2>1. \A d \in Clients : /\ client'[d] = "ended" => client[d] = "ended" /\ d # c
                           /\ client[d] = "ended" /\ d # c => client'[d] = "ended"
    BY <1>1, <1>3 DEF ConnectionTypes
  <2>2. ASSUME NEW d \in Clients, client'[d] = "ended", NEW i \in Connections!Of(d)'
        PROVE  entry'[i].at = "gone"
    <3>1. i \in Ids /\ d \in entry'[i].of
      BY <2>2 DEF Connections!Of
    <3>2. i \in Connections!Of(d) /\ client[d] = "ended"
      BY <1>8, <2>1, <2>2, <3>1 DEF Connections!Of
    <3> QED
      BY <1>1, <1>8, <3>1, <3>2 DEF EndedAreGone, Socks
  <2>3. ASSUME NEW i \in after, entry'[i].at = "gone"
        PROVE  \E d \in entry'[i].of : client'[d] = "ended"
    <3>1. i \in Ids /\ i \in Listed(list, events) /\ i \notin Connections!Of(c)
      BY <1>4 DEF after
    <3>2. entry[i].at = "gone" /\ entry[i].of \subseteq Clients /\ c \notin entry[i].of
      BY <1>1, <1>8, <2>3, <3>1 DEF ConnectionTypes, Entries, Connections!Of
    <3>3. PICK d \in entry[i].of : client[d] = "ended"
      BY <1>1, <3>1, <3>2 DEF EndedAreGone, Socks
    <3>4. d \in entry'[i].of /\ client'[d] = "ended"
      BY <1>8, <2>1, <3>1, <3>2, <3>3
    <3> QED
      BY <3>4
  <2> QED
    BY <1>3, <1>11, <2>2, <2>3 DEF EndedAreGone
<1> QED
  BY <1>9, <1>10, <1>13, <1>14 DEF ConnectionsInv

LEMMA ReceiveHolds ==
  ASSUME ConnectionsInv, Connections!Receive
  PROVE  ConnectionsInv'
<1> DEFINE now == Connections!Apply(list, Head(events))
<1>1. ConnectionTypes /\ CounterIsTrue /\ Published /\ EndedAreGone /\ ListedAreOpen
  BY DEF ConnectionsInv
<1>2. /\ events # <<>> /\ events' = Tail(events) /\ list' = now
      /\ shown' = IF stop THEN shown ELSE [count |-> active, list |-> now]
      /\ UNCHANGED <<connectionsKind, connectionsServer, stop, client, entry, busy, active>>
  BY DEF Connections!Receive, Connections!Publish
<1>3. /\ Tail(events) \in Seq(Events) /\ now \subseteq Ids
      /\ Listed(now, Tail(events)) = Listed(list, events)
  BY <1>1, <1>2, ListedTail DEF ConnectionTypes
<1> HIDE DEF now
<1>4. Listed(list', events') = Listed(list, events)
  BY <1>2, <1>3
<1>5. ConnectionTypes'
  BY <1>1, <1>2, <1>3 DEF ConnectionTypes
<1>6. Published'
  BY <1>2 DEF Published
<1>7. CounterIsTrue'
  BY <1>1, <1>2 DEF CounterIsTrue, Taken
<1>8. EndedAreGone'
  BY <1>1, <1>2, <1>4 DEF EndedAreGone, Connections!Of, Up
<1>9. ListedAreOpen'
  BY <1>1, <1>2, <1>4 DEF ListedAreOpen, Connections!OpenIds, Connections!Live, Up
<1> QED
  BY <1>5, <1>6, <1>7, <1>8, <1>9 DEF ConnectionsInv

LEMMA HttpListed ==
  ASSUME ConnectionsInv, connectionsKind = "http", Up
  PROVE  Connections!OpenIds = Listed(list, events)
BY DEF ConnectionsInv, ListedAreOpen

\* A step of an HTTP client or of what it relays.
LEMMA HttpHolds ==
  ASSUME ConnectionsInv, connectionsKind = "http",
         client' \in [Clients -> Phases], Taken' = Taken, entry' \in [Ids -> Entries],
         events' \in Seq(Events),
         UNCHANGED <<connectionsKind, connectionsServer, stop, busy, list, active, shown>>,
         Up => Connections!OpenIds' = Listed(list, events')
  PROVE  ConnectionsInv'
<1>1. ConnectionTypes /\ CounterIsTrue /\ Published
  BY DEF ConnectionsInv
<1>2. ConnectionTypes'
  BY <1>1 DEF ConnectionTypes
<1>3. Published'
  BY <1>1 DEF Published, Up
<1>4. CounterIsTrue'
  BY <1>1 DEF CounterIsTrue
<1>5. ListedAreOpen'
  <2> SUFFICES ASSUME Up PROVE ListedAreOpen'
    BY DEF ListedAreOpen, Up
  <2>1. connectionsKind' = "http" /\ list' = list
    OBVIOUS
  <2>2. {i \in Listed(list', events') : ~(connectionsKind' = "socks5" /\ entry'[i].at = "gone")}
          = Listed(list', events')
    BY <2>1
  <2> QED
    BY <2>1, <2>2 DEF ListedAreOpen
<1>6. EndedAreGone'
  BY DEF EndedAreGone
<1> QED
  BY <1>2, <1>3, <1>4, <1>5, <1>6 DEF ConnectionsInv

\* Of one entry only the place changes, or it is made.
LEMMA OneEntry ==
  ASSUME ConnectionTypes, NEW i \in Ids, NEW e \in Entries, entry' = [entry EXCEPT ![i] = e]
  PROVE  /\ entry' \in [Ids -> Entries] /\ entry'[i] = e
         /\ \A j \in Ids : j # i => entry'[j] = entry[j]
BY DEF ConnectionTypes

LEMMA ConnectionMoves ==
  ASSUME ConnectionTypes, NEW i \in Ids,
         NEW at \in {"none", "made", "spawned", "relayed", "aborted", "gone"},
         entry' = [entry EXCEPT ![i].at = at]
  PROVE  /\ entry' \in [Ids -> Entries] /\ entry'[i].at = at /\ entry'[i].of = entry[i].of
         /\ \A j \in Ids : j # i => entry'[j] = entry[j]
<1>1. entry[i] \in Entries
  BY DEF ConnectionTypes
<1> DEFINE e == [entry[i] EXCEPT !.at = at]
<1>2. e \in Entries /\ e.at = at /\ e.of = entry[i].of
  BY <1>1 DEF Entries
<1>3. entry' = [entry EXCEPT ![i] = e]
  OBVIOUS
<1> HIDE DEF e
<1> QED
  BY <1>2, <1>3, OneEntry

LEMMA RequestHolds ==
  ASSUME ConnectionsInv, NEW c \in Clients, NEW t \in BOOLEAN, Connections!Request(c, t)
  PROVE  ConnectionsInv'
<1>0. ConnectionTypes
  BY DEF ConnectionsInv
<1>1. PICK i \in Ids :
        /\ connectionsKind = "http" /\ client[c] = "serving" /\ entry[i].at = "none"
        /\ client' = [client EXCEPT ![c] = "serving"]
        /\ entry' = [entry EXCEPT ![i] = [at |-> "made", tunnel |-> t, of |-> {c}]]
        /\ UNCHANGED <<connectionsKind, connectionsServer, stop, busy, events, list, active, shown>>
  BY DEF Connections!Request, Connections!NextId, Connections!ClientStep
<1>2. client' \in [Clients -> Phases] /\ Taken' = Taken
  <2>1. client[c] # "free" /\ "serving" \in Phases \ {"free"}
    BY <1>1 DEF Phases
  <2> QED
    BY <1>0, <1>1, <2>1, SameTaken DEF ConnectionTypes
<1> DEFINE e == [at |-> "made", tunnel |-> t, of |-> {c}]
<1>3. e \in Entries /\ e.at = "made"
  BY DEF Entries
<1> HIDE DEF e
<1>4. /\ entry' \in [Ids -> Entries] /\ entry'[i] = e
      /\ \A j \in Ids : j # i => entry'[j] = entry[j]
  BY <1>0, <1>1, <1>3, OneEntry DEF e
<1>5. Connections!OpenIds' = Connections!OpenIds
  BY <1>1, <1>3, <1>4 DEF Connections!OpenIds, Connections!Live
<1>6. events' \in Seq(Events)
  BY <1>0, <1>1 DEF ConnectionTypes
<1> QED
  BY <1>1, <1>2, <1>4, <1>5, <1>6, HttpListed, HttpHolds

\* The steps of a client that leave what is relayed as it is.
LEMMA ClientStepHolds ==
  ASSUME ConnectionsInv, connectionsKind = "http", NEW c \in Clients, client[c] # "free",
         NEW at \in Phases \ {"free"}, NEW entries, Connections!ClientStep(c, at, entries),
         entry' \in [Ids -> Entries],
         \A i \in Ids : Connections!Live(i)' <=> Connections!Live(i)
  PROVE  ConnectionsInv'
<1>0. ConnectionTypes
  BY DEF ConnectionsInv
<1>1. /\ client' = [client EXCEPT ![c] = at]
      /\ UNCHANGED <<connectionsKind, connectionsServer, stop, busy, events, list, active, shown>>
  BY DEF Connections!ClientStep
<1>2. client' \in [Clients -> Phases] /\ Taken' = Taken
  BY <1>0, <1>1, SameTaken DEF ConnectionTypes
<1>3. Connections!OpenIds' = Connections!OpenIds
  BY DEF Connections!OpenIds
<1>4. events' \in Seq(Events)
  BY <1>0, <1>1 DEF ConnectionTypes
<1> QED
  BY <1>1, <1>2, <1>3, <1>4, HttpListed, HttpHolds

LEMMA ConnectionDoneHolds ==
  ASSUME ConnectionsInv, NEW c \in Clients, Connections!ConnectionDone(c)
  PROVE  ConnectionsInv'
<1>0. ConnectionTypes
  BY DEF ConnectionsInv
<1> DEFINE entries == [i \in Ids |->
               IF i \notin Connections!Of(c) THEN entry[i]
               ELSE IF ~entry[i].tunnel THEN Connections!Aborted(entry[i])
               ELSE IF entry[i].at = "made" THEN [entry[i] EXCEPT !.at = "spawned"]
               ELSE entry[i]]
<1>1. /\ connectionsKind = "http" /\ client[c] = "serving"
      /\ Connections!ClientStep(c, "closing", entries) /\ entry' = entries
  BY DEF Connections!ConnectionDone, Connections!ClientStep
<1>2. "closing" \in Phases \ {"free"} /\ client[c] # "free"
  BY <1>1 DEF Phases
<1>3. ASSUME NEW i \in Ids
      PROVE  entries[i] \in Entries /\ (entries[i].at \in {"relayed", "aborted"}
                                          <=> entry[i].at \in {"relayed", "aborted"})
  <2>1. entry[i] \in Entries
    BY <1>0 DEF ConnectionTypes
  <2>2. CASE i \in Connections!Of(c) /\ ~entry[i].tunnel
    <3>1. entries[i] = Connections!Aborted(entry[i])
      BY <2>2
    <3> HIDE DEF entries
    <3> QED
      BY <2>1, <3>1, AbortedIs
  <2>3. CASE i \in Connections!Of(c) /\ entry[i].tunnel /\ entry[i].at = "made"
    <3>1. entries[i] = [entry[i] EXCEPT !.at = "spawned"]
      BY <2>3
    <3> HIDE DEF entries
    <3> QED
      BY <2>1, <2>3, <3>1 DEF Entries
  <2>4. CASE i \notin Connections!Of(c) \/ (entry[i].tunnel /\ entry[i].at # "made")
    <3>1. entries[i] = entry[i]
      BY <2>4
    <3> HIDE DEF entries
    <3> QED
      BY <2>1, <3>1
  <2> QED
    BY <2>2, <2>3, <2>4
<1>4. entries = [i \in Ids |-> entries[i]]
  OBVIOUS
<1> HIDE DEF entries
<1>5. entry' \in [Ids -> Entries] /\ \A i \in Ids : Connections!Live(i)' <=> Connections!Live(i)
  BY <1>1, <1>3, <1>4 DEF Connections!Live
<1> QED
  BY <1>1, <1>2, <1>5, ClientStepHolds

LEMMA ClientDoneHolds ==
  ASSUME ConnectionsInv, NEW c \in Clients, Connections!ClientDone(c)
  PROVE  ConnectionsInv'
<1>1. /\ connectionsKind = "http" /\ client[c] = "closing"
      /\ Connections!ClientStep(c, "ended", entry) /\ entry' = entry
  BY DEF Connections!ClientDone, Connections!ClientStep
<1>2. "ended" \in Phases \ {"free"} /\ client[c] # "free"
  BY <1>1 DEF Phases
<1>3. entry' \in [Ids -> Entries] /\ \A i \in Ids : Connections!Live(i)' <=> Connections!Live(i)
  BY <1>1 DEF ConnectionsInv, ConnectionTypes, Connections!Live
<1> QED
  BY <1>1, <1>2, <1>3, ClientStepHolds

LEMMA ClientDroppedHolds ==
  ASSUME ConnectionsInv, NEW c \in Clients, Connections!ClientDropped(c)
  PROVE  ConnectionsInv'
<1>1. /\ connectionsKind = "http" /\ client[c] \in {"serving", "closing"}
      /\ Connections!ClientStep(c, "ended", Connections!AbortAll(Connections!Of(c)))
      /\ entry' = Connections!AbortAll(Connections!Of(c))
  BY DEF Connections!ClientDropped, Connections!ClientStep
<1>2. "ended" \in Phases \ {"free"} /\ client[c] # "free"
  BY <1>1 DEF Phases
<1>3. Connections!Of(c) \in SUBSET Ids
  BY DEF Connections!Of
<1>4. entry' \in [Ids -> Entries] /\ Connections!OpenIds' = Connections!OpenIds
  BY <1>1, <1>3, AbortedAll DEF ConnectionsInv
<1>5. \A i \in Ids : Connections!Live(i)' <=> Connections!Live(i)
  BY <1>4 DEF Connections!OpenIds
<1> QED
  BY <1>1, <1>2, <1>4, <1>5, ClientStepHolds

LEMMA SpawnJobHolds ==
  ASSUME ConnectionsInv, NEW i \in Ids, Connections!SpawnJob(i)
  PROVE  ConnectionsInv'
<1>0. ConnectionTypes
  BY DEF ConnectionsInv
<1>1. /\ connectionsKind = "http" /\ entry[i].at = "made"
      /\ entry' = [entry EXCEPT ![i].at = "spawned"]
      /\ UNCHANGED <<connectionsKind, connectionsServer, stop, client, busy, events, list, active, shown>>
  BY DEF Connections!SpawnJob
<1>2. /\ entry' \in [Ids -> Entries] /\ entry'[i].at = "spawned"
      /\ \A j \in Ids : j # i => entry'[j] = entry[j]
  BY <1>0, <1>1, ConnectionMoves
<1>3. Connections!OpenIds' = Connections!OpenIds
  BY <1>1, <1>2 DEF Connections!OpenIds, Connections!Live
<1>4. client' \in [Clients -> Phases] /\ Taken' = Taken /\ events' \in Seq(Events)
  BY <1>0, <1>1 DEF ConnectionTypes, Taken
<1> QED
  BY <1>1, <1>2, <1>3, <1>4, HttpListed, HttpHolds

\* The event of a relay, unless the server has ended.
LEMMA RelayIs ==
  ASSUME ConnectionTypes, NEW i \in Ids, NEW event \in {"opened", "closed"},
         events' = IF connectionsServer = "ended" THEN events ELSE Append(events, <<event, i>>)
  PROVE  /\ events' \in Seq(Events)
         /\ Up => Listed(list, events')
                    = IF event = "opened" THEN Listed(list, events) \cup {i}
                                          ELSE Listed(list, events) \ {i}
<1>1. events \in Seq(Events) /\ <<event, i>> \in Events
  BY DEF ConnectionTypes, Events
<1> DEFINE e == <<event, i>>
<1>2. e[1] = event /\ e[2] = i
  OBVIOUS
<1> HIDE DEF e
<1>3. /\ Append(events, e) \in Seq(Events)
      /\ Listed(list, Append(events, e)) = Connections!Apply(Listed(list, events), e)
  BY <1>1, AppendProperties, ListedAppend DEF e
<1>4. Connections!Apply(Listed(list, events), e)
        = IF event = "opened" THEN Listed(list, events) \cup {i} ELSE Listed(list, events) \ {i}
  BY <1>2 DEF Connections!Apply
<1>5. Up => events' = Append(events, e)
  BY DEF Up, e
<1>6. events' = events \/ events' = Append(events, e)
  BY DEF e
<1> QED
  BY <1>1, <1>3, <1>4, <1>5, <1>6

LEMMA RelayHolds ==
  ASSUME ConnectionsInv, NEW i \in Ids, Connections!Opened(i) \/ Connections!Closed(i)
  PROVE  ConnectionsInv'
<1>0. ConnectionTypes
  BY DEF ConnectionsInv
<1>1. ASSUME NEW from \in {"spawned", "relayed", "aborted"}, NEW to1 \in {"relayed", "gone"},
             NEW event \in {"opened", "closed"}, event = "opened" <=> to1 = "relayed",
             connectionsKind = "http", Connections!Relay(i, from, to1, event)
      PROVE  ConnectionsInv'
  <2>1. /\ entry[i].at = from /\ entry' = [entry EXCEPT ![i].at = to1]
        /\ events' = IF connectionsServer = "ended" THEN events ELSE Append(events, <<event, i>>)
        /\ UNCHANGED <<connectionsKind, connectionsServer, stop, client, busy, list, active, shown>>
    BY <1>1 DEF Connections!Relay
  <2>2. /\ entry' \in [Ids -> Entries] /\ entry'[i].at = to1
        /\ \A j \in Ids : j # i => entry'[j] = entry[j]
    <3>1. to1 \in {"none", "made", "spawned", "relayed", "aborted", "gone"}
      OBVIOUS
    <3> QED
      BY <1>0, <2>1, <3>1, ConnectionMoves
  <2>3. /\ events' \in Seq(Events)
        /\ Up => Listed(list, events')
                   = IF event = "opened" THEN Listed(list, events) \cup {i}
                                         ELSE Listed(list, events) \ {i}
    BY <1>0, <2>1, RelayIs
  <2>4. Connections!OpenIds' = IF event = "opened" THEN Connections!OpenIds \cup {i}
                                                   ELSE Connections!OpenIds \ {i}
    BY <1>1, <2>2 DEF Connections!OpenIds, Connections!Live
  <2>5. client' \in [Clients -> Phases] /\ Taken' = Taken
    BY <1>0, <2>1 DEF ConnectionTypes, Taken
  <2>6. Up => Connections!OpenIds' = Listed(list, events')
    BY <1>1, <2>3, <2>4, HttpListed
  <2> QED
    BY <1>1, <2>1, <2>2, <2>3, <2>5, <2>6, HttpHolds
<1>2. CASE Connections!Opened(i)
  BY <1>1, <1>2 DEF Connections!Opened
<1>3. CASE Connections!Closed(i)
  BY <1>1, <1>3 DEF Connections!Closed
<1> QED
  BY <1>2, <1>3

LEMMA NegotiatedHolds ==
  ASSUME ConnectionsInv, NEW i \in Ids, Connections!Negotiated(i)
  PROVE  ConnectionsInv'
<1>1. ConnectionTypes /\ CounterIsTrue /\ Published /\ EndedAreGone /\ ListedAreOpen
  BY DEF ConnectionsInv
<1>2. /\ Socks /\ entry[i].at = "made" /\ entry' = [entry EXCEPT ![i].at = "relayed"]
      /\ events' = IF connectionsServer = "ended" THEN events ELSE Append(events, <<"opened", i>>)
      /\ UNCHANGED <<connectionsKind, connectionsServer, stop, client, busy, list, active, shown>>
  BY DEF Connections!Negotiated, Connections!Relay, Socks
<1>3. /\ entry' \in [Ids -> Entries] /\ entry'[i].at = "relayed" /\ entry'[i].of = entry[i].of
      /\ \A j \in Ids : j # i => entry'[j] = entry[j]
  <2>1. "relayed" \in {"none", "made", "spawned", "relayed", "aborted", "gone"}
    OBVIOUS
  <2> QED
    BY <1>1, <1>2, <2>1, ConnectionMoves
<1>4. /\ events' \in Seq(Events)
      /\ Up => Listed(list, events') = Listed(list, events) \cup {i}
  <2>1. "opened" \in {"opened", "closed"}
    OBVIOUS
  <2> QED
    BY <1>1, <1>2, <2>1, RelayIs
<1>5. ConnectionTypes'
  BY <1>1, <1>2, <1>3, <1>4 DEF ConnectionTypes
<1>6. Published' /\ CounterIsTrue'
  BY <1>1, <1>2 DEF Published, CounterIsTrue, Taken, Up
<1>7. \A j \in Ids : Ghost(j)' <=> Ghost(j)
  BY <1>2, <1>3 DEF Ghost, Socks
<1>8. ListedAreOpen'
  <2> SUFFICES ASSUME Up PROVE ListedAreOpen'
    BY <1>2 DEF ListedAreOpen, Up
  <2>1. Connections!OpenIds' = Connections!OpenIds \cup {i}
    BY <1>3 DEF Connections!OpenIds, Connections!Live
  <2>2. {j \in Listed(list, events') : ~Ghost(j)'} = {j \in Listed(list, events) : ~Ghost(j)} \cup {i}
    <3>1. ~Ghost(i)
      BY <1>2 DEF Ghost
    <3> QED
      BY <1>4, <1>7, <3>1, ListedIsOfIds
  <2> QED
    BY <1>1, <1>2, <2>1, <2>2 DEF ListedAreOpen, Ghost, Socks
<1>9. EndedAreGone'
  <2> SUFFICES ASSUME Up PROVE EndedAreGone'
    BY <1>2 DEF EndedAreGone, Up
  <2>1. ASSUME NEW d \in Clients, client[d] = "ended", NEW j \in Ids, d \in entry'[j].of
        PROVE  entry'[j].at = "gone"
    <3>1. d \in entry[j].of
      BY <1>3, <2>1
    <3>2. entry[j].at = "gone"
      BY <1>1, <1>2, <2>1, <3>1 DEF EndedAreGone, Connections!Of, Socks
    <3> QED
      BY <1>2, <1>3, <3>2
  <2>2. ASSUME NEW j \in Listed(list, events'), entry'[j].at = "gone"
        PROVE  \E d \in entry'[j].of : client[d] = "ended"
    <3>1. j \in Ids /\ j # i /\ j \in Listed(list, events)
      BY <1>3, <1>4, <2>2, ListedIsOfIds
    <3>2. entry'[j] = entry[j]
      BY <1>3, <3>1
    <3> QED
      BY <1>1, <1>2, <2>2, <3>1, <3>2 DEF EndedAreGone, Socks
  <2> QED
    BY <1>2, <2>1, <2>2 DEF EndedAreGone, Connections!Of
<1> QED
  BY <1>5, <1>6, <1>8, <1>9 DEF ConnectionsInv

LEMMA ClientEndsHolds ==
  ASSUME ConnectionsInv, NEW c \in Clients, Connections!ClientEnds(c)
  PROVE  ConnectionsInv'
<1>1. ConnectionTypes /\ CounterIsTrue /\ Published /\ EndedAreGone /\ ListedAreOpen
  BY DEF ConnectionsInv
<1>2. /\ Socks /\ client[c] = "serving" /\ client' = [client EXCEPT ![c] = "ended"]
      /\ entry' = [i \in Ids |-> IF i \in Connections!Of(c) THEN [entry[i] EXCEPT !.at = "gone"]
                                                            ELSE entry[i]]
      /\ UNCHANGED <<connectionsKind, connectionsServer, stop, busy, events, list, active, shown>>
  BY DEF Connections!ClientEnds, Connections!ClientStep, Socks
<1>3. /\ entry' \in [Ids -> Entries]
      /\ \A i \in Ids : /\ entry'[i].of = entry[i].of
                        /\ entry'[i].at = IF c \in entry[i].of THEN "gone" ELSE entry[i].at
  BY <1>1, <1>2 DEF ConnectionTypes, Entries, Connections!Of
<1>4. client' \in [Clients -> Phases] /\ Taken' = Taken
  <2>1. client[c] # "free" /\ "ended" \in Phases \ {"free"}
    BY <1>2 DEF Phases
  <2> QED
    BY <1>1, <1>2, <2>1, SameTaken DEF ConnectionTypes
<1>5. client'[c] = "ended" /\ \A d \in Clients : d # c => client'[d] = client[d]
  BY <1>1, <1>2 DEF ConnectionTypes
<1>6. ConnectionTypes'
  BY <1>1, <1>2, <1>3, <1>4 DEF ConnectionTypes
<1>7. Published' /\ CounterIsTrue'
  BY <1>1, <1>2, <1>4 DEF Published, CounterIsTrue, Up
<1>8. ListedAreOpen'
  <2> SUFFICES ASSUME Up PROVE ListedAreOpen'
    BY <1>2 DEF ListedAreOpen, Up
  <2>1. \A i \in Ids : Connections!Live(i)' <=> Connections!Live(i) /\ c \notin entry[i].of
    BY <1>3 DEF Connections!Live
  <2>2. \A i \in Ids : Ghost(i)' <=> Ghost(i) \/ c \in entry[i].of
    BY <1>2, <1>3 DEF Ghost, Socks
  <2>3. {i \in Listed(list, events) : ~Ghost(i)} = Connections!OpenIds
    BY <1>1 DEF ListedAreOpen, Ghost, Socks
  <2>4. {i \in Listed(list, events) : ~Ghost(i)'} = Connections!OpenIds'
    BY <2>1, <2>2, <2>3, ListedIsOfIds DEF Connections!OpenIds
  <2> QED
    BY <1>2, <2>4 DEF ListedAreOpen, Ghost, Socks
<1>9. EndedAreGone'
  <2> SUFFICES ASSUME Up PROVE EndedAreGone'
    BY <1>2 DEF EndedAreGone, Up
  <2>1. ASSUME NEW d \in Clients, client'[d] = "ended", NEW i \in Ids, d \in entry'[i].of
        PROVE  entry'[i].at = "gone"
    <3>1. d \in entry[i].of
      BY <1>3, <2>1
    <3>2. CASE d = c
      BY <1>3, <3>1, <3>2
    <3>3. CASE d # c
      <4>1. entry[i].at = "gone"
        BY <1>1, <1>2, <1>5, <2>1, <3>1, <3>3 DEF EndedAreGone, Connections!Of, Socks
      <4> QED
        BY <1>3, <4>1
    <3> QED
      BY <3>2, <3>3
  <2>2. ASSUME NEW i \in Listed(list, events), entry'[i].at = "gone"
        PROVE  \E d \in entry'[i].of : client'[d] = "ended"
    <3>1. i \in Ids /\ entry[i].of \subseteq Clients
      BY <1>1, ListedIsOfIds DEF ConnectionTypes, Entries
    <3>2. CASE c \in entry[i].of
      BY <1>3, <1>5, <3>1, <3>2
    <3>3. CASE c \notin entry[i].of
      <4>1. entry[i].at = "gone"
        BY <1>3, <2>2, <3>1, <3>3
      <4>2. PICK d \in entry[i].of : client[d] = "ended"
        BY <1>1, <1>2, <4>1 DEF EndedAreGone, Socks
      <4>3. d \in entry'[i].of /\ client'[d] = "ended"
        BY <1>3, <1>5, <3>1, <3>3, <4>2
      <4> QED
        BY <4>3
    <3> QED
      BY <3>2, <3>3
  <2> QED
    BY <1>2, <2>1, <2>2 DEF EndedAreGone, Connections!Of
<1> QED
  BY <1>6, <1>7, <1>8, <1>9 DEF ConnectionsInv

LEMMA ConnectionsKept ==
  ASSUME ConnectionsInv, Connections!Next
  PROVE  ConnectionsInv'
<1>1. CASE \E c \in Clients : Connections!Accept(c) \/ Connections!Join(c) \/ Connections!Task(c)
                                \/ (\E t \in BOOLEAN : Connections!Request(c, t))
  BY <1>1, AcceptHolds, JoinHolds, ConnectionDoneHolds, ClientDoneHolds, ClientDroppedHolds,
     ClientEndsHolds, RequestHolds DEF Connections!Task
<1>2. CASE \/ Connections!AcceptBusy \/ Connections!BusyEnds \/ Connections!Stop
           \/ Connections!BreakOnStop \/ Connections!End
  BY <1>2, ServerHolds
<1>3. CASE Connections!Receive
  BY <1>3, ReceiveHolds
<1>4. CASE Connections!AcceptFails \/ Connections!AbortServer
  BY <1>4, DroppedHolds DEF Connections!AcceptFails, Connections!AbortServer
<1>5. CASE \E i \in Ids : Connections!RelayStep(i)
  BY <1>5, SpawnJobHolds, RelayHolds, NegotiatedHolds DEF Connections!RelayStep
<1> QED
  BY <1>1, <1>2, <1>3, <1>4, <1>5 DEF Connections!Next

LEMMA ConnectionsStart == Connections!Init => ConnectionsInv
<1> SUFFICES ASSUME Connections!Init PROVE ConnectionsInv
  OBVIOUS
<1>1. /\ client = [c \in Clients |-> "free"] /\ entry = [i \in Ids |-> Connections!Fresh]
      /\ events = <<>> /\ list = {} /\ active = 0 /\ shown = [count |-> 0, list |-> {}]
      /\ connectionsServer = "up" /\ stop = FALSE /\ busy = 0
      /\ connectionsKind \in {"http", "socks5"}
  BY DEF Connections!Init
<1>2. Connections!Fresh \in Entries /\ Connections!Fresh.at = "none" /\ Connections!Fresh.of = {}
  BY DEF Connections!Fresh, Entries
<1>3. Taken = {} /\ Cardinality(Taken) = 0 /\ 0 \in Numbers
  <2>1. Taken = {}
    BY <1>1 DEF Taken
  <2>2. Cardinality(Taken) = 0
    BY <2>1, FS_EmptySet
  <2> QED
    BY <2>1, <2>2, TakenIs
<1>4. Listed(list, events) = {}
  BY <1>1, ListedNothing
<1>5. ConnectionTypes
  <2>1. client \in [Clients -> Phases] /\ entry \in [Ids -> Entries]
    BY <1>1, <1>2 DEF Phases
  <2>2. events \in Seq(Events)
    BY <1>1
  <2>3. shown \in [count : Numbers, list : SUBSET Ids] /\ list \subseteq Ids /\ active \in Numbers
    BY <1>1, <1>3
  <2>4. busy \in 0..MaxRejected
    BY <1>1, ConnectionsAssumption
  <2> QED
    BY <1>1, <2>1, <2>2, <2>3, <2>4 DEF ConnectionTypes
<1>6. CounterIsTrue /\ Published
  BY <1>1, <1>3 DEF CounterIsTrue, Published
<1>7. ListedAreOpen
  BY <1>1, <1>2, <1>4 DEF ListedAreOpen, Connections!OpenIds, Connections!Live
<1>8. EndedAreGone
  BY <1>1, <1>4 DEF EndedAreGone
<1> QED
  BY <1>5, <1>6, <1>7, <1>8 DEF ConnectionsInv

\* What the run checks follows from the invariant.
LEMMA ConnectionsGoal ==
  ASSUME ConnectionsInv
  PROVE  Connections!TypeOK /\ Connections!ListIsTheConnections /\ Connections!ShownIsTheConnections
<1>0. \A S : Connections!Cardinality(S) = Cardinality(S)
  BY DEF Connections!Cardinality, Cardinality
<1>1. ConnectionTypes /\ CounterIsTrue /\ Published /\ EndedAreGone /\ ListedAreOpen
  BY DEF ConnectionsInv
<1>2. Connections!TypeOK
  BY <1>0, <1>1 DEF ConnectionTypes, Connections!TypeOK, Phases, Entries, Events, Numbers
<1>3. Connections!Drained(list) = Listed(list, events)
  BY <1>1, ListAfterEvents DEF ConnectionTypes
<1>4. Connections!ListIsTheConnections
  <2> SUFFICES ASSUME Up
               PROVE  Connections!Drained(list) \ {i \in Ids : connectionsKind = "socks5" /\ entry[i].at = "gone"}
                        = Connections!OpenIds
    BY DEF Connections!ListIsTheConnections, Up
  <2> QED
    BY <1>1, <1>3, ListedIsOfIds DEF ListedAreOpen
<1>5. Connections!ShownIsTheConnections
  <2> SUFFICES ASSUME Connections!Quiet
               PROVE  shown = [count |-> Connections!Cardinality(Connections!Permits),
                               list |-> Connections!OpenIds]
    BY DEF Connections!ShownIsTheConnections
  <2>1. Up /\ ~stop /\ events = <<>> /\ \A c \in Clients : client[c] # "ended"
    BY DEF Connections!Quiet, Up
  <2>2. Connections!Permits = Taken
    BY <1>1, <2>1 DEF ConnectionTypes, Phases, Connections!Permits, Taken
  <2>3. active = Connections!Cardinality(Connections!Permits)
    BY <1>0, <1>1, <2>1, <2>2 DEF CounterIsTrue, Up
  <2>4. Listed(list, events) = list /\ list \subseteq Ids
    BY <1>1, <2>1, ListedNothing DEF ConnectionTypes
  <2>5. \A i \in list : ~(connectionsKind = "socks5" /\ entry[i].at = "gone")
    <3>1. \A i \in list : entry[i].of \subseteq Clients
      BY <1>1, <2>4 DEF ConnectionTypes, Entries
    <3> QED
      BY <1>1, <2>1, <2>4, <3>1 DEF EndedAreGone
  <2>6. list = Connections!OpenIds
    BY <1>1, <2>1, <2>4, <2>5 DEF ListedAreOpen
  <2> QED
    BY <1>1, <2>1, <2>3, <2>6 DEF Published
<1> QED
  BY <1>2, <1>4, <1>5

-----------------------------------------------------------------------------
(* ReverseForwards                                                         *)

\* A listener is in the map of its connection until it is aborted.
InMapUntilAborted ==
  \A p \in BindPorts : task[p] # NoConn => p \in listeners[task[p]] \/ p \in aborted
RelaysBounded ==
  \A p \in BindPorts : relays[p].opening + relays[p].copying + relays[p].leaving <= MaxRelays
ForwardsInv ==
  /\ Forwards!TypeOK /\ Forwards!OpenPortsWereAsked /\ InMapUntilAborted /\ RelaysBounded

RelayCounts == [opening : 0..MaxRelays, copying : 0..MaxRelays, leaving : 0..MaxRelays]

LEMMA NoRelaysIs ==
  /\ Forwards!NoRelays \in RelayCounts
  /\ Forwards!NoRelays.opening = 0 /\ Forwards!NoRelays.copying = 0 /\ Forwards!NoRelays.leaving = 0
BY ForwardsAssumption DEF Forwards!NoRelays, RelayCounts

LEMMA StartHolds ==
  ASSUME ForwardsInv, NEW c \in Conns, NEW p \in BindPorts, NEW asked, Forwards!Start(c, asked, p)
  PROVE  ForwardsInv'
<1>1. /\ Forwards!TypeOK /\ Forwards!OpenPortsWereAsked /\ InMapUntilAborted /\ RelaysBounded
  BY DEF ForwardsInv
<1>2. /\ task[p] = NoConn /\ task' = [task EXCEPT ![p] = c]
      /\ listeners' = [listeners EXCEPT ![c] = @ \cup {p}]
      /\ forwardsTold' = [forwardsTold EXCEPT ![c] = @ \cup {p}]
      /\ UNCHANGED <<forwardsConn, cancelling, aborted, relays>>
  BY DEF Forwards!Start
<1>3. Forwards!TypeOK'
  BY <1>1, <1>2 DEF Forwards!TypeOK
<1>4. /\ task'[p] = c /\ p \in listeners'[c] /\ p \in forwardsTold'[c]
      /\ \A q \in BindPorts : q # p => task'[q] = task[q]
      /\ \A d \in Conns : listeners[d] \subseteq listeners'[d] /\ forwardsTold[d] \subseteq forwardsTold'[d]
      /\ \A q \in BindPorts : task[q] \in Conns \cup {NoConn}
  BY <1>1, <1>2 DEF Forwards!TypeOK
<1>5. Forwards!OpenPortsWereAsked'
  BY <1>1, <1>2, <1>4, ForwardsAssumption DEF Forwards!OpenPortsWereAsked, Forwards!Live
<1>6. InMapUntilAborted'
  BY <1>1, <1>2, <1>4 DEF InMapUntilAborted
<1>7. RelaysBounded'
  BY <1>1, <1>2 DEF RelaysBounded
<1> QED
  BY <1>3, <1>5, <1>6, <1>7 DEF ForwardsInv

LEMMA CancelHolds ==
  ASSUME ForwardsInv, NEW c \in Conns, NEW p \in BindPorts, Forwards!Cancel(c, p)
  PROVE  ForwardsInv'
<1>1. /\ Forwards!TypeOK /\ Forwards!OpenPortsWereAsked /\ InMapUntilAborted /\ RelaysBounded
  BY DEF ForwardsInv
<1>2. /\ forwardsConn[c] = "up" /\ listeners' = [listeners EXCEPT ![c] = @ \ {p}]
      /\ aborted' = IF task[p] = c THEN aborted \cup {p} ELSE aborted
      /\ forwardsConn' = [forwardsConn EXCEPT ![c] = "cancel"]
      /\ cancelling' = [cancelling EXCEPT ![c] = p]
      /\ UNCHANGED <<task, relays, forwardsTold>>
  BY DEF Forwards!Cancel
<1>3. Forwards!TypeOK'
  BY <1>1, <1>2 DEF Forwards!TypeOK
<1>4. /\ \A d \in Conns : forwardsConn[d] = "down" => forwardsConn'[d] = "down"
      /\ \A d \in Conns, q \in BindPorts :
           q \in listeners[d] => q \in listeners'[d] \/ (d = c /\ q = p)
      /\ aborted \subseteq aborted' /\ (task[p] = c => p \in aborted')
      /\ \A q \in BindPorts : task[q] \in Conns \cup {NoConn}
  BY <1>1, <1>2 DEF Forwards!TypeOK
<1>5. Forwards!OpenPortsWereAsked'
  BY <1>1, <1>2, <1>4 DEF Forwards!OpenPortsWereAsked, Forwards!Live
<1>6. InMapUntilAborted'
  BY <1>1, <1>2, <1>4 DEF InMapUntilAborted
<1>7. RelaysBounded'
  BY <1>1, <1>2 DEF RelaysBounded
<1> QED
  BY <1>3, <1>5, <1>6, <1>7 DEF ForwardsInv

LEMMA CancelledHolds ==
  ASSUME ForwardsInv, NEW c \in Conns, Forwards!Cancelled(c)
  PROVE  ForwardsInv'
<1>1. /\ Forwards!TypeOK /\ Forwards!OpenPortsWereAsked /\ InMapUntilAborted /\ RelaysBounded
  BY DEF ForwardsInv
<1>2. /\ forwardsConn[c] = "cancel" /\ task[cancelling[c]] # c
      /\ forwardsConn' = [forwardsConn EXCEPT ![c] = "up"]
      /\ cancelling' = [cancelling EXCEPT ![c] = 0]
      /\ forwardsTold' = [forwardsTold EXCEPT ![c] = @ \ {cancelling[c]}]
      /\ UNCHANGED <<listeners, task, aborted, relays>>
  BY DEF Forwards!Cancelled
<1>3. Forwards!TypeOK'
  BY <1>1, <1>2 DEF Forwards!TypeOK
<1>4. /\ \A d \in Conns : forwardsConn[d] = "down" => forwardsConn'[d] = "down"
      /\ \A d \in Conns, q \in BindPorts :
           q \in forwardsTold[d] => q \in forwardsTold'[d] \/ (d = c /\ q = cancelling[c])
      /\ \A q \in BindPorts : task[q] \in Conns \cup {NoConn}
  BY <1>1, <1>2 DEF Forwards!TypeOK
<1>5. Forwards!OpenPortsWereAsked'
  BY <1>1, <1>2, <1>4 DEF Forwards!OpenPortsWereAsked, Forwards!Live
<1>6. InMapUntilAborted' /\ RelaysBounded'
  BY <1>1, <1>2 DEF InMapUntilAborted, RelaysBounded
<1> QED
  BY <1>3, <1>5, <1>6 DEF ForwardsInv

LEMMA DownHolds ==
  ASSUME ForwardsInv, NEW c \in Conns, Forwards!Down(c)
  PROVE  ForwardsInv'
<1>1. /\ Forwards!TypeOK /\ Forwards!OpenPortsWereAsked /\ InMapUntilAborted /\ RelaysBounded
  BY DEF ForwardsInv
<1>2. /\ forwardsConn' = [forwardsConn EXCEPT ![c] = "down"]
      /\ aborted' = aborted \cup {p \in listeners[c] : task[p] = c}
      /\ listeners' = [listeners EXCEPT ![c] = {}]
      /\ forwardsTold' = [forwardsTold EXCEPT ![c] = {}]
      /\ UNCHANGED <<cancelling, task, relays>>
  BY DEF Forwards!Down
<1>3. Forwards!TypeOK'
  BY <1>1, <1>2 DEF Forwards!TypeOK
<1>4. /\ \A d \in Conns : forwardsConn[d] = "down" => forwardsConn'[d] = "down"
      /\ forwardsConn'[c] = "down"
      /\ \A d \in Conns : d # c => listeners'[d] = listeners[d] /\ forwardsTold'[d] = forwardsTold[d]
      /\ aborted \subseteq aborted'
      /\ \A q \in BindPorts : task[q] \in Conns \cup {NoConn}
  BY <1>1, <1>2 DEF Forwards!TypeOK
<1>5. \A q \in BindPorts : task[q] = c /\ c # NoConn => q \in aborted'
  BY <1>1, <1>2 DEF InMapUntilAborted
<1>6. Forwards!OpenPortsWereAsked'
  BY <1>1, <1>2, <1>4, <1>5 DEF Forwards!OpenPortsWereAsked, Forwards!Live
<1>7. InMapUntilAborted'
  BY <1>1, <1>2, <1>4, <1>5 DEF InMapUntilAborted
<1>8. RelaysBounded'
  BY <1>1, <1>2 DEF RelaysBounded
<1> QED
  BY <1>3, <1>6, <1>7, <1>8 DEF ForwardsInv

\* What the ending of a task leaves of its relays: all of them, aborted.
LEMMA DroppedRelays ==
  ASSUME ForwardsInv, NEW p \in BindPorts, Forwards!Dropped(p)
  PROVE  /\ task' = [task EXCEPT ![p] = NoConn]
         /\ relays' \in [BindPorts -> RelayCounts]
         /\ relays'[p].opening = 0 /\ relays'[p].copying = 0 /\ relays'[p].leaving <= MaxRelays
         /\ \A q \in BindPorts : q # p => relays'[q] = relays[q]
<1> DEFINE n == relays[p].leaving + Forwards!Live(p)  left == [Forwards!NoRelays EXCEPT !.leaving = n]
<1>1. task' = [task EXCEPT ![p] = NoConn] /\ relays' = [relays EXCEPT ![p] = left]
  BY DEF Forwards!Dropped
<1>2. relays \in [BindPorts -> RelayCounts] /\ MaxRelays \in Nat
  BY ForwardsAssumption DEF ForwardsInv, Forwards!TypeOK, RelayCounts
<1>3. n \in 0..MaxRelays
  <2>1. /\ relays[p].opening \in 0..MaxRelays /\ relays[p].copying \in 0..MaxRelays
        /\ relays[p].leaving \in 0..MaxRelays
    BY <1>2 DEF RelayCounts
  <2>2. relays[p].opening + relays[p].copying + relays[p].leaving <= MaxRelays
    BY DEF ForwardsInv, RelaysBounded
  <2> QED
    BY <1>2, <2>1, <2>2 DEF Forwards!Live
<1> HIDE DEF n
<1>4. left \in RelayCounts /\ left.opening = 0 /\ left.copying = 0 /\ left.leaving = n
  BY <1>2, <1>3 DEF Forwards!NoRelays, RelayCounts
<1> HIDE DEF left
<1>5. /\ relays' \in [BindPorts -> RelayCounts] /\ relays'[p] = left
      /\ \A q \in BindPorts : q # p => relays'[q] = relays[q]
  BY <1>1, <1>2, <1>4
<1> QED
  BY <1>1, <1>2, <1>3, <1>4, <1>5

LEMMA ListenerEndsHolds ==
  ASSUME ForwardsInv, NEW p \in BindPorts, Forwards!TaskEnds(p) \/ Forwards!AcceptFails(p)
  PROVE  ForwardsInv'
<1>1. /\ Forwards!TypeOK /\ Forwards!OpenPortsWereAsked /\ InMapUntilAborted /\ RelaysBounded
  BY DEF ForwardsInv
<1>2. /\ Forwards!Dropped(p)
      /\ aborted' = aborted \ {p} \/ aborted' = aborted
      /\ UNCHANGED <<forwardsConn, cancelling, listeners, forwardsTold>>
  BY DEF Forwards!TaskEnds, Forwards!AcceptFails
<1>3. /\ task' = [task EXCEPT ![p] = NoConn]
      /\ relays' \in [BindPorts -> RelayCounts]
      /\ relays'[p].opening = 0 /\ relays'[p].copying = 0 /\ relays'[p].leaving <= MaxRelays
      /\ \A q \in BindPorts : q # p => relays'[q] = relays[q]
  BY <1>2, DroppedRelays
<1>4. Forwards!TypeOK'
  BY <1>1, <1>2, <1>3 DEF Forwards!TypeOK, RelayCounts
<1>5. /\ task'[p] = NoConn
      /\ \A q \in BindPorts : q # p => task'[q] = task[q] /\ (q \in aborted' <=> q \in aborted)
  BY <1>1, <1>2, <1>3 DEF Forwards!TypeOK
<1>6. Forwards!OpenPortsWereAsked'
  BY <1>1, <1>2, <1>3, <1>5 DEF Forwards!OpenPortsWereAsked, Forwards!Live
<1>7. InMapUntilAborted'
  BY <1>1, <1>2, <1>5 DEF InMapUntilAborted
<1>8. RelaysBounded'
  <2>1. relays'[p].leaving \in 0..MaxRelays
    BY <1>3 DEF RelayCounts
  <2>2. relays'[p].opening + relays'[p].copying + relays'[p].leaving <= MaxRelays
    BY <1>3, <2>1, ForwardsAssumption
  <2> QED
    BY <1>1, <1>3, <2>2 DEF RelaysBounded
<1> QED
  BY <1>4, <1>6, <1>7, <1>8 DEF ForwardsInv

LEMMA RelaysHold ==
  ASSUME ForwardsInv, NEW p \in BindPorts,
         \/ Forwards!Accept(p) \/ Forwards!ChannelOpened(p) \/ Forwards!CopyEnds(p)
         \/ Forwards!RelayLeaves(p)
  PROVE  ForwardsInv'
<1>1. /\ Forwards!TypeOK /\ Forwards!OpenPortsWereAsked /\ InMapUntilAborted /\ RelaysBounded
  BY DEF ForwardsInv
<1>2. UNCHANGED <<forwardsConn, cancelling, listeners, task, aborted, forwardsTold>>
  BY DEF Forwards!Accept, Forwards!ChannelOpened, Forwards!CopyEnds, Forwards!RelayLeaves
<1> DEFINE o == relays[p].opening  k == relays[p].copying  l == relays[p].leaving
<1>3. /\ relays \in [BindPorts -> RelayCounts] /\ relays[p] \in RelayCounts /\ MaxRelays \in Nat
      /\ o \in 0..MaxRelays /\ k \in 0..MaxRelays /\ l \in 0..MaxRelays
      /\ o + k + l <= MaxRelays
  BY <1>1, ForwardsAssumption DEF Forwards!TypeOK, RelayCounts, RelaysBounded
<1>4. relays[p] = [opening |-> o, copying |-> k, leaving |-> l]
  BY <1>3 DEF RelayCounts
<1>5. \E a, b, e \in 0..MaxRelays :
        /\ a + b + e <= MaxRelays /\ (a + b > 0 => task[p] # NoConn)
        /\ relays' = [relays EXCEPT ![p] = [opening |-> a, copying |-> b, leaving |-> e]]
  <2>1. CASE Forwards!Accept(p)
    <3>1. o + 1 \in 0..MaxRelays /\ (o + 1) + k + l <= MaxRelays
      BY <1>3, <2>1 DEF Forwards!Accept, Forwards!Live
    <3>2. relays' = [relays EXCEPT ![p] = [opening |-> o + 1, copying |-> k, leaving |-> l]]
      <4>1. relays' = [relays EXCEPT ![p] = [relays[p] EXCEPT !.opening = o + 1]]
        BY <1>3, <2>1 DEF Forwards!Accept
      <4>2. [relays[p] EXCEPT !.opening = o + 1] = [opening |-> o + 1, copying |-> k, leaving |-> l]
        BY <1>4
      <4> QED
        BY <4>1, <4>2
    <3> QED
      BY <1>3, <2>1, <3>1, <3>2 DEF Forwards!Accept
  <2>2. CASE Forwards!ChannelOpened(p)
    <3>1. /\ o - 1 \in 0..MaxRelays /\ (o - 1) + k + l <= MaxRelays
          /\ k + 1 \in 0..MaxRelays /\ (o - 1) + (k + 1) + l <= MaxRelays
          /\ task[p] # NoConn
      BY <1>1, <1>3, <2>2 DEF Forwards!ChannelOpened, Forwards!OpenPortsWereAsked, Forwards!Live
    <3>2. \/ relays' = [relays EXCEPT ![p] = [opening |-> o - 1, copying |-> k + 1, leaving |-> l]]
          \/ relays' = [relays EXCEPT ![p] = [opening |-> o - 1, copying |-> k, leaving |-> l]]
      BY <1>3, <2>2 DEF Forwards!ChannelOpened, RelayCounts
    <3> QED
      BY <1>3, <3>1, <3>2
  <2>3. CASE Forwards!CopyEnds(p)
    <3>1. /\ k - 1 \in 0..MaxRelays /\ o + (k - 1) + l <= MaxRelays
          /\ task[p] # NoConn
      BY <1>1, <1>3, <2>3 DEF Forwards!CopyEnds, Forwards!OpenPortsWereAsked, Forwards!Live
    <3>2. relays' = [relays EXCEPT ![p] = [opening |-> o, copying |-> k - 1, leaving |-> l]]
      <4>1. relays' = [relays EXCEPT ![p] = [relays[p] EXCEPT !.copying = k - 1]]
        BY <1>3, <2>3 DEF Forwards!CopyEnds
      <4>2. [relays[p] EXCEPT !.copying = k - 1] = [opening |-> o, copying |-> k - 1, leaving |-> l]
        BY <1>4
      <4> QED
        BY <4>1, <4>2
    <3> QED
      BY <1>3, <3>1, <3>2
  <2>4. CASE Forwards!RelayLeaves(p)
    <3>1. l - 1 \in 0..MaxRelays /\ o + k + (l - 1) <= MaxRelays
      BY <1>3, <2>4 DEF Forwards!RelayLeaves
    <3>2. relays' = [relays EXCEPT ![p] = [opening |-> o, copying |-> k, leaving |-> l - 1]]
      <4>1. relays' = [relays EXCEPT ![p] = [relays[p] EXCEPT !.leaving = l - 1]]
        BY <1>3, <2>4 DEF Forwards!RelayLeaves
      <4>2. [relays[p] EXCEPT !.leaving = l - 1] = [opening |-> o, copying |-> k, leaving |-> l - 1]
        BY <1>4
      <4> QED
        BY <4>1, <4>2
    <3>3. o + k > 0 => task[p] # NoConn
      BY <1>1 DEF Forwards!OpenPortsWereAsked, Forwards!Live
    <3> QED
      BY <1>3, <3>1, <3>2, <3>3
  <2> QED
    BY <2>1, <2>2, <2>3, <2>4
<1>6. /\ relays' \in [BindPorts -> RelayCounts]
      /\ relays'[p].opening + relays'[p].copying + relays'[p].leaving <= MaxRelays
      /\ relays'[p].opening + relays'[p].copying > 0 => task[p] # NoConn
      /\ \A q \in BindPorts : q # p => relays'[q] = relays[q]
  <2>1. PICK a, b, e \in 0..MaxRelays :
          /\ a + b + e <= MaxRelays /\ (a + b > 0 => task[p] # NoConn)
          /\ relays' = [relays EXCEPT ![p] = [opening |-> a, copying |-> b, leaving |-> e]]
    BY <1>5
  <2>2. /\ relays'[p] = [opening |-> a, copying |-> b, leaving |-> e]
        /\ \A q \in BindPorts : q # p => relays'[q] = relays[q]
        /\ relays' = [q \in BindPorts |-> relays'[q]]
    BY <1>3, <2>1
  <2>3. relays'[p] \in RelayCounts
    BY <2>2 DEF RelayCounts
  <2> QED
    BY <1>3, <2>1, <2>2, <2>3
<1>7. Forwards!TypeOK'
  BY <1>1, <1>2, <1>6 DEF Forwards!TypeOK, RelayCounts
<1>8. Forwards!OpenPortsWereAsked'
  BY <1>1, <1>2, <1>6 DEF Forwards!OpenPortsWereAsked, Forwards!Live
<1>9. InMapUntilAborted' /\ RelaysBounded'
  BY <1>1, <1>2, <1>6 DEF InMapUntilAborted, RelaysBounded
<1> QED
  BY <1>7, <1>8, <1>9 DEF ForwardsInv

LEMMA ForwardsKept ==
  ASSUME ForwardsInv, Forwards!Next
  PROVE  ForwardsInv'
BY StartHolds, CancelHolds, CancelledHolds, DownHolds, ListenerEndsHolds, RelaysHold
DEF Forwards!Next

LEMMA ForwardsStart == Forwards!Init => ForwardsInv
<1> SUFFICES ASSUME Forwards!Init PROVE ForwardsInv
  OBVIOUS
<1>1. Forwards!TypeOK
  BY NoRelaysIs DEF Forwards!Init, Forwards!TypeOK, RelayCounts
<1>2. Forwards!OpenPortsWereAsked /\ InMapUntilAborted
  BY NoRelaysIs DEF Forwards!Init, Forwards!OpenPortsWereAsked, Forwards!Live, InMapUntilAborted
<1>3. RelaysBounded
  BY NoRelaysIs, ForwardsAssumption DEF Forwards!Init, RelaysBounded
<1> QED
  BY <1>1, <1>2, <1>3 DEF ForwardsInv

LEMMA ForwardsStutter == ForwardsInv /\ UNCHANGED forwardsState => ForwardsInv'
<1> SUFFICES ASSUME ForwardsInv, UNCHANGED forwardsState PROVE ForwardsInv'
  OBVIOUS
<1>1. Forwards!TypeOK'
  BY DEF ForwardsInv, forwardsState, Forwards!TypeOK
<1>2. Forwards!OpenPortsWereAsked'
  BY DEF ForwardsInv, forwardsState, Forwards!OpenPortsWereAsked, Forwards!Live
<1>3. InMapUntilAborted' /\ RelaysBounded'
  BY DEF ForwardsInv, forwardsState, InMapUntilAborted, RelaysBounded
<1> QED
  BY <1>1, <1>2, <1>3 DEF ForwardsInv

-----------------------------------------------------------------------------
(* SshServerSession                                                        *)

Outputs == {"data", "exit"}
ThreadStates == {"none", "run", "blocked", "check", "exiting", "ended"}
ShellTypes ==
  /\ shell \in [ShellIds -> ThreadStates]
  /\ pty \in [ShellIds -> [unread : Nat, over : BOOLEAN]]
  /\ output \in [ShellIds -> Seq(Outputs)]
  /\ pump \in [ShellIds -> [at : {"none", "wait", "send", "ended"}, message : Outputs \cup {"none"}]]
  /\ queue \in Seq([from : ShellIds, message : Outputs]) /\ shellsTold \subseteq ShellIds
  /\ \A s \in ShellIds : pump[s].at = "send" => pump[s].message \in Outputs
\* A shell that was not started has said nothing.
Unstarted ==
  \A s \in ShellIds : shell[s] = "none" =>
    /\ output[s] = <<>> /\ pump[s].at = "none" /\ s \notin shellsTold
    /\ \A i \in DOMAIN queue : queue[i].from # s
\* A thread exits because its program is over.
ExitIsOver == \A s \in ShellIds : shell[s] = "exiting" => pty[s].over
\* The exit is the last of the output, which the thread ends with,
LastOfOutput ==
  \A s \in ShellIds : \A i \in DOMAIN output[s] :
    output[s][i] = "exit" => i = Len(output[s]) /\ shell[s] = "ended" /\ pty[s].over
\* the last the pump takes,
LastOfPump ==
  \A s \in ShellIds : pump[s].at = "send" /\ pump[s].message = "exit" =>
    output[s] = <<>> /\ shell[s] = "ended" /\ pty[s].over
\* and the last of its shell in the queue of the session loop.
LastOfQueue ==
  \A i \in DOMAIN queue : queue[i].message = "exit" =>
    LET s == queue[i].from
    IN /\ output[s] = <<>> /\ pump[s].at = "ended" /\ shell[s] = "ended" /\ pty[s].over
       /\ \A j \in DOMAIN queue : j > i => queue[j].from # s
ToldLast ==
  \A s \in shellsTold : /\ output[s] = <<>> /\ pump[s].at = "ended" /\ shell[s] = "ended"
                        /\ pty[s].over
                        /\ \A i \in DOMAIN queue : queue[i].from # s
ShellsInv ==
  /\ ShellTypes /\ Unstarted /\ ExitIsOver /\ LastOfOutput /\ LastOfPump /\ LastOfQueue /\ ToldLast

LEMMA ShellParts ==
  ShellsInv => /\ ShellTypes /\ Unstarted /\ ExitIsOver /\ LastOfOutput /\ LastOfPump /\ LastOfQueue /\ ToldLast
               /\ Len(queue) \in Nat /\ DOMAIN queue = 1..Len(queue)
               /\ \A i \in DOMAIN queue : queue[i].from \in ShellIds /\ queue[i].message \in Outputs
               /\ \A s \in ShellIds : Len(output[s]) \in Nat /\ DOMAIN output[s] = 1..Len(output[s])
                                      /\ output[s] \in Seq(Outputs)
<1> SUFFICES ASSUME ShellsInv
             PROVE  /\ Len(queue) \in Nat /\ DOMAIN queue = 1..Len(queue)
                    /\ \A i \in DOMAIN queue : queue[i].from \in ShellIds /\ queue[i].message \in Outputs
                    /\ \A s \in ShellIds : Len(output[s]) \in Nat /\ DOMAIN output[s] = 1..Len(output[s])
                                           /\ output[s] \in Seq(Outputs)
  BY DEF ShellsInv
<1> DEFINE Messages == [from : ShellIds, message : Outputs]
<1>1. queue \in Seq(Messages) /\ \A s \in ShellIds : output[s] \in Seq(Outputs)
  BY DEF ShellsInv, ShellTypes
<1>2. \A m \in Messages : m.from \in ShellIds /\ m.message \in Outputs
  OBVIOUS
<1> HIDE DEF Messages
<1>3. Len(queue) \in Nat /\ DOMAIN queue = 1..Len(queue) /\ \A i \in DOMAIN queue : queue[i] \in Messages
  BY <1>1, LenProperties, ElementOfSeq
<1>4. \A s \in ShellIds : Len(output[s]) \in Nat /\ DOMAIN output[s] = 1..Len(output[s])
  BY <1>1, LenProperties
<1> QED
  BY <1>1, <1>2, <1>3, <1>4

\* The handlers, the commands, the program and the poll of a shell say nothing: a
\* thread ends or goes on, and neither it nor its program starts again.
LEMMA SilentHolds ==
  ASSUME ShellsInv, UNCHANGED <<output, queue, shellsTold>>,
         pty' \in [ShellIds -> [unread : Nat, over : BOOLEAN]],
         \A s \in ShellIds : /\ pty[s].over => pty'[s].over
                             /\ shell'[s] = "exiting" => pty'[s].over,
         shell' \in [ShellIds -> ThreadStates],
         \A s \in ShellIds : /\ shell'[s] = "none" => shell[s] = "none"
                             /\ shell[s] = "ended" => shell'[s] = "ended",
         pump' \in [ShellIds -> [at : {"none", "wait", "send", "ended"},
                                 message : Outputs \cup {"none"}]],
         \A s \in ShellIds : \/ pump'[s] = pump[s]
                             \/ /\ shell[s] = "none" \/ output[s] = <<>>
                                /\ shell'[s] # "none"
                                /\ pump[s].at # "ended" /\ pump'[s].at # "send"
  PROVE  ShellsInv'
<1>1. /\ ShellTypes /\ Unstarted /\ ExitIsOver /\ LastOfOutput /\ LastOfPump /\ LastOfQueue /\ ToldLast
  BY ShellParts
<1>2. ShellTypes'
  BY <1>1 DEF ShellTypes
<1>3. Unstarted'
  BY <1>1 DEF Unstarted
<1>4. LastOfOutput' /\ ExitIsOver'
  BY <1>1 DEF LastOfOutput, ExitIsOver
<1>5. LastOfPump'
  BY <1>1 DEF LastOfPump
<1>6. \A s \in ShellIds : pump[s].at = "ended" => pump'[s] = pump[s]
  OBVIOUS
<1>7. LastOfQueue'
  <2> SUFFICES ASSUME NEW i \in DOMAIN queue, queue[i].message = "exit"
               PROVE  LET r == queue[i].from
                      IN /\ output[r] = <<>> /\ pump'[r].at = "ended" /\ shell'[r] = "ended"
                         /\ pty'[r].over
                         /\ \A j \in DOMAIN queue : j > i => queue[j].from # r
    BY DEF LastOfQueue
  <2>1. queue[i].from \in ShellIds
    BY ShellParts
  <2> QED
    BY <1>1, <1>6, <2>1 DEF LastOfQueue
<1>8. ToldLast'
  BY <1>1, <1>6 DEF ToldLast, ShellTypes
<1> QED
  BY <1>2, <1>3, <1>4, <1>5, <1>7, <1>8 DEF ShellsInv

LEMMA ShellsStutter ==
  ASSUME ShellsInv, UNCHANGED <<shell, pty, output, pump, queue, shellsTold>>
  PROVE  ShellsInv'
<1>1. ShellTypes /\ ExitIsOver
  BY ShellParts
<1> QED
  BY <1>1, SilentHolds DEF ShellTypes, ExitIsOver

LEMMA HandlersHold ==
  ASSUME ShellsInv, NEW c \in Channels,
         \/ Shells!ChannelOpenSession(c) \/ Shells!PtyRequest(c) \/ Shells!Command(c)
         \/ Shells!ChannelClose(c) \/ Shells!SubsystemRequest(c)
  PROVE  ShellsInv'
BY ShellsStutter
DEF Shells!ChannelOpenSession, Shells!PtyRequest, Shells!Command, Shells!ChannelClose,
    Shells!SubsystemRequest, Shells!ThreadsUnchanged

LEMMA ShellRequestHolds ==
  ASSUME ShellsInv, NEW c \in Channels, NEW s \in ShellIds, Shells!ShellRequest(c, s)
  PROVE  ShellsInv'
<1>1. ShellTypes /\ Unstarted /\ ExitIsOver
  BY ShellParts
<1> DEFINE p == [Shells!NoPump EXCEPT !.at = "wait"]
<1>2. /\ shell[s] = "none" /\ shell' = [shell EXCEPT ![s] = "run"]
      /\ pump' = [pump EXCEPT ![s] = p] /\ UNCHANGED <<pty, output, queue, shellsTold>>
  BY DEF Shells!ShellRequest
<1>3. p \in [at : {"none", "wait", "send", "ended"}, message : Outputs \cup {"none"}] /\ p.at = "wait"
  BY DEF Shells!NoPump
<1> HIDE DEF p
<1>4. /\ pump' \in [ShellIds -> [at : {"none", "wait", "send", "ended"},
                                 message : Outputs \cup {"none"}]]
      /\ pump'[s].at = "wait" /\ \A r \in ShellIds : r # s => pump'[r] = pump[r]
  BY <1>1, <1>2, <1>3 DEF ShellTypes
<1>5. /\ shell' \in [ShellIds -> ThreadStates]
      /\ shell'[s] = "run" /\ \A r \in ShellIds : r # s => shell'[r] = shell[r]
  BY <1>1, <1>2 DEF ShellTypes, ThreadStates
<1>6. pump[s].at = "none"
  BY <1>1, <1>2 DEF Unstarted
<1>7. /\ pty' \in [ShellIds -> [unread : Nat, over : BOOLEAN]]
      /\ \A r \in ShellIds : /\ pty[r].over => pty'[r].over
                             /\ shell'[r] = "exiting" => pty'[r].over
  BY <1>1, <1>2, <1>5 DEF ShellTypes, ExitIsOver
<1> QED
  BY <1>2, <1>4, <1>5, <1>6, <1>7, SilentHolds

\* What a program or a read does to the pty of one shell.
LEMMA PtyChanges ==
  ASSUME NEW f \in [ShellIds -> [unread : Nat, over : BOOLEAN]], NEW s \in ShellIds
  PROVE  /\ [f EXCEPT ![s].unread = @ + 1] \in [ShellIds -> [unread : Nat, over : BOOLEAN]]
         /\ \A r \in ShellIds : [f EXCEPT ![s].unread = @ + 1][r].over = f[r].over
         /\ [f EXCEPT ![s].over = TRUE] \in [ShellIds -> [unread : Nat, over : BOOLEAN]]
         /\ \A r \in ShellIds : f[r].over => [f EXCEPT ![s].over = TRUE][r].over
         /\ f[s].unread > 0 =>
              /\ [f EXCEPT ![s].unread = @ - 1] \in [ShellIds -> [unread : Nat, over : BOOLEAN]]
              /\ \A r \in ShellIds : [f EXCEPT ![s].unread = @ - 1][r].over = f[r].over
<1>1. ASSUME NEW g \in [unread : Nat, over : BOOLEAN]
      PROVE  /\ [f EXCEPT ![s] = g] \in [ShellIds -> [unread : Nat, over : BOOLEAN]]
             /\ [f EXCEPT ![s] = g][s] = g
             /\ \A r \in ShellIds : r # s => [f EXCEPT ![s] = g][r] = f[r]
  OBVIOUS
<1>2. ASSUME NEW g \in [unread : Nat, over : BOOLEAN]
      PROVE  /\ [g EXCEPT !.unread = @ + 1] \in [unread : Nat, over : BOOLEAN]
             /\ [g EXCEPT !.unread = @ + 1].over = g.over
             /\ [g EXCEPT !.over = TRUE] \in [unread : Nat, over : BOOLEAN]
             /\ [g EXCEPT !.over = TRUE].over
             /\ g.unread > 0 => /\ [g EXCEPT !.unread = @ - 1] \in [unread : Nat, over : BOOLEAN]
                                /\ [g EXCEPT !.unread = @ - 1].over = g.over
  <2>1. g.unread \in Nat
    OBVIOUS
  <2>2. /\ [g EXCEPT !.unread = g.unread + 1] \in [unread : Nat, over : BOOLEAN]
        /\ [g EXCEPT !.unread = g.unread + 1].over = g.over
    BY <2>1
  <2>3. [g EXCEPT !.over = TRUE] \in [unread : Nat, over : BOOLEAN] /\ [g EXCEPT !.over = TRUE].over
    OBVIOUS
  <2>4. g.unread > 0 => /\ [g EXCEPT !.unread = g.unread - 1] \in [unread : Nat, over : BOOLEAN]
                        /\ [g EXCEPT !.unread = g.unread - 1].over = g.over
    <3>1. g.unread > 0 => g.unread - 1 \in Nat
      BY <2>1
    <3> QED
      BY <3>1
  <2> QED
    BY <2>2, <2>3, <2>4
<1>3. /\ [f EXCEPT ![s].unread = @ + 1] = [f EXCEPT ![s] = [f[s] EXCEPT !.unread = @ + 1]]
      /\ [f EXCEPT ![s].unread = @ - 1] = [f EXCEPT ![s] = [f[s] EXCEPT !.unread = @ - 1]]
      /\ [f EXCEPT ![s].over = TRUE] = [f EXCEPT ![s] = [f[s] EXCEPT !.over = TRUE]]
  OBVIOUS
<1>4. f[s] \in [unread : Nat, over : BOOLEAN]
  OBVIOUS
<1> DEFINE more == [f[s] EXCEPT !.unread = @ + 1]  less == [f[s] EXCEPT !.unread = @ - 1]
           ended == [f[s] EXCEPT !.over = TRUE]
<1>5. /\ more \in [unread : Nat, over : BOOLEAN] /\ more.over = f[s].over
      /\ ended \in [unread : Nat, over : BOOLEAN] /\ ended.over
      /\ f[s].unread > 0 => less \in [unread : Nat, over : BOOLEAN] /\ less.over = f[s].over
  BY <1>2, <1>4
<1>6. /\ [f EXCEPT ![s].unread = @ + 1] = [f EXCEPT ![s] = more]
      /\ [f EXCEPT ![s].unread = @ - 1] = [f EXCEPT ![s] = less]
      /\ [f EXCEPT ![s].over = TRUE] = [f EXCEPT ![s] = ended]
  BY <1>3
<1> HIDE DEF more, less, ended
<1> QED
  BY <1>1, <1>5, <1>6

LEMMA ProgramHolds ==
  ASSUME ShellsInv, NEW s \in ShellIds, Shells!Program(s)
  PROVE  ShellsInv'
<1>1. ShellTypes /\ ExitIsOver
  BY ShellParts
<1>2. /\ UNCHANGED <<shell, output, pump, queue, shellsTold>>
      /\ \/ pty' = [pty EXCEPT ![s].unread = @ + 1]
         \/ pty' = [pty EXCEPT ![s].over = TRUE]
  BY DEF Shells!Program, Shells!ProgramWrites, Shells!ProgramEnds
<1>3. /\ pty' \in [ShellIds -> [unread : Nat, over : BOOLEAN]]
      /\ \A r \in ShellIds : pty[r].over => pty'[r].over
  <2>1. pty \in [ShellIds -> [unread : Nat, over : BOOLEAN]]
    BY <1>1 DEF ShellTypes
  <2>2. CASE pty' = [pty EXCEPT ![s].unread = @ + 1]
    BY <2>1, <2>2, PtyChanges
  <2>3. CASE pty' = [pty EXCEPT ![s].over = TRUE]
    BY <2>1, <2>3, PtyChanges
  <2> QED
    BY <1>2, <2>2, <2>3
<1>4. \A r \in ShellIds : shell'[r] = "exiting" => pty'[r].over
  BY <1>1, <1>2, <1>3 DEF ExitIsOver
<1> QED
  BY <1>1, <1>2, <1>3, <1>4, SilentHolds DEF ShellTypes

LEMMA PollHolds ==
  ASSUME ShellsInv, NEW s \in ShellIds, Shells!Poll(s) \/ Shells!Reading(s)
  PROVE  ShellsInv'
<1>1. ShellTypes /\ ExitIsOver
  BY ShellParts
<1>2. UNCHANGED <<output, pump, queue, shellsTold>> /\ shell[s] \in {"run", "check"}
  BY DEF Shells!Poll, Shells!TakeCommand, Shells!End, Shells!Reading, Shells!PtyFails,
         Shells!ReadOutput, Shells!NothingToRead, Shells!CheckProgram
<1>3. /\ pty' \in [ShellIds -> [unread : Nat, over : BOOLEAN]]
      /\ \A r \in ShellIds : pty'[r].over = pty[r].over
  <2>1. \/ pty' = pty
        \/ pty[s].unread > 0 /\ pty' = [pty EXCEPT ![s].unread = @ - 1]
    BY DEF Shells!Poll, Shells!TakeCommand, Shells!End, Shells!Reading, Shells!PtyFails,
           Shells!ReadOutput, Shells!NothingToRead, Shells!CheckProgram
  <2>2. pty \in [ShellIds -> [unread : Nat, over : BOOLEAN]]
    BY <1>1 DEF ShellTypes
  <2>3. CASE pty' = pty
    BY <2>2, <2>3
  <2>4. CASE pty[s].unread > 0 /\ pty' = [pty EXCEPT ![s].unread = @ - 1]
    BY <2>2, <2>4, PtyChanges
  <2> QED
    BY <2>1, <2>3, <2>4
<1>4. \/ shell' = shell
      \/ \E at \in {"ended", "blocked", "check", "run"} : shell' = [shell EXCEPT ![s] = at]
      \/ pty[s].over /\ shell' = [shell EXCEPT ![s] = "exiting"]
  <2>1. CASE Shells!CheckProgram(s)
    BY <2>1 DEF Shells!CheckProgram, Shells!Goes
  <2>2. CASE ~Shells!CheckProgram(s)
    BY <2>2 DEF Shells!Poll, Shells!TakeCommand, Shells!End, Shells!Reading, Shells!PtyFails,
                Shells!ReadOutput, Shells!NothingToRead, Shells!Goes
  <2> QED
    BY <2>1, <2>2
<1>5. /\ shell' \in [ShellIds -> ThreadStates]
      /\ \A r \in ShellIds : /\ shell'[r] = "none" => shell[r] = "none"
                             /\ shell[r] = "ended" => shell'[r] = "ended"
                             /\ shell'[r] = "exiting" => shell[r] = "exiting" \/ pty[r].over
  BY <1>1, <1>2, <1>4 DEF ShellTypes, ThreadStates
<1>6. \A r \in ShellIds : /\ pty[r].over => pty'[r].over
                          /\ shell'[r] = "exiting" => pty'[r].over
  BY <1>1, <1>3, <1>5 DEF ExitIsOver
<1> QED
  BY <1>1, <1>2, <1>3, <1>5, <1>6, SilentHolds DEF ShellTypes

LEMMA PumpEndsHolds ==
  ASSUME ShellsInv, NEW s \in ShellIds, Shells!PumpEnds(s)
  PROVE  ShellsInv'
<1>1. ShellTypes /\ ExitIsOver
  BY ShellParts
<1>2. /\ pump[s].at = "wait" /\ output[s] = <<>> /\ shell[s] = "ended"
      /\ pump' = [pump EXCEPT ![s].at = "ended"] /\ UNCHANGED <<shell, pty, output, queue, shellsTold>>
  BY DEF Shells!PumpEnds
<1>3. /\ pump' \in [ShellIds -> [at : {"none", "wait", "send", "ended"},
                                 message : Outputs \cup {"none"}]]
      /\ pump'[s].at = "ended" /\ \A r \in ShellIds : r # s => pump'[r] = pump[r]
  BY <1>1, <1>2 DEF ShellTypes
<1> QED
  BY <1>1, <1>2, <1>3, SilentHolds DEF ShellTypes, ExitIsOver

LEMMA DisconnectHolds ==
  ASSUME ShellsInv, Shells!Disconnect
  PROVE  ShellsInv'
<1>1. ShellTypes /\ Unstarted /\ ExitIsOver /\ LastOfOutput /\ LastOfPump /\ ToldLast
  BY ShellParts
<1>2. queue' = <<>> /\ UNCHANGED <<shell, pty, output, pump, shellsTold>>
  BY DEF Shells!Disconnect
<1>3. queue' \in Seq([from : ShellIds, message : Outputs]) /\ DOMAIN queue' = {}
  BY <1>2
<1>4. ShellTypes'
  BY <1>1, <1>2, <1>3 DEF ShellTypes
<1>5. Unstarted' /\ ExitIsOver' /\ LastOfOutput' /\ LastOfPump' /\ LastOfQueue' /\ ToldLast'
  BY <1>1, <1>2, <1>3 DEF Unstarted, ExitIsOver, LastOfOutput, LastOfPump, LastOfQueue, ToldLast
<1> QED
  BY <1>4, <1>5 DEF ShellsInv

LEMMA FlushHolds ==
  ASSUME ShellsInv, Shells!Flush
  PROVE  ShellsInv'
<1> DEFINE first == Head(queue)  Messages == [from : ShellIds, message : Outputs]
<1>1. /\ ShellTypes /\ Unstarted /\ ExitIsOver /\ LastOfOutput /\ LastOfPump /\ LastOfQueue /\ ToldLast
  BY ShellParts
<1>2. /\ queue # <<>> /\ queue' = Tail(queue)
      /\ shellsTold' = IF first.message = "exit" THEN shellsTold \cup {first.from} ELSE shellsTold
      /\ UNCHANGED <<shell, pty, output, pump>>
  BY DEF Shells!Flush
<1>3. queue \in Seq(Messages)
  BY <1>1 DEF ShellTypes
<1>4. \A m \in Messages : m.from \in ShellIds /\ m.message \in Outputs
  OBVIOUS
<1> HIDE DEF Messages
<1>5. /\ first = queue[1] /\ first \in Messages /\ queue' \in Seq(Messages)
      /\ Len(queue') = Len(queue) - 1 /\ Len(queue) \in Nat \ {0}
      /\ \A i \in 1..Len(queue') : queue'[i] = queue[i + 1]
  BY <1>2, <1>3, HeadTailProperties, EmptySeq, LenProperties
<1> HIDE DEF first
<1>6. /\ DOMAIN queue' = 1..Len(queue') /\ DOMAIN queue = 1..Len(queue) /\ 1 \in DOMAIN queue
      /\ \A i \in DOMAIN queue' : queue'[i] = queue[i + 1] /\ i + 1 \in DOMAIN queue /\ i + 1 > 1
      /\ \A i, j \in DOMAIN queue' : j > i => j + 1 > i + 1
  BY <1>3, <1>5, LenProperties
<1>7. ShellTypes'
  BY <1>1, <1>2, <1>4, <1>5 DEF ShellTypes, Messages
<1>8. Unstarted'
  <2>1. ASSUME NEW s \in ShellIds, shell[s] = "none"
        PROVE  s \notin shellsTold' /\ \A i \in DOMAIN queue' : queue'[i].from # s
    BY <1>1, <1>2, <1>5, <1>6, <2>1 DEF Unstarted
  <2> QED
    BY <1>1, <1>2, <2>1 DEF Unstarted
<1>9. ExitIsOver' /\ LastOfOutput' /\ LastOfPump'
  BY <1>1, <1>2 DEF ExitIsOver, LastOfOutput, LastOfPump
<1>10. LastOfQueue'
  <2> SUFFICES ASSUME NEW i \in DOMAIN queue', queue'[i].message = "exit"
               PROVE  LET s == queue'[i].from
                      IN /\ output[s] = <<>> /\ pump[s].at = "ended" /\ shell[s] = "ended" /\ pty[s].over
                         /\ \A j \in DOMAIN queue' : j > i => queue'[j].from # s
    BY <1>2 DEF LastOfQueue
  <2> QED
    BY <1>1, <1>6 DEF LastOfQueue
<1>11. ToldLast'
  <2> SUFFICES ASSUME NEW s \in shellsTold'
               PROVE  /\ output[s] = <<>> /\ pump[s].at = "ended" /\ shell[s] = "ended" /\ pty[s].over
                      /\ \A i \in DOMAIN queue' : queue'[i].from # s
    BY <1>2 DEF ToldLast
  <2>1. CASE s \in shellsTold
    BY <1>1, <1>6, <2>1 DEF ToldLast
  <2>2. CASE first.message = "exit" /\ s = first.from
    BY <1>1, <1>5, <1>6, <2>2 DEF LastOfQueue
  <2> QED
    BY <1>2, <2>1, <2>2
<1> QED
  BY <1>7, <1>8, <1>9, <1>10, <1>11 DEF ShellsInv

LEMMA SendOutputHolds ==
  ASSUME ShellsInv, NEW s \in ShellIds, Shells!SendOutput(s)
  PROVE  ShellsInv'
<1>1. /\ ShellTypes /\ Unstarted /\ ExitIsOver /\ LastOfOutput /\ LastOfPump /\ LastOfQueue /\ ToldLast
  BY ShellParts
<1> DEFINE m == IF shell[s] = "exiting" THEN "exit" ELSE "data"
           at == IF shell[s] = "blocked" /\ pump[s].at # "ended" THEN "check" ELSE "ended"
<1>2. /\ shell[s] \in {"blocked", "exiting"} /\ shell' = [shell EXCEPT ![s] = at]
      /\ output' = IF pump[s].at = "ended" THEN output ELSE [output EXCEPT ![s] = Append(@, m)]
      /\ UNCHANGED <<pty, pump, queue, shellsTold>>
  BY DEF Shells!SendOutput, Shells!Goes
<1>3. at \in {"check", "ended"} /\ m \in Outputs /\ (m = "exit" => at = "ended" /\ pty[s].over)
  BY <1>1, <1>2 DEF Outputs, ExitIsOver
<1> HIDE DEF m, at
<1>4. /\ shell' \in [ShellIds -> ThreadStates] /\ shell'[s] = at
      /\ \A r \in ShellIds : r # s => shell'[r] = shell[r]
  BY <1>1, <1>2, <1>3 DEF ShellTypes, ThreadStates
<1>5. CASE pump[s].at = "ended"
  <2>1. output' = output
    BY <1>2, <1>5
  <2>2. \A r \in ShellIds : /\ shell'[r] = "none" => shell[r] = "none"
                            /\ shell[r] = "ended" => shell'[r] = "ended"
                            /\ shell'[r] = "exiting" => shell[r] = "exiting"
    BY <1>2, <1>3, <1>4
  <2>3. \A r \in ShellIds : /\ pty[r].over => pty'[r].over
                            /\ shell'[r] = "exiting" => pty'[r].over
    BY <1>1, <1>2, <2>2 DEF ExitIsOver
  <2> QED
    BY <1>1, <1>2, <1>4, <2>1, <2>2, <2>3, SilentHolds DEF ShellTypes
<1>6. CASE pump[s].at # "ended"
  <2> DEFINE o == Append(output[s], m)
  <2>1. /\ o \in Seq(Outputs) /\ Len(o) = Len(output[s]) + 1 /\ o[Len(output[s]) + 1] = m
        /\ \A i \in 1..Len(output[s]) : o[i] = output[s][i]
    BY <1>3, AppendProperties, ShellParts
  <2>2. output' = [output EXCEPT ![s] = o]
    BY <1>2, <1>6
  <2> HIDE DEF o
  <2>3. /\ output' \in [ShellIds -> Seq(Outputs)] /\ output'[s] = o
        /\ \A r \in ShellIds : r # s => output'[r] = output[r]
    BY <1>1, <2>1, <2>2 DEF ShellTypes
  <2>4. /\ s \notin shellsTold /\ \A i \in DOMAIN queue : queue[i].message = "exit" => queue[i].from # s
    BY <1>1, <1>6 DEF ToldLast, LastOfQueue
  <2>5. ~(pump[s].at = "send" /\ pump[s].message = "exit")
    BY <1>1, <1>2 DEF LastOfPump
  <2>6. ShellTypes'
    BY <1>1, <1>2, <1>4, <2>3 DEF ShellTypes
  <2>7. Unstarted'
    BY <1>1, <1>2, <1>3, <1>4, <2>3 DEF Unstarted
  <2>8. \A i \in DOMAIN o : o[i] = "exit" => i = Len(o) /\ at = "ended" /\ pty[s].over
    <3> SUFFICES ASSUME NEW i \in DOMAIN o, o[i] = "exit"
                 PROVE  i = Len(o) /\ at = "ended" /\ pty[s].over
      OBVIOUS
    <3>1. Len(output[s]) \in Nat /\ DOMAIN o = 1..Len(o) /\ DOMAIN output[s] = 1..Len(output[s])
      BY <2>1, ShellParts, LenProperties
    <3>2. CASE i <= Len(output[s])
      <4>1. i \in DOMAIN output[s] /\ output[s][i] = "exit"
        BY <2>1, <3>1, <3>2
      <4>2. shell[s] = "ended"
        BY <1>1, <4>1 DEF LastOfOutput
      <4> QED
        BY <1>2, <4>2
    <3>3. CASE i > Len(output[s])
      <4>1. i = Len(output[s]) + 1
        BY <2>1, <3>1, <3>3
      <4> QED
        BY <1>3, <2>1, <4>1
    <3> QED
      BY <3>1, <3>2, <3>3
  <2>9. LastOfOutput' /\ ExitIsOver'
    BY <1>1, <1>2, <1>3, <1>4, <2>3, <2>8 DEF LastOfOutput, ExitIsOver
  <2>10. LastOfPump'
    BY <1>1, <1>2, <1>4, <2>3, <2>5 DEF LastOfPump
  <2>11. LastOfQueue'
    <3> SUFFICES ASSUME NEW i \in DOMAIN queue, queue[i].message = "exit"
                 PROVE  LET r == queue[i].from
                        IN /\ output'[r] = <<>> /\ pump[r].at = "ended" /\ shell'[r] = "ended"
                           /\ pty[r].over
                           /\ \A j \in DOMAIN queue : j > i => queue[j].from # r
      BY <1>2 DEF LastOfQueue
    <3>1. queue[i].from \in ShellIds /\ queue[i].from # s
      BY <2>4, ShellParts
    <3> QED
      BY <1>1, <1>4, <2>3, <3>1 DEF LastOfQueue
  <2>12. ToldLast'
    <3>1. shellsTold \subseteq ShellIds
      BY <1>1 DEF ShellTypes
    <3> QED
      BY <1>1, <1>2, <1>4, <2>3, <2>4, <3>1 DEF ToldLast
  <2> QED
    BY <2>6, <2>7, <2>9, <2>10, <2>11, <2>12 DEF ShellsInv
<1> QED
  BY <1>5, <1>6

LEMMA PumpTakesHolds ==
  ASSUME ShellsInv, NEW s \in ShellIds, Shells!PumpTakes(s)
  PROVE  ShellsInv'
<1>1. /\ ShellTypes /\ Unstarted /\ ExitIsOver /\ LastOfOutput /\ LastOfPump /\ LastOfQueue /\ ToldLast
  BY ShellParts
<1> DEFINE m == Head(output[s])  o == Tail(output[s])
<1>2. /\ pump[s].at = "wait" /\ output[s] # <<>>
      /\ pump' = [pump EXCEPT ![s] = [at |-> "send", message |-> m]]
      /\ output' = [output EXCEPT ![s] = o] /\ UNCHANGED <<shell, pty, queue, shellsTold>>
  BY DEF Shells!PumpTakes
<1>3. /\ m \in Outputs /\ m = output[s][1] /\ o \in Seq(Outputs) /\ Len(o) = Len(output[s]) - 1
      /\ Len(output[s]) \in Nat \ {0} /\ \A i \in 1..Len(o) : o[i] = output[s][i + 1]
  BY <1>2, ShellParts, HeadTailProperties, EmptySeq
<1> HIDE DEF m, o
<1>4. DOMAIN output[s] = 1..Len(output[s]) /\ DOMAIN o = 1..Len(o)
  BY <1>3, ShellParts, LenProperties
<1>5. m = "exit" => o = <<>> /\ shell[s] = "ended" /\ pty[s].over
  <2> SUFFICES ASSUME m = "exit" PROVE o = <<>> /\ shell[s] = "ended" /\ pty[s].over
    OBVIOUS
  <2>1. 1 \in DOMAIN output[s]
    BY <1>3, <1>4
  <2>2. 1 = Len(output[s]) /\ shell[s] = "ended" /\ pty[s].over
    BY <1>1, <1>3, <2>1 DEF LastOfOutput
  <2>3. Len(o) = 0
    BY <1>3, <2>2
  <2> QED
    BY <1>3, <2>2, <2>3, EmptySeq
<1>6. /\ pump' \in [ShellIds -> [at : {"none", "wait", "send", "ended"}, message : Outputs \cup {"none"}]]
      /\ pump'[s].at = "send" /\ pump'[s].message = m
      /\ \A r \in ShellIds : r # s => pump'[r] = pump[r]
  BY <1>1, <1>2, <1>3 DEF ShellTypes
<1>7. /\ output' \in [ShellIds -> Seq(Outputs)] /\ output'[s] = o
      /\ \A r \in ShellIds : r # s => output'[r] = output[r]
  BY <1>1, <1>2, <1>3 DEF ShellTypes
<1>8. /\ s \notin shellsTold /\ shell[s] # "none"
      /\ \A i \in DOMAIN queue : queue[i].message = "exit" => queue[i].from # s
  BY <1>1, <1>2 DEF ToldLast, LastOfQueue, Unstarted
<1>9. ShellTypes'
  BY <1>1, <1>2, <1>3, <1>6, <1>7 DEF ShellTypes
<1>10. Unstarted'
  BY <1>1, <1>2, <1>6, <1>7, <1>8 DEF Unstarted
<1>11. \A i \in DOMAIN o : o[i] = "exit" => i = Len(o) /\ shell[s] = "ended" /\ pty[s].over
  <2> SUFFICES ASSUME NEW i \in DOMAIN o, o[i] = "exit"
               PROVE  i = Len(o) /\ shell[s] = "ended" /\ pty[s].over
    OBVIOUS
  <2>1. i + 1 \in DOMAIN output[s] /\ output[s][i + 1] = "exit"
    BY <1>3, <1>4
  <2>2. i + 1 = Len(output[s]) /\ shell[s] = "ended" /\ pty[s].over
    BY <1>1, <2>1 DEF LastOfOutput
  <2> QED
    BY <1>3, <1>4, <2>2
<1>12. LastOfOutput' /\ ExitIsOver'
  BY <1>1, <1>2, <1>7, <1>11 DEF LastOfOutput, ExitIsOver
<1>13. LastOfPump'
  BY <1>1, <1>2, <1>5, <1>6, <1>7 DEF LastOfPump
<1>14. LastOfQueue'
  <2> SUFFICES ASSUME NEW i \in DOMAIN queue, queue[i].message = "exit"
               PROVE  LET r == queue[i].from
                      IN /\ output'[r] = <<>> /\ pump'[r].at = "ended" /\ shell[r] = "ended"
                         /\ pty[r].over
                         /\ \A j \in DOMAIN queue : j > i => queue[j].from # r
    BY <1>2 DEF LastOfQueue
  <2>1. queue[i].from \in ShellIds /\ queue[i].from # s
    BY <1>8, ShellParts
  <2> QED
    BY <1>1, <1>6, <1>7, <2>1 DEF LastOfQueue
<1>15. ToldLast'
  <2>1. shellsTold \subseteq ShellIds
    BY <1>1 DEF ShellTypes
  <2> QED
    BY <1>1, <1>2, <1>6, <1>7, <1>8, <2>1 DEF ToldLast
<1> QED
  BY <1>9, <1>10, <1>12, <1>13, <1>14, <1>15 DEF ShellsInv

LEMMA PumpSendsHolds ==
  ASSUME ShellsInv, NEW s \in ShellIds, Shells!PumpSends(s)
  PROVE  ShellsInv'
<1> DEFINE said == pump[s].message  m == [from |-> s, message |-> said]
           at == IF loop.at = "gone" \/ said = "exit" THEN "ended" ELSE "wait"
           p == [Shells!NoPump EXCEPT !.at = at]
           Messages == [from : ShellIds, message : Outputs]
<1>1. /\ ShellTypes /\ Unstarted /\ ExitIsOver /\ LastOfOutput /\ LastOfPump /\ LastOfQueue /\ ToldLast
  BY ShellParts
<1>2. /\ pump[s].at = "send" /\ pump' = [pump EXCEPT ![s] = p]
      /\ queue' = IF loop.at = "gone" THEN queue ELSE Append(queue, m)
      /\ UNCHANGED <<shell, pty, output, shellsTold>>
  BY DEF Shells!PumpSends
<1>3. said \in Outputs /\ m \in Messages
  BY <1>1, <1>2 DEF ShellTypes
<1>4. m.from = s /\ m.message = said
  OBVIOUS
<1>5. /\ p \in [at : {"none", "wait", "send", "ended"}, message : Outputs \cup {"none"}]
      /\ p.at = at /\ at \in {"wait", "ended"}
  BY DEF Shells!NoPump
<1>6. loop.at # "gone" => (at = "ended" <=> said = "exit")
  OBVIOUS
<1>7. queue \in Seq(Messages)
  BY <1>1 DEF ShellTypes
<1> HIDE DEF m, p, at, said, Messages
<1>8. /\ pump' \in [ShellIds -> [at : {"none", "wait", "send", "ended"}, message : Outputs \cup {"none"}]]
      /\ pump'[s].at = at /\ \A r \in ShellIds : r # s => pump'[r] = pump[r]
  BY <1>1, <1>2, <1>5 DEF ShellTypes
<1>9. /\ s \notin shellsTold /\ shell[s] # "none"
      /\ \A i \in DOMAIN queue : queue[i].message = "exit" => queue[i].from # s
  BY <1>1, <1>2 DEF ToldLast, LastOfQueue, Unstarted
<1>10. CASE loop.at = "gone"
  <2>1. queue' = queue
    BY <1>2, <1>10
  <2>2. ShellTypes'
    BY <1>1, <1>2, <1>5, <1>8, <2>1 DEF ShellTypes
  <2>3. Unstarted' /\ LastOfOutput' /\ ExitIsOver'
    BY <1>1, <1>2, <1>8, <1>9, <2>1 DEF Unstarted, LastOfOutput, ExitIsOver
  <2>4. LastOfPump'
    BY <1>1, <1>2, <1>5, <1>8 DEF LastOfPump
  <2>5. LastOfQueue'
    <3> SUFFICES ASSUME NEW i \in DOMAIN queue, queue[i].message = "exit"
                 PROVE  /\ output[queue[i].from] = <<>> /\ shell[queue[i].from] = "ended"
                        /\ pty[queue[i].from].over
                        /\ pump'[queue[i].from].at = "ended"
                        /\ \A j \in DOMAIN queue : j > i => queue[j].from # queue[i].from
      BY <1>2, <2>1 DEF LastOfQueue
    <3>1. queue[i].from # s
      BY <1>9
    <3>2. queue[i].from \in ShellIds
      BY ShellParts
    <3>3. pump'[queue[i].from] = pump[queue[i].from]
      BY <1>8, <3>1, <3>2
    <3> QED
      BY <1>1, <3>3 DEF LastOfQueue
  <2>6. ToldLast'
    BY <1>1, <1>2, <1>8, <1>9, <2>1 DEF ToldLast, ShellTypes
  <2> QED
    BY <2>2, <2>3, <2>4, <2>5, <2>6 DEF ShellsInv
<1>11. CASE loop.at # "gone"
  <2>1. /\ queue' \in Seq(Messages) /\ Len(queue') = Len(queue) + 1 /\ queue'[Len(queue) + 1] = m
        /\ \A i \in 1..Len(queue) : queue'[i] = queue[i]
    BY <1>2, <1>3, <1>7, <1>11, AppendProperties
  <2>2. /\ Len(queue) \in Nat /\ DOMAIN queue = 1..Len(queue) /\ DOMAIN queue' = 1..(Len(queue) + 1)
    BY <2>1, LenProperties, ShellParts
  <2>3. /\ \A i \in DOMAIN queue' : i \in DOMAIN queue \/ i = Len(queue) + 1
        /\ \A i \in DOMAIN queue : queue'[i] = queue[i] /\ ~(i > Len(queue) + 1)
        /\ \A i \in DOMAIN queue' : ~(i > Len(queue) + 1)
    BY <2>1, <2>2
  <2>4. /\ queue'[Len(queue) + 1].from = s /\ queue'[Len(queue) + 1].message = said
    BY <1>4, <2>1
  <2>5. ShellTypes'
    BY <1>1, <1>2, <1>5, <1>8, <2>1 DEF ShellTypes, Messages
  <2>6. Unstarted'
    BY <1>1, <1>2, <1>8, <1>9, <2>3, <2>4 DEF Unstarted
  <2>7. LastOfOutput' /\ ExitIsOver'
    BY <1>1, <1>2 DEF LastOfOutput, ExitIsOver
  <2>8. LastOfPump'
    BY <1>1, <1>2, <1>5, <1>8 DEF LastOfPump
  <2>9. LastOfQueue'
    <3> SUFFICES ASSUME NEW i \in DOMAIN queue', queue'[i].message = "exit"
                 PROVE  LET r == queue'[i].from
                        IN /\ output[r] = <<>> /\ pump'[r].at = "ended" /\ shell[r] = "ended"
                           /\ pty[r].over
                           /\ \A j \in DOMAIN queue' : j > i => queue'[j].from # r
      BY <1>2 DEF LastOfQueue
    <3>1. CASE i \in DOMAIN queue
      <4>1. queue[i].message = "exit" /\ queue'[i] = queue[i] /\ queue[i].from \in ShellIds
        BY <2>3, <3>1, ShellParts
      <4>2. queue[i].from # s
        BY <1>9, <3>1, <4>1
      <4>3. \A j \in DOMAIN queue' : j > i => queue'[j].from # queue[i].from
        BY <1>1, <2>3, <2>4, <3>1, <4>1, <4>2 DEF LastOfQueue
      <4> QED
        BY <1>1, <1>8, <3>1, <4>1, <4>2, <4>3 DEF LastOfQueue
    <3>2. CASE i = Len(queue) + 1
      <4>1. said = "exit" /\ queue'[i].from = s
        BY <2>4, <3>2
      <4>2. output[s] = <<>> /\ shell[s] = "ended" /\ pump'[s].at = "ended" /\ pty[s].over
        BY <1>1, <1>2, <1>6, <1>8, <1>11, <4>1 DEF LastOfPump, said
      <4> QED
        BY <2>3, <3>2, <4>1, <4>2
    <3> QED
      BY <2>3, <3>1, <3>2
  <2>10. ToldLast'
    <3>1. shellsTold \subseteq ShellIds
      BY <1>1 DEF ShellTypes
    <3> QED
      BY <1>1, <1>2, <1>8, <1>9, <2>3, <2>4, <3>1 DEF ToldLast
  <2> QED
    BY <2>5, <2>6, <2>7, <2>8, <2>9, <2>10 DEF ShellsInv
<1> QED
  BY <1>10, <1>11

LEMMA ShellsKept ==
  ASSUME ShellsInv, Shells!Next
  PROVE  ShellsInv'
<1>1. CASE Shells!Sent
  BY <1>1, ShellsStutter DEF Shells!Sent
<1>2. CASE \E s \in ShellIds : Shells!Pump(s)
  BY <1>2, PumpTakesHolds, PumpSendsHolds, PumpEndsHolds DEF Shells!Pump
<1>3. CASE \E s \in ShellIds : Shells!Program(s)
  BY <1>3, ProgramHolds
<1> QED
  BY <1>1, <1>2, <1>3, HandlersHold, ShellRequestHolds, FlushHolds, DisconnectHolds, PollHolds,
     SendOutputHolds
  DEF Shells!Next

LEMMA ShellsStart == Shells!Init => ShellsInv
<1> SUFFICES ASSUME Shells!Init PROVE ShellsInv
  OBVIOUS
<1>1. /\ shell = [s \in ShellIds |-> "none"] /\ output = [s \in ShellIds |-> <<>>]
      /\ pump = [s \in ShellIds |-> Shells!NoPump] /\ queue = <<>> /\ shellsTold = {}
      /\ pty = [s \in ShellIds |-> [unread |-> 0, over |-> FALSE]]
  BY DEF Shells!Init
<1>2. /\ Shells!NoPump \in [at : {"none", "wait", "send", "ended"}, message : Outputs \cup {"none"}]
      /\ Shells!NoPump.at = "none"
  BY DEF Shells!NoPump
<1>3. /\ \A S : <<>> \in Seq(S)
      /\ DOMAIN queue = {} /\ \A s \in ShellIds : DOMAIN output[s] = {}
  BY <1>1
<1>4. ShellTypes
  <2>1. pump \in [ShellIds -> [at : {"none", "wait", "send", "ended"}, message : Outputs \cup {"none"}]]
    BY <1>1, <1>2
  <2>2. output \in [ShellIds -> Seq(Outputs)] /\ queue \in Seq([from : ShellIds, message : Outputs])
    BY <1>1, <1>3
  <2> QED
    BY <1>1, <1>2, <2>1, <2>2 DEF ShellTypes, ThreadStates
<1>5. Unstarted /\ ExitIsOver /\ LastOfOutput /\ LastOfPump /\ LastOfQueue /\ ToldLast
  BY <1>1, <1>2, <1>3 DEF Unstarted, ExitIsOver, LastOfOutput, LastOfPump, LastOfQueue, ToldLast
<1> QED
  BY <1>4, <1>5 DEF ShellsInv

LEMMA ShellsGoal == ShellsInv => Shells!ExitIsToldLast
BY DEF ShellsInv, ToldLast, Shells!ExitIsToldLast

-----------------------------------------------------------------------------
\* The list of a proxy is its connections, the counter its clients, and what is
\* shown of a server at rest is both; a port is listened on for a client that was
\* told so, and relayed for one until it has ended, but for relays that are aborted;
\* an exit is told of a program that has ended, after the last output that its thread
\* has read (what the pty holds then is lost): for any number of clients,
\* entries, events in the channel, ports, relays and shells, queues of any length,
\* and servers, listeners and connections that are aborted anywhere
\* (relay.rs, reverse_forward.rs, shell.rs).
THEOREM ClientsAreCounted == Spec => []ClientsAreAccountedFor
<1>1. Init => ConnectionsInv /\ ForwardsInv /\ ShellsInv
  BY ConnectionsStart, ForwardsStart, ShellsStart DEF Init
<1>2. ConnectionsInv /\ [Next]_all => ConnectionsInv'
  BY PartSteps, ConnectionsStutter, ConnectionsKept
<1>3. ForwardsInv /\ [Next]_all => ForwardsInv'
  BY PartSteps, ForwardsStutter, ForwardsKept
<1>4. ShellsInv /\ [Next]_all => ShellsInv'
  <2>1. UNCHANGED shellsState => UNCHANGED <<shell, pty, output, pump, queue, shellsTold>>
    BY DEF shellsState
  <2> QED
    BY <2>1, PartSteps, ShellsStutter, ShellsKept
<1>5. ConnectionsInv /\ ForwardsInv /\ ShellsInv => ClientsAreAccountedFor
  <2>1. ForwardsInv => Forwards!TypeOK /\ Forwards!OpenPortsWereAsked
    BY DEF ForwardsInv
  <2> QED
    BY <2>1, ConnectionsGoal, ShellsGoal DEF ClientsAreAccountedFor
<1> QED
  BY <1>1, <1>2, <1>3, <1>4, <1>5, PTL DEF Spec

-----------------------------------------------------------------------------
(* ProxyRequests                                                           *)

\* Requests with any number for a port, and greetings with any methods, versions
\* and commands and any addresses that are tried.
AnyHttpRequest ==
  [credentials : BOOLEAN, authorization : Requests!Authorizations, connect : BOOLEAN,
   authority : [host : {"name", "bracketed", "open"}, userinfo : BOOLEAN,
                after : {"nothing", "port", "other"}, port : Int],
   scheme : {"none", "http", "https"}, path : BOOLEAN, reached : {"yes", "refused", "late"}]
AnyGreeting ==
  [credentials : BOOLEAN, version : Int, methods : SUBSET Int, authVersion : Int,
   right : BOOLEAN, requestVersion : Int, command : Int,
   addressType : {"address", "domain", "empty", "unsupported"},
   outcomes : Seq(Requests!Outcomes)]

\* Who is connected was authorized, and the port is of the authority or 80.
LEMMA HttpIsAsked == ASSUME NEW r \in AnyHttpRequest PROVE Requests!HttpTargetIsAsked(r)
<1> DEFINE port == Requests!AuthorityPort(r.authority)
<1>1. /\ r.credentials \in BOOLEAN /\ r.connect \in BOOLEAN /\ r.authority.userinfo \in BOOLEAN
      /\ r.authority.port \in Int /\ r.reached \in {"yes", "refused", "late"}
      /\ r.authority.after \in {"nothing", "port", "other"}
  BY DEF AnyHttpRequest
<1>0. Requests!MaxPort \in Nat /\ \A n \in 1..Requests!MaxPort : n # 0 /\ n # -1
  <2>1. Requests!MaxPort \in Nat
    BY DEF Requests!MaxPort
  <2> QED
    BY <2>1
<1>2. \/ port = -1
      \/ port = 0 /\ r.authority.after # "port"
      \/ port \in 1..Requests!MaxPort /\ port = r.authority.port /\ r.authority.after = "port"
  <2> DEFINE a == r.authority
             malformed == a.host = "open" \/ (a.host = "bracketed" /\ a.after = "other")
  <2>1. port = IF malformed THEN -1
               ELSE IF a.after # "port" THEN 0
               ELSE IF a.port \in 1..Requests!MaxPort THEN a.port ELSE -1
    BY DEF Requests!AuthorityPort, Requests!Absent
  <2>0. a.port \in Int
    BY <1>1
  <2> HIDE DEF malformed, port, a
  <2>2. \/ port = -1
        \/ port = 0 /\ a.after # "port"
        \/ port \in 1..Requests!MaxPort /\ port = a.port /\ a.after = "port"
    BY <1>0, <2>0, <2>1
  <2> QED
    BY <2>2 DEF a
<1> HIDE DEF port
<1>3. /\ port \notin {0, -1} => r.authority.after = "port" /\ port = r.authority.port
      /\ port = 0 => r.authority.after # "port"
  BY <1>0, <1>2
<1>4. \A p, answer : /\ Requests!HttpConnected(p, r.reached, answer).target # 0 =>
                          Requests!HttpConnected(p, r.reached, answer).target = p
                     /\ Requests!Refused(answer).target = 0
  BY <1>1 DEF Requests!HttpConnected, Requests!Refused, Requests!Absent
<1>5. ASSUME Requests!ConnectTunnel(r).target # 0
      PROVE  ~r.authority.userinfo /\ r.authority.after = "port"
             /\ Requests!ConnectTunnel(r).target = r.authority.port
  <2>1. ~(port \in {0, -1} \/ r.authority.userinfo \/ r.scheme # "none" \/ r.path)
    BY <1>4, <1>5 DEF Requests!ConnectTunnel, Requests!Absent, port
  <2>2. Requests!ConnectTunnel(r) = Requests!HttpConnected(port, r.reached, 200)
    BY <2>1 DEF Requests!ConnectTunnel, Requests!Absent, port
  <2> QED
    BY <1>3, <1>4, <1>5, <2>1, <2>2
<1>6. ASSUME Requests!ForwardRequest(r).target # 0
      PROVE  /\ ~r.authority.userinfo
             /\ IF r.authority.after = "port"
                THEN Requests!ForwardRequest(r).target = r.authority.port
                ELSE Requests!ForwardRequest(r).target = 80
  <2>1. ~(r.scheme # "http" \/ r.authority.userinfo \/ port = -1)
    BY <1>4, <1>6 DEF Requests!ForwardRequest, port
  <2>2. Requests!ForwardRequest(r) =
          Requests!HttpConnected(IF port = 0 THEN 80 ELSE port, r.reached, 299)
    BY <2>1 DEF Requests!ForwardRequest, Requests!Absent, port
  <2>3. Requests!ForwardRequest(r).target = IF port = 0 THEN 80 ELSE port
    BY <1>4, <1>6, <2>2
  <2>4. port = 0 => r.authority.after # "port"
    BY <1>3
  <2>5. port # 0 => r.authority.after = "port" /\ port = r.authority.port
    BY <1>3, <2>1
  <2> QED
    BY <2>1, <2>3, <2>4, <2>5
<1>7. Requests!HandleRequest(r).target # 0 =>
        /\ r.credentials => r.authorization = "right"
        /\ Requests!HandleRequest(r) = IF r.connect THEN Requests!ConnectTunnel(r)
                                       ELSE Requests!ForwardRequest(r)
  BY <1>4 DEF Requests!HandleRequest, Requests!Authorized
<1> QED
  BY <1>1, <1>5, <1>6, <1>7 DEF Requests!HttpTargetIsAsked, Requests!Absent

\* What was said before stays the first that was said.
LEMMA Replying ==
  ASSUME NEW replies \in Seq(Int), NEW code \in Int
  PROVE  /\ Append(replies, code) \in Seq(Int)
         /\ Requests!Last(Append(replies, code)) = code
         /\ replies # <<>> => Append(replies, code)[1] = replies[1]
<1>1. /\ Append(replies, code) \in Seq(Int) /\ Len(Append(replies, code)) = Len(replies) + 1
      /\ Append(replies, code)[Len(replies) + 1] = code
      /\ \A i \in 1..Len(replies) : Append(replies, code)[i] = replies[i]
  BY AppendProperties
<1>2. replies # <<>> => 1 \in 1..Len(replies)
  BY LenProperties, EmptySeq
<1> QED
  BY <1>1, <1>2 DEF Requests!Last

\* A connection is for a request to connect of which an address answered.
LEMMA SocksRequests ==
  ASSUME NEW g \in AnyGreeting, NEW replies \in Seq(Int), replies # <<>>
  PROVE  LET answer == Requests!SocksRequest(g, replies) IN
         /\ answer.target => /\ g.command = 1 /\ \E i \in DOMAIN g.outcomes : g.outcomes[i] = "yes"
                             /\ Requests!Last(answer.replies) = 0
         /\ answer.replies # <<>> /\ answer.replies[1] = replies[1]
<1> DEFINE code == Requests!SocksConnected(g.addressType, g.outcomes)
           answer == Requests!SocksRequest(g, replies)
<1>1. g.outcomes \in Seq(Requests!Outcomes)
  BY DEF AnyGreeting
<1>2. ASSUME g.outcomes # <<>>
      PROVE  Requests!Last(g.outcomes) \in Requests!Outcomes
  <2>1. Len(g.outcomes) \in Nat /\ Len(g.outcomes) # 0
    BY <1>1, <1>2, LenProperties, EmptySeq
  <2>2. Len(g.outcomes) \in 1..Len(g.outcomes)
    BY <2>1
  <2> QED
    BY <1>1, <2>2, ElementOfSeq DEF Requests!Last
<1>3. \A o \in Requests!Outcomes : o # "yes" => Requests!CodeOf(o) \in 1..6
  BY DEF Requests!CodeOf, Requests!Outcomes
<1>4. code \in 0..8 /\ (code = 0 => \E i \in DOMAIN g.outcomes : g.outcomes[i] = "yes")
  <2>1. CASE g.addressType = "unsupported"
    BY <2>1 DEF Requests!SocksConnected
  <2>2. CASE g.addressType # "unsupported" /\ g.outcomes = <<>>
    BY <1>3, <2>2 DEF Requests!SocksConnected, Requests!Outcomes
  <2>3. CASE /\ g.addressType # "unsupported" /\ g.outcomes # <<>>
             /\ \E i \in DOMAIN g.outcomes : g.outcomes[i] = "yes"
    BY <2>3 DEF Requests!SocksConnected, Requests!Succeeded
  <2>4. CASE /\ g.addressType # "unsupported" /\ g.outcomes # <<>>
             /\ ~\E i \in DOMAIN g.outcomes : g.outcomes[i] = "yes"
    <3>1. Requests!Last(g.outcomes) # "yes"
      <4>1. Len(g.outcomes) \in DOMAIN g.outcomes
        BY <1>1, <2>4, LenProperties, EmptySeq
      <4> QED
        BY <2>4, <4>1 DEF Requests!Last
    <3>2. code = Requests!CodeOf(Requests!Last(g.outcomes))
      BY <2>4 DEF Requests!SocksConnected
    <3> QED
      BY <1>2, <1>3, <2>4, <3>1, <3>2
  <2> QED
    BY <2>1, <2>2, <2>3, <2>4
<1>5. \A said, target : /\ Requests!Answer(said, target).replies = said
                        /\ Requests!Answer(said, target).target = target
  BY DEF Requests!Answer
<1> SUFFICES /\ answer.target => /\ g.command = 1
                                 /\ \E i \in DOMAIN g.outcomes : g.outcomes[i] = "yes"
                                 /\ Requests!Last(answer.replies) = 0
             /\ answer.replies # <<>> /\ answer.replies[1] = replies[1]
  OBVIOUS
<1> HIDE DEF code, answer
<1>6. CASE g.requestVersion # 5 \/ g.addressType = "empty"
  <2>1. answer = Requests!Answer(replies, FALSE)
    BY <1>6 DEF answer, Requests!SocksRequest
  <2> QED
    BY <1>5, <2>1
<1>7. CASE ~(g.requestVersion # 5 \/ g.addressType = "empty") /\ g.command # 1
  <2>1. answer = Requests!Answer(Append(replies, 7), FALSE)
    BY <1>7 DEF answer, Requests!SocksRequest, Requests!Connect
  <2>2. Append(replies, 7)[1] = replies[1] /\ Append(replies, 7) # <<>>
    BY Replying, AppendProperties
  <2> QED
    BY <1>5, <2>1, <2>2
<1>8. CASE ~(g.requestVersion # 5 \/ g.addressType = "empty") /\ g.command = 1
  <2>1. answer = Requests!Answer(Append(replies, code), code = 0)
    BY <1>8 DEF answer, Requests!SocksRequest, Requests!Connect, Requests!Succeeded, code
  <2>2. /\ Append(replies, code)[1] = replies[1] /\ Append(replies, code) # <<>>
        /\ Requests!Last(Append(replies, code)) = code
    BY <1>4, Replying, AppendProperties
  <2> QED
    BY <1>4, <1>5, <1>8, <2>1, <2>2
<1> QED
  BY <1>6, <1>7, <1>8

\* A method is one the client offered, and a busy server ends with a failure.
LEMMA BusyIsRefused ==
  ASSUME NEW g \in AnyGreeting
  PROVE  LET turned == Requests!RejectBusy(g) IN
         /\ turned # <<>> => turned[1] \in g.methods \cup {255}
         /\ Len(turned) > 1 => Requests!Last(turned) # 0
<1> DEFINE turned == Requests!RejectBusy(g)
<1>1. \/ turned = <<>>
      \/ turned = <<0, 1>> /\ 0 \in g.methods
      \/ turned \in {<<2, 1>>, <<2>>} /\ 2 \in g.methods
      \/ turned = <<255>>
  <2>1. CASE g.version # 5
    BY <2>1 DEF Requests!RejectBusy
  <2>2. CASE g.version = 5 /\ 0 \in g.methods
    BY <2>2 DEF Requests!RejectBusy, Requests!NoAuth, Requests!GeneralFailure
  <2>3. CASE g.version = 5 /\ 0 \notin g.methods /\ 2 \in g.methods
    <3>1. turned = IF g.authVersion = 1 THEN <<2, 1>> ELSE <<2>>
      BY <2>3 DEF Requests!RejectBusy, Requests!NoAuth, Requests!UsernamePassword
    <3> QED
      BY <2>3, <3>1
  <2>4. CASE g.version = 5 /\ 0 \notin g.methods /\ 2 \notin g.methods
    BY <2>4 DEF Requests!RejectBusy, Requests!NoAuth, Requests!UsernamePassword,
                Requests!NoAcceptableMethod
  <2> QED
    BY <2>1, <2>2, <2>3, <2>4
<1> HIDE DEF turned
<1>2. turned # <<>> => turned[1] \in g.methods \cup {255}
  BY <1>1
<1>3. Len(turned) > 1 => Requests!Last(turned) # 0
  BY <1>1 DEF Requests!Last
<1> QED
  BY <1>2, <1>3 DEF turned

LEMMA SocksIsAsked == ASSUME NEW g \in AnyGreeting PROVE Requests!SocksTargetIsAsked(g)
<1> DEFINE method == Requests!SelectedMethod(g)  answer == Requests!Negotiate(g)
<1>1. /\ method \in {0, 2, 255} /\ (method # 255 => method \in g.methods)
      /\ method = 0 => ~g.credentials
  BY DEF Requests!SelectedMethod, Requests!NoAuth, Requests!UsernamePassword,
         Requests!NoAcceptableMethod
<1>2. \A said, target : /\ Requests!Answer(said, target).replies = said
                        /\ Requests!Answer(said, target).target = target
  BY DEF Requests!Answer
<1> HIDE DEF method, answer
<1>3. /\ answer.target => /\ g.credentials => g.right /\ 2 \in g.methods
                          /\ g.command = 1 /\ \E i \in DOMAIN g.outcomes : g.outcomes[i] = "yes"
                          /\ Requests!Last(answer.replies) = 0
      /\ answer.replies # <<>> => answer.replies[1] \in g.methods \cup {255}
  <2>0. 2 # 255 /\ 2 # 0 /\ 0 # 255 /\ 255 # 0 /\ 255 # 2 /\ 0 # 2
    OBVIOUS
  <2>1. CASE g.version # 5
    <3>1. answer = Requests!Answer(<<>>, FALSE)
      BY <2>1 DEF answer, Requests!Negotiate
    <3>2. ~answer.target /\ answer.replies = <<>>
      BY <1>2, <3>1
    <3> QED
      BY <3>2
  <2>2. CASE g.version = 5 /\ method = 255
    <3>1. answer = Requests!Answer(<<255>>, FALSE)
      BY <2>0, <2>2 DEF answer, Requests!Negotiate, Requests!NoAcceptableMethod,
                        Requests!NoAuth, Requests!UsernamePassword, method
    <3>2. ~answer.target /\ answer.replies = <<255>>
      BY <1>2, <3>1
    <3>3. <<255>>[1] = 255
      OBVIOUS
    <3> QED
      BY <3>2, <3>3
  <2>3. CASE g.version = 5 /\ method = 0
    <3>1. answer = Requests!SocksRequest(g, <<0>>)
      BY <2>0, <2>3 DEF answer, Requests!Negotiate, Requests!NoAcceptableMethod,
                        Requests!NoAuth, Requests!UsernamePassword, method
    <3>2. <<0>> \in Seq(Int) /\ <<0>> # <<>> /\ <<0>>[1] = 0
      OBVIOUS
    <3>3. /\ answer.target => /\ g.command = 1
                              /\ \E i \in DOMAIN g.outcomes : g.outcomes[i] = "yes"
                              /\ Requests!Last(answer.replies) = 0
          /\ answer.replies # <<>> /\ answer.replies[1] = 0
      BY <3>1, <3>2, SocksRequests
    <3>4. ~g.credentials /\ 0 \in g.methods
      BY <1>1, <2>0, <2>3
    <3> QED
      BY <3>3, <3>4
  <2>4. CASE g.version = 5 /\ method = 2 /\ g.authVersion = 1 /\ g.right
    <3>1. answer = Requests!SocksRequest(g, <<2, 0>>)
      BY <2>0, <2>4 DEF answer, Requests!Negotiate, Requests!NoAcceptableMethod,
                        Requests!NoAuth, Requests!UsernamePassword, Requests!Succeeded, method
    <3>2. <<2, 0>> \in Seq(Int) /\ <<2, 0>> # <<>> /\ <<2, 0>>[1] = 2
      OBVIOUS
    <3>3. /\ answer.target => /\ g.command = 1
                              /\ \E i \in DOMAIN g.outcomes : g.outcomes[i] = "yes"
                              /\ Requests!Last(answer.replies) = 0
          /\ answer.replies # <<>> /\ answer.replies[1] = 2
      BY <3>1, <3>2, SocksRequests
    <3>4. 2 \in g.methods
      BY <1>1, <2>0, <2>4
    <3> QED
      BY <2>4, <3>3, <3>4
  <2>5. CASE g.version = 5 /\ method = 2 /\ ~(g.authVersion = 1 /\ g.right)
    <3>1. answer = Requests!Answer(<<2, 1>>, FALSE)
      BY <2>0, <2>5 DEF answer, Requests!Negotiate, Requests!NoAcceptableMethod,
                        Requests!NoAuth, Requests!UsernamePassword, method
    <3>2. ~answer.target /\ answer.replies = <<2, 1>>
      BY <1>2, <3>1
    <3>3. 2 \in g.methods
      BY <1>1, <2>0, <2>5
    <3>4. <<2, 1>>[1] = 2
      OBVIOUS
    <3> QED
      BY <3>2, <3>3, <3>4
  <2> QED
    BY <1>1, <2>1, <2>2, <2>3, <2>4, <2>5
<1>4. \A replies \in {answer.replies, Requests!RejectBusy(g)} :
        replies # <<>> => replies[1] \in g.methods \cup {255}
  BY <1>3, BusyIsRefused
<1> QED
  BY <1>3, <1>4, BusyIsRefused
  DEF Requests!SocksTargetIsAsked, answer, Requests!UsernamePassword, Requests!Connect,
      Requests!Succeeded, Requests!NoAcceptableMethod

\* A target is connected only as it was asked for, by who may ask, and a client is
\* told first the method it offered and last what became of it: for any port, method,
\* version and command, and any addresses that are tried (relay.rs, protocol.rs).
THEOREM TargetsAreOfTheRequest == Spec => []TargetsAreAsked
<1> DEFINE Given == /\ part = "http" => input \in AnyHttpRequest
                    /\ part = "socks5" => input \in AnyGreeting
<1>1. Requests!HttpRequests \subseteq AnyHttpRequest
  BY DEF Requests!HttpRequests, Requests!Authorities, AnyHttpRequest, Requests!NotDigits,
         Requests!MaxPort
<1>2. Requests!Greetings \subseteq AnyGreeting
  <2>1. Requests!SeqOf({"yes", "refused", "late"}, 2) \subseteq Seq(Requests!Outcomes)
    <3>1. \A m \in 0..2 : [1..m -> {"yes", "refused", "late"}] \subseteq Seq(Requests!Outcomes)
      BY SMTT(30), SeqDef DEF Requests!Outcomes
    <3> QED
      BY <3>1 DEF Requests!SeqOf
  <2> QED
    BY <2>1 DEF Requests!Greetings, AnyGreeting, Requests!NoAuth, Requests!UsernamePassword
<1>3. Init => Given
  BY <1>1, <1>2 DEF Init
<1>4. Given /\ [Next]_all => Given'
  BY DEF Next, all, ServiceSteps, ConnectionsSteps, FilesSteps, ShellsSteps, ForwardsSteps,
         RouterSteps
<1>5. Given => TargetsAreAsked
  BY HttpIsAsked, SocksIsAsked DEF TargetsAreAsked
<1> QED
  BY <1>3, <1>4, <1>5, PTL DEF Spec
=============================================================================
