------------------------------ MODULE MCServers -----------------------------
(***************************************************************************)
(* The servers the program runs, for model checking: the proxies and the   *)
(* SSH server as services, the connections and the requests of the         *)
(* proxies, the sessions, files and forwards of the SSH server, and the    *)
(* router of MCP commands with more requests than MCMcp. They share no     *)
(* state: a behaviour is of one of them, named by part, and the others     *)
(* stay in their initial states.                                           *)
(***************************************************************************)
EXTENDS Integers, Sequences, FiniteSets

CONSTANTS
  Kinds, Ports, NoPort, Torn, Servers, NoServer,        \* of ProxyService
  MaxConn, MaxCount, MaxCrashes,
  Clients, Ids, MaxConnections, MaxRejected,            \* ProxyConnections
  ShellIds, NoShell, Channels, QueueSize, MaxUnread,    \* SshServerSession
  BindPorts, MaxRelays,                                 \* ReverseForwards
  Conns, NoConn,                                        \* and SftpServer
  Names, NoName, Served, MaxSessions, MaxRaw, MaxNodes,
  Workspaces, Control, LaneIds, ControlLane, NoLane,    \* McpRouter
  MaxRequests, IngressCapacity, LaneCapacity, EventCapacity, MaxIdle

ASSUME ServiceAssumption ==
  /\ MaxConn \in Nat /\ MaxCount \in Nat /\ MaxCrashes \in Nat
  /\ NoPort \notin Ports /\ Torn \notin Ports /\ Torn # NoPort /\ NoServer \notin Servers
ASSUME ConnectionsAssumption ==
  IsFiniteSet(Clients) /\ Ids \subseteq Nat /\ MaxConnections \in Nat /\ MaxRejected \in Nat
ASSUME ShellsAssumption ==
  NoShell \notin ShellIds /\ QueueSize \in Nat \ {0} /\ MaxUnread \in Nat
ASSUME ForwardsAssumption == 0 \notin BindPorts /\ MaxRelays \in Nat
ASSUME RouterAssumption ==
  /\ MaxRequests \in Nat /\ MaxIdle \in Nat
  /\ IngressCapacity \in Nat /\ LaneCapacity \in Nat /\ EventCapacity \in Nat \ {0}
  /\ ControlLane \in LaneIds /\ NoLane \notin LaneIds /\ Control \notin Workspaces

VARIABLES
  part,         \* the part that runs in this behaviour
  input,        \* what an operator is given, in a behaviour of its own
  serviceKind, file, pc, want, persist, running, waits, new, serviceServer, status,
  ctx, sub, dirty, crashes,
  connectionsKind, connectionsServer, stop, client, entry, busy, events, list,
  active, shown,
  filesConn, sessions, nextSession, handles, raws, nextRaw, disk, nodes, shared,
  moved,
  loop, channel, shell, pty, commands, held, output, pump, queue, shellsTold,
  forwardsConn, cancelling, listeners, task, aborted, relays, forwardsTold,
  to, routerTold, ran, ingress, routing, lanes, table, idle, stopped, closed,
  lagged, runtime, givenUp, idles

(* A directory with one file, and with another name that links to it.      *)
SomeTree == [n \in {1, 2} |-> IF n = 1 THEN [kind |-> "file", node |-> 1, to |-> 0]
                              ELSE [kind |-> "none", node |-> 0, to |-> 0]]
Trees == {SomeTree, [SomeTree EXCEPT ![2] = [kind |-> "link", node |-> 0, to |-> 1]]}

Service == INSTANCE ProxyService WITH
  kind <- serviceKind, server <- serviceServer

Connections == INSTANCE ProxyConnections WITH
  kind <- connectionsKind, server <- connectionsServer

Files == INSTANCE SftpServer WITH
  conn <- filesConn

\* What has a node is a file or a directory, and a link names something.
ASSUME FilesAssumption ==
  /\ MaxSessions \in Nat /\ MaxRaw \in Nat /\ MaxNodes \in Nat /\ NoConn \notin Conns
  /\ \A tree \in Served :
       /\ tree \in [Names -> Files!Entries]
       /\ Files!Used(tree) \in 0..MaxNodes
       /\ \A n \in Names : /\ tree[n].node # 0 <=> tree[n].kind \in {"file", "dir"}
                           /\ tree[n].kind = "link" => tree[n].to \in Names

Shells == INSTANCE SshServerSession WITH
  Shells <- ShellIds, told <- shellsTold

Forwards == INSTANCE ReverseForwards WITH
  Ports <- BindPorts, conn <- forwardsConn, told <- forwardsTold

Router == INSTANCE McpRouter WITH
  told <- routerTold

Requests == INSTANCE ProxyRequests

serviceState == <<serviceKind, file, pc, want, persist, running, waits, new,
                  serviceServer, status, ctx, sub, dirty, crashes>>
connectionsState == <<connectionsKind, connectionsServer, stop, client, entry, busy,
                      events, list, active, shown>>
filesState == <<filesConn, sessions, nextSession, handles, raws, nextRaw, disk,
                nodes, shared, moved>>
shellsState == <<loop, channel, shell, pty, commands, held, output, pump, queue,
                 shellsTold>>
forwardsState == <<forwardsConn, cancelling, listeners, task, aborted, relays,
                   forwardsTold>>
routerState == <<to, routerTold, ran, ingress, routing, lanes, table, idle, stopped,
                 closed, lagged, runtime, givenUp, idles>>

-----------------------------------------------------------------------------
Init ==
  /\ part \in {"service", "connections", "files", "shells", "forwards", "router",
               "http", "socks5"}
  /\ Service!Init
  /\ (part # "service" => serviceKind = "http" /\ file = NoPort)
  /\ Connections!Init
  /\ (part # "connections" => connectionsKind = "http")
  /\ Files!Init
  /\ (part # "files" => nextSession = 1 /\ nextRaw = 1 /\ disk = CHOOSE d \in Served : TRUE)
  /\ Shells!Init
  /\ Forwards!Init
  /\ Router!Init
  /\ input \in CASE part = "http" -> Requests!HttpRequests
                  [] part = "socks5" -> Requests!Greetings
                  [] OTHER -> {<<>>}

ServiceSteps ==
  /\ part = "service" /\ Service!Next
  /\ UNCHANGED <<part, input, connectionsState, filesState, shellsState,
                 forwardsState, routerState>>

ConnectionsSteps ==
  /\ part = "connections" /\ Connections!Next
  /\ UNCHANGED <<part, input, serviceState, filesState, shellsState, forwardsState,
                 routerState>>

FilesSteps ==
  /\ part = "files" /\ Files!Next
  /\ UNCHANGED <<part, input, serviceState, connectionsState, shellsState,
                 forwardsState, routerState>>

ShellsSteps ==
  /\ part = "shells" /\ Shells!Next
  /\ UNCHANGED <<part, input, serviceState, connectionsState, filesState,
                 forwardsState, routerState>>

ForwardsSteps ==
  /\ part = "forwards" /\ Forwards!Next
  /\ UNCHANGED <<part, input, serviceState, connectionsState, filesState,
                 shellsState, routerState>>

RouterSteps ==
  /\ part = "router" /\ Router!Next
  /\ UNCHANGED <<part, input, serviceState, connectionsState, filesState,
                 shellsState, forwardsState>>

Next == ServiceSteps \/ ConnectionsSteps \/ FilesSteps \/ ShellsSteps \/
        ForwardsSteps \/ RouterSteps

all == <<part, input, serviceState, connectionsState, filesState, shellsState,
         forwardsState, routerState>>

Spec == Init /\ [][Next]_all

-----------------------------------------------------------------------------
(* No server outlives its service, but for the one an SSH server aborts;   *)
(* the status of a service is true of its server, the server runs what is  *)
(* saved, and a service that is enabled and does not run says why          *)
(* (http_proxy/core.rs, socks5_proxy/core.rs, ssh_server/core.rs).         *)
ServersAreShown == part = "service" =>
  /\ Service!TypeOK /\ Service!NoServerLeftBehind
  /\ Service!ShownIsTrue /\ Service!RunsWhatIsSaved /\ Service!EnabledIsExplained

(* A command that was refused never ran, and the commands of a workspace   *)
(* run one at a time unless its lane was given up (bridge/router.rs).      *)
CommandsRunOnce ==
  part = "router" => Router!TypeOK /\ Router!RejectedNeverRan /\ Router!OneLaneUnlessGivenUp

(* What is counted, listed and shown of clients and their work is what     *)
(* there is: the connections of a proxy (relay.rs), the ports a client     *)
(* forwards (reverse_forward.rs), and the exit of a shell, told of a       *)
(* program that has ended, after the output that was read of it (shell.rs).*)
ClientsAreAccountedFor ==
  /\ part = "connections" =>
       Connections!TypeOK /\ Connections!ListIsTheConnections /\ Connections!ShownIsTheConnections
  /\ part = "forwards" => Forwards!TypeOK /\ Forwards!OpenPortsWereAsked
  /\ part = "shells" => Shells!ExitIsToldLast

(* An SFTP handle is of one session and one file as long as its number was *)
(* not given twice, attributes go to the file of the handle, and nothing   *)
(* stays open when its connection is gone (sftp_server/).                  *)
HandlesStayApart == part = "files" =>
  /\ Files!TypeOK /\ Files!NumbersTellHandlesApart
  /\ Files!AttributesHitTheirFile /\ Files!NothingStaysOpen

(* A proxy connects to the target the client named, for a client that has  *)
(* proved who it is when the settings say so (relay.rs, protocol.rs).      *)
TargetsAreAsked ==
  /\ part = "http" => Requests!HttpTargetIsAsked(input)
  /\ part = "socks5" => Requests!SocksTargetIsAsked(input)
=============================================================================
