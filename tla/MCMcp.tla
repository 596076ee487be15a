-------------------------------- MODULE MCMcp -------------------------------
(***************************************************************************)
(* The MCP side, for model checking: the command router, the notifications *)
(* to the clients, the manager of the server and the tools. They share no  *)
(* state: a behaviour is of one of them, named by part, and the others     *)
(* stay in their initial states.                                           *)
(***************************************************************************)
EXTENDS Integers, Sequences

CONSTANTS
  Workspaces, Control, LaneIds, ControlLane, NoLane,      \* of McpRouter
  MaxRequests, IngressCapacity, LaneCapacity, EventCapacity, MaxIdle,
  Sessions, Clients, BusCapacity, SentCapacity, MaxSelections, \* McpNotifications
  Ports, DefaultPort, Absent, Torn, MaxTokens, MaxCrashes \* McpServerManager

ASSUME NotesAssumption == BusCapacity \in Nat /\ SentCapacity \in Nat
ASSUME ManagerAssumption ==
  /\ DefaultPort \in Ports
  /\ MaxTokens \in Nat /\ MaxCrashes \in Nat

VARIABLES
  part,         \* the part that runs in this behaviour
  input,        \* what an operator is given, in a behaviour of its own
  to, told, ran, ingress, routing, lanes, table, idle, stopped, closed, lagged,
  runtime, givenUp, idles,
  session, bus, read, sent, client, position, known,
  pc, want, shown, open, channel, unseen, manager, server, token, applied, file,
  crashes

Router == INSTANCE McpRouter
Notes == INSTANCE McpNotifications
Manager == INSTANCE McpServerManager
Tools == INSTANCE McpTools

routerState == <<to, told, ran, ingress, routing, lanes, table, idle, stopped,
                 closed, lagged, runtime, givenUp, idles>>
notesState == <<session, bus, read, sent, client, position, known>>
managerState == <<pc, want, shown, open, channel, unseen, manager, server, token,
                  applied, file, crashes>>

-----------------------------------------------------------------------------
Init ==
  /\ part \in {"router", "notes", "manager", "call", "key"}
  /\ Router!Init
  /\ Notes!Init
  /\ Manager!Init
  /\ (part # "manager" => file = Absent)
  /\ input \in CASE part = "call" -> Tools!ToolCalls
                  [] part = "key" -> Tools!KeyPresses
                  [] OTHER -> {<<>>}

RouterSteps ==
  /\ part = "router" /\ Router!Next
  /\ UNCHANGED <<part, input, notesState, managerState>>

NotesSteps ==
  /\ part = "notes" /\ Notes!Next
  /\ UNCHANGED <<part, input, routerState, managerState>>

ManagerSteps ==
  /\ part = "manager" /\ Manager!Next
  /\ UNCHANGED <<part, input, routerState, notesState>>

Next == RouterSteps \/ NotesSteps \/ ManagerSteps

all == <<part, input, routerState, notesState, managerState>>

(* The fairness of each part, as it states it.                             *)
Fairness ==
  /\ SF_routerState(part = "router" /\ Router!Route)
  /\ SF_routerState(part = "router" /\ Router!Events)
  /\ SF_routerState(part = "router" /\ Router!Tick)
  /\ WF_routerState(part = "router" /\ (Router!Enqueue \/ Router!Refuse))
  /\ \A l \in LaneIds : WF_routerState(part = "router" /\ Router!Lane(l))
  /\ \A c \in Clients : WF_notesState(part = "notes" /\ Notes!ConnectionChecked(c))
  /\ WF_managerState(part = "manager" /\ Manager!Manager)
  /\ WF_managerState(part = "manager" /\ Manager!Operation)

Spec == Init /\ [][Next]_all /\ Fairness

-----------------------------------------------------------------------------
(* A client that has caught up knows the open sessions, whatever was lost  *)
(* to lag in the two channels between it and the data context              *)
(* (bridge/adapter.rs, tools.rs).                                          *)
ClientsKnow == Notes!TypeOK /\ Notes!ClientsKnow

(* The server runs with the settings and the token that are shown and      *)
(* saved, after any overlap of changes with its starts and stops, and      *)
(* nothing is left of it after a shutdown (agent_mcp/core.rs).             *)
ServedIsShown ==
  Manager!TypeOK /\ Manager!ServedIsShown /\ Manager!SavedIsShown /\ Manager!StoppedMeansQuiet

(* A tool acts on the workspace that its arguments name or fails, and      *)
(* Control with a character is that control code or refused (dispatch.rs). *)
ToolsActOnWhatTheyName ==
  /\ part = "call" => Tools!ToolsActOnWhatTheyName(input)
  /\ part = "key"  => Tools!ControlIsControl(input)

(* Every request is answered, whatever happens to its lane (router.rs).    *)
Answered == Router!Answered

(* What is over ends: the lanes of a closed workspace, the tasks of a      *)
(* client that has gone, and the server when the program does.             *)
OverMeansEnded ==
  Router!LanesReleased /\ Notes!GoneClientsEnd /\ Manager!ShutdownEndsEventually
=============================================================================
