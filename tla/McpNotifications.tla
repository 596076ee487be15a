-------------------------- MODULE McpNotifications --------------------------
(***************************************************************************)
(* What an MCP client learns of the open sessions: the events of           *)
(* DATA_CONTEXT go through the broadcast channel of the event bus, the     *)
(* forwarder of the bridge (start_mcp_bridge), a second broadcast channel, *)
(* and the task that on_initialized starts for every client.  Each channel *)
(* overwrites what a slow receiver has not read, which makes the receiver  *)
(* say that a resync is required.                                          *)
(*                                                                         *)
(* A client (external) lists the sessions when it has initialized and when *)
(* it is told to, and applies the notifications to what it knows.          *)
(***************************************************************************)
EXTENDS Naturals, Sequences, FiniteSets

CONSTANTS
    Sessions,    \* session identities: each is opened and closed once
    Clients,
    BusCapacity,     \* of the event bus (256)
    SentCapacity,    \* NOTIFICATION_CAPACITY (256)
    MaxSelections    \* bound: selections of a session

VARIABLES
    session,   \* each session, and whether its event is still to be sent
    bus,       \* all events that were sent to the event bus
    read,      \* how many of them the forwarder has read
    sent,      \* all notifications that were sent to the clients
    client,    \* each client's connection and the task that serves it
    position,  \* how many notifications the task of a client has read
    known      \* what a client knows: the open sessions, and whether to list

vars == <<session, bus, read, sent, client, position, known>>

Opened == {s \in Sessions : session[s] \in {"opening", "open"}}
Resync == <<"resync", 0>>
Selections == Cardinality({i \in DOMAIN bus : bus[i][1] = "selected"})

TypeOK ==
    /\ session \in [Sessions -> {"new", "opening", "open", "closing", "closed"}]
    /\ bus \in Seq({"opened", "closed", "selected"} \X Sessions)
    /\ read \in 0..Len(bus)
    /\ sent \in Seq({Resync} \cup ({"opened", "closed", "selected"} \X Sessions))
    /\ client \in [Clients -> [at : {"none", "up", "gone"}, served : BOOLEAN]]
    /\ position \in [Clients -> 0..Len(sent)]
    /\ known \in [Clients -> [open : SUBSET Sessions, list : BOOLEAN]]

Init ==
    /\ session = [s \in Sessions |-> "new"]
    /\ bus = <<>> /\ read = 0 /\ sent = <<>>
    /\ client = [c \in Clients |-> [at |-> "none", served |-> FALSE]]
    /\ position = [c \in Clients |-> 0]
    /\ known = [c \in Clients |-> [open |-> {}, list |-> FALSE]]

\* open_workspace and close_workspace: the snapshot first, then the event.
Change(s, from, to) ==
    /\ session[s] = from
    /\ session' = [session EXCEPT ![s] = to]
    /\ UNCHANGED <<bus, read, sent, client, position, known>>
Notify(s, from, to, event) ==
    /\ session[s] = from
    /\ session' = [session EXCEPT ![s] = to] /\ bus' = Append(bus, <<event, s>>)
    /\ UNCHANGED <<read, sent, client, position, known>>

Open(s) == Change(s, "new", "opening")
NotifyOpened(s) == Notify(s, "opening", "open", "opened")
Close(s) == Change(s, "open", "closing")
NotifyClosed(s) == Notify(s, "closing", "closed", "closed")
Select(s) == Selections < MaxSelections /\ Notify(s, "open", "open", "selected")

\* A receiver that is more than the capacity behind goes on with the oldest
\* element there is, after an error that says so.
Lagged(log, at, capacity) == Len(log) - at > capacity
Forwarded(at, message) ==
    /\ read' = at /\ sent' = Append(sent, message)
    /\ UNCHANGED <<session, bus, client, position, known>>

\* Mutant: what was skipped is only logged.
ForwardLaggedUnseen ==
    /\ Lagged(bus, read, BusCapacity)
    /\ read' = Len(bus) - BusCapacity
    /\ UNCHANGED <<session, bus, sent, client, position, known>>

ForwardLagged ==
    /\ Lagged(bus, read, BusCapacity)
    /\ Forwarded(Len(bus) - BusCapacity, Resync)

Forward ==
    /\ read < Len(bus) /\ ~Lagged(bus, read, BusCapacity)
    /\ Forwarded(read + 1, bus[read + 1])

-----------------------------------------------------------------------------
(* A client, and the task of its notifications                             *)

\* on_initialized: the task reads what is sent from now on, and the client lists.
Initialized(c) ==
    /\ client[c].at = "none"
    /\ client' = [client EXCEPT ![c] = [at |-> "up", served |-> TRUE]]
    /\ position' = [position EXCEPT ![c] = Len(sent)]
    /\ known' = [known EXCEPT ![c].list = TRUE]
    /\ UNCHANGED <<session, bus, read, sent>>

\* list_terminals and list_sftp_sessions read the snapshot, whatever is on its way.
List(c) ==
    /\ client[c].at = "up" /\ known[c].list
    /\ known' = [known EXCEPT ![c] = [open |-> Opened, list |-> FALSE]]
    /\ UNCHANGED <<session, bus, read, sent, client, position>>

Told(k, message) ==
    CASE message = Resync -> [k EXCEPT !.list = TRUE]
      [] message[1] = "opened" -> [k EXCEPT !.open = @ \cup {message[2]}]
      [] message[1] = "closed" -> [k EXCEPT !.open = @ \ {message[2]}]
      [] OTHER -> k

\* send_notification fails, and ends the task, once the client is gone.
Served(c, at, message) ==
    /\ client[c].served
    /\ position' = [position EXCEPT ![c] = at]
    /\ client' = [client EXCEPT ![c].served = client[c].at = "up"]
    /\ known' = IF client[c].at = "up" THEN [known EXCEPT ![c] = Told(@, message)] ELSE known
    /\ UNCHANGED <<session, bus, read, sent>>

Serve(c) ==
    /\ position[c] < Len(sent) /\ ~Lagged(sent, position[c], SentCapacity)
    /\ Served(c, position[c] + 1, sent[position[c] + 1])
ServeLagged(c) ==
    /\ Lagged(sent, position[c], SentCapacity)
    /\ Served(c, Len(sent) - SentCapacity, Resync)

Disconnect(c) ==
    /\ client[c].at = "up"
    /\ client' = [client EXCEPT ![c].at = "gone"]
    /\ known' = [known EXCEPT ![c] = [open |-> {}, list |-> FALSE]]
    /\ UNCHANGED <<session, bus, read, sent, position>>

\* Mutant: the task only ends when it has something to send.
ConnectionUnchecked(c) == FALSE /\ UNCHANGED vars

\* Every minute the task looks whether its client is there.
ConnectionChecked(c) ==
    /\ client[c].served /\ client[c].at = "gone"
    /\ client' = [client EXCEPT ![c].served = FALSE]
    /\ UNCHANGED <<session, bus, read, sent, position, known>>

Change1(s) == Open(s) \/ NotifyOpened(s) \/ Close(s) \/ NotifyClosed(s) \/ Select(s)
Client(c) ==
    \/ Initialized(c) \/ List(c) \/ Serve(c) \/ ServeLagged(c)
    \/ Disconnect(c) \/ ConnectionChecked(c)
Next ==
    \/ \E s \in Sessions : Change1(s)
    \/ Forward \/ ForwardLagged
    \/ \E c \in Clients : Client(c)

Spec == Init /\ [][Next]_vars
FairSpec == Spec /\ \A c \in Clients : WF_vars(ConnectionChecked(c))

-----------------------------------------------------------------------------
(* Properties                                                              *)

Delivered(c) ==
    /\ \A s \in Sessions : session[s] \notin {"opening", "closing"}
    /\ read = Len(bus) /\ position[c] = Len(sent) /\ ~known[c].list

\* With every event sent, forwarded and told, and nothing left to list, a client
\* knows the sessions that are open: whatever was overwritten in either channel,
\* and however its lists and its notifications crossed.
ClientsKnow ==
    \A c \in Clients : client[c].at = "up" /\ Delivered(c) => known[c].open = Opened

\* The task of a client that has gone ends, also if nothing happens any more.
GoneClientsEnd ==
    \A c \in Clients : client[c].at = "gone" ~> ~client[c].served

=============================================================================
