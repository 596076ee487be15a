-------------------------- MODULE ReverseForwards --------------------------
(***************************************************************************)
(* The ports the SSH server listens on for its clients                     *)
(* (infrastructure/ssh_server/reverse_forward.rs).  Every connection keeps *)
(* its listeners by address and port; a listener is a task that owns the   *)
(* socket and the relays of the connections it accepted.  Cancelling       *)
(* aborts the task and waits for its end; the end of the connection aborts *)
(* the tasks and waits for nothing.  A listener that cannot accept ends    *)
(* by itself and stays in the map.  A task that ends drops its relays,     *)
(* which is to abort them: each of them ends when it is run next.          *)
(*                                                                         *)
(* One address; the port 0 asks for any free port.                         *)
(***************************************************************************)
EXTENDS Integers, FiniteSets

CONSTANTS
    Conns, NoConn,
    Ports,
    MaxRelays    \* bound: relays of one listener

VARIABLES
    conn,        \* "up", "cancel" (waiting for an aborted task), "down"
    cancelling,  \* the port a connection cancels
    listeners,   \* the map of each connection: its ports
    task,        \* the listener task of a port: its connection, or NoConn
    aborted,     \* ports whose task was aborted and still runs
    relays,      \* of the listener of a port: opening, copying, and aborted
    told         \* what the client was told to be listening

vars == <<conn, cancelling, listeners, task, aborted, relays, told>>

TypeOK ==
    /\ conn \in [Conns -> {"up", "cancel", "down"}] /\ cancelling \in [Conns -> Ports \cup {0}]
    /\ listeners \in [Conns -> SUBSET Ports] /\ told \in [Conns -> SUBSET Ports]
    /\ task \in [Ports -> Conns \cup {NoConn}] /\ aborted \subseteq Ports
    /\ relays \in [Ports -> [opening : 0..MaxRelays, copying : 0..MaxRelays, leaving : 0..MaxRelays]]

NoRelays == [opening |-> 0, copying |-> 0, leaving |-> 0]
Live(p) == relays[p].opening + relays[p].copying

Init ==
    /\ conn = [c \in Conns |-> "up"] /\ cancelling = [c \in Conns |-> 0]
    /\ listeners = [c \in Conns |-> {}] /\ told = [c \in Conns |-> {}]
    /\ task = [p \in Ports |-> NoConn] /\ aborted = {}
    /\ relays = [p \in Ports |-> NoRelays]

\* A request for port 0 is a duplicate of nothing: the map has the bound port.
Start(c, asked, p) ==
    /\ conn[c] = "up" /\ asked \in {0, p} /\ asked \notin listeners[c]
    /\ task[p] = NoConn
    /\ task' = [task EXCEPT ![p] = c]
    /\ listeners' = [listeners EXCEPT ![c] = @ \cup {p}]
    /\ told' = [told EXCEPT ![c] = @ \cup {p}]
    /\ UNCHANGED <<conn, cancelling, aborted, relays>>

\* Mutant: the reply does not wait for the task.
CancelAtOnce(c, p) ==
    /\ conn[c] = "up" /\ p \in listeners[c]
    /\ listeners' = [listeners EXCEPT ![c] = @ \ {p}]
    /\ aborted' = IF task[p] = c THEN aborted \cup {p} ELSE aborted
    /\ told' = [told EXCEPT ![c] = @ \ {p}]
    /\ UNCHANGED <<conn, cancelling, task, relays>>

Cancel(c, p) ==
    /\ conn[c] = "up" /\ p \in listeners[c]
    /\ listeners' = [listeners EXCEPT ![c] = @ \ {p}]
    /\ aborted' = IF task[p] = c THEN aborted \cup {p} ELSE aborted
    /\ conn' = [conn EXCEPT ![c] = "cancel"] /\ cancelling' = [cancelling EXCEPT ![c] = p]
    /\ UNCHANGED <<task, relays, told>>

Cancelled(c) ==
    /\ conn[c] = "cancel" /\ task[cancelling[c]] # c
    /\ conn' = [conn EXCEPT ![c] = "up"] /\ cancelling' = [cancelling EXCEPT ![c] = 0]
    /\ told' = [told EXCEPT ![c] = @ \ {cancelling[c]}]
    /\ UNCHANGED <<listeners, task, aborted, relays>>

\* The handler is dropped with the connection; it is not dropped in a handler.
Down(c) ==
    /\ conn[c] = "up"
    /\ conn' = [conn EXCEPT ![c] = "down"]
    /\ aborted' = aborted \cup {p \in listeners[c] : task[p] = c}
    /\ listeners' = [listeners EXCEPT ![c] = {}] /\ told' = [told EXCEPT ![c] = {}]
    /\ UNCHANGED <<cancelling, task, relays>>

\* The task drops its socket, and the set that aborts its relays.
Dropped(p) ==
    /\ task' = [task EXCEPT ![p] = NoConn]
    /\ relays' = [relays EXCEPT ![p] = [NoRelays EXCEPT !.leaving = relays[p].leaving + Live(p)]]

TaskEnds(p) ==
    /\ p \in aborted /\ aborted' = aborted \ {p}
    /\ Dropped(p)
    /\ UNCHANGED <<conn, cancelling, listeners, told>>

AcceptFails(p) ==
    /\ task[p] # NoConn /\ p \notin aborted
    /\ Dropped(p)
    /\ UNCHANGED <<conn, cancelling, listeners, aborted, told>>

Accept(p) ==
    /\ task[p] # NoConn /\ p \notin aborted /\ Live(p) + relays[p].leaving < MaxRelays
    /\ relays' = [relays EXCEPT ![p].opening = @ + 1]
    /\ UNCHANGED <<conn, cancelling, listeners, task, aborted, told>>

\* An aborted relay closes its connection, also under the next listener.
RelayLeaves(p) ==
    /\ relays[p].leaving > 0
    /\ relays' = [relays EXCEPT ![p].leaving = @ - 1]
    /\ UNCHANGED <<conn, cancelling, listeners, task, aborted, told>>

\* The channel is opened, or is refused, or is not answered for 30 seconds.
ChannelOpened(p) ==
    /\ relays[p].opening > 0
    /\ \/ relays' = [relays EXCEPT ![p].opening = @ - 1, ![p].copying = @ + 1]
       \/ relays' = [relays EXCEPT ![p].opening = @ - 1]
    /\ UNCHANGED <<conn, cancelling, listeners, task, aborted, told>>

CopyEnds(p) ==
    /\ relays[p].copying > 0
    /\ relays' = [relays EXCEPT ![p].copying = @ - 1]
    /\ UNCHANGED <<conn, cancelling, listeners, task, aborted, told>>

Next ==
    \/ \E c \in Conns :
        \/ \E p \in Ports : Start(c, 0, p) \/ Start(c, p, p) \/ Cancel(c, p)
        \/ Cancelled(c) \/ Down(c)
    \/ \E p \in Ports :
        \/ TaskEnds(p) \/ AcceptFails(p)
        \/ Accept(p) \/ ChannelOpened(p) \/ CopyEnds(p) \/ RelayLeaves(p)

Fairness ==
    /\ \A p \in Ports : WF_vars(TaskEnds(p)) /\ WF_vars(RelayLeaves(p))
    /\ \A c \in Conns : WF_vars(Cancelled(c))
Spec == Init /\ [][Next]_vars /\ Fairness

-----------------------------------------------------------------------------
\* A port is open, and connections to it are relayed, only for a client that was
\* told so, or until an aborted task has ended: a cancellation that was answered
\* has closed the port. Its relays may still be about to leave, aborted.
OpenPortsWereAsked ==
    \A p \in Ports : /\ task[p] # NoConn => p \in told[task[p]] \/ (p \in aborted /\ conn[task[p]] = "down")
                     /\ Live(p) > 0 => task[p] # NoConn

\* Nobody listens in the end for a client that is gone, and when all are gone
\* nothing is relayed.
PortsAreFreed ==
    /\ \A c \in Conns : conn[c] = "down" ~> \A p \in Ports : task[p] # c
    /\ (\A c \in Conns : conn[c] = "down") ~> relays = [p \in Ports |-> NoRelays]
=============================================================================
