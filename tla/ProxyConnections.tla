-------------------------- MODULE ProxyConnections --------------------------
(***************************************************************************)
(* The connections of one running proxy server: run_server and             *)
(* handle_client of infrastructure/http_proxy and socks5_proxy.  The       *)
(* server accepts clients while it has permits, joins the ones that ended, *)
(* applies their events to its list and publishes counter and list.        *)
(*                                                                         *)
(* An HTTP client may have several entries in the list, one for each       *)
(* request it forwards and one for its tunnel, each opened and closed by   *)
(* the task that relays it; a SOCKS5 client has one, opened by an event    *)
(* and removed when the client is joined.                                  *)
(***************************************************************************)
EXTENDS Naturals, Sequences, FiniteSets

CONSTANTS
    Clients,         \* slots for client tasks
    Ids,             \* identities of entries, in the order they are given
    MaxConnections,  \* MAX_CONNECTIONS (128)
    MaxRejected      \* MAX_REJECTED_CONNECTIONS (128)

VARIABLES
    kind,     \* "http" or "socks5"
    server,   \* "up", "draining" or "ended"
    stop,     \* the stop channel: its generation is outdated from then on
    client,   \* the client tasks
    entry,    \* the entries: the client they belong to, and what relays them
    busy,     \* clients of SOCKS5 that are told that the server is busy
    events,   \* the channel of connection events
    list,     \* connections
    active,   \* the counter
    shown     \* the last status that was published

vars == <<kind, server, stop, client, entry, busy, events, list, active, shown>>

\* `at' of an entry: none, made (a job in the client's queue), spawned, relayed,
\* aborted (its task is still to be dropped) or gone.
Fresh == [at |-> "none", tunnel |-> FALSE, of |-> {}]
Of(c) == {i \in Ids : c \in entry[i].of}
Live(i) == entry[i].at \in {"relayed", "aborted"}
Permits == {c \in Clients : client[c] \in {"serving", "closing"}}

TypeOK ==
    /\ kind \in {"http", "socks5"} /\ server \in {"up", "draining", "ended"}
    /\ stop \in BOOLEAN
    /\ client \in [Clients -> {"free", "serving", "closing", "ended"}]
    /\ entry \in [Ids -> [at : {"none", "made", "spawned", "relayed", "aborted", "gone"},
                          tunnel : BOOLEAN, of : SUBSET Clients]]
    /\ busy \in 0..MaxRejected
    /\ events \in Seq({"opened", "closed"} \X Ids)
    /\ list \subseteq Ids /\ active \in 0..Cardinality(Clients)
    /\ shown \in [count : 0..Cardinality(Clients), list : SUBSET Ids]

Init ==
    /\ kind \in {"http", "socks5"}
    /\ server = "up" /\ stop = FALSE
    /\ client = [c \in Clients |-> "free"] /\ entry = [i \in Ids |-> Fresh]
    /\ busy = 0 /\ events = <<>> /\ list = {} /\ active = 0
    /\ shown = [count |-> 0, list |-> {}]

Publish(count, entries) ==
    shown' = IF stop THEN shown ELSE [count |-> count, list |-> entries]

\* apply_connection_event, and upsert_connection.
Apply(entries, event) ==
    IF event[1] = "opened" THEN entries \cup {event[2]} ELSE entries \ {event[2]}
\* drain_connection_events: what is received is applied one by one.
Drained(entries) ==
    LET after[n \in 0..Len(events)] ==
          IF n = 0 THEN entries ELSE Apply(after[n - 1], events[n])
    IN after[Len(events)]

-----------------------------------------------------------------------------
(* The server                                                              *)

NextId(i) == entry[i].at = "none" /\ \A j \in Ids : j < i => entry[j].at # "none"

\* A SOCKS5 connection has its identity from the start.
Accept(c) ==
    /\ server = "up" /\ client[c] = "free"
    /\ Cardinality(Permits) < MaxConnections
    /\ client' = [client EXCEPT ![c] = "serving"]
    /\ \/ kind = "http" /\ entry' = entry
       \/ kind = "socks5" /\ \E i \in Ids :
            NextId(i) /\ entry' = [entry EXCEPT ![i].at = "made", ![i].of = {c}]
    /\ active' = active + 1
    /\ Publish(active + 1, list)
    /\ UNCHANGED <<kind, server, stop, busy, events, list>>

\* Without a permit an HTTP client is dropped; a SOCKS5 client is answered
\* while there are permits for that.
AcceptBusy ==
    /\ server = "up" /\ kind = "socks5" /\ Cardinality(Permits) >= MaxConnections
    /\ busy < MaxRejected
    /\ busy' = busy + 1
    /\ UNCHANGED <<kind, server, stop, client, entry, events, list, active, shown>>

BusyEnds ==
    /\ busy > 0
    /\ busy' = busy - 1
    /\ UNCHANGED <<kind, server, stop, client, entry, events, list, active, shown>>

Joined(c, entries) ==
    /\ server \in {"up", "draining"} /\ client[c] = "ended"
    /\ client' = [client EXCEPT ![c] = "free"]
    /\ entry' = [i \in Ids |-> [entry[i] EXCEPT !.of = @ \ {c}]]
    /\ active' = active - 1 /\ events' = <<>> /\ list' = entries
    /\ Publish(active - 1, entries)
    /\ UNCHANGED <<kind, server, stop, busy>>

\* Mutant: the entry of a SOCKS5 client is removed before the events are applied.
JoinThenDrain(c) ==
    Joined(c, Drained(list \ (IF kind = "socks5" THEN Of(c) ELSE {})))

\* The events that are there are applied first, so that the one that opened the
\* entry of a SOCKS5 client cannot bring it back.
Join(c) == Joined(c, Drained(list) \ (IF kind = "socks5" THEN Of(c) ELSE {}))

Receive ==
    /\ server = "up" /\ events # <<>>
    /\ events' = Tail(events) /\ list' = Apply(list, Head(events))
    /\ Publish(active, Apply(list, Head(events)))
    /\ UNCHANGED <<kind, server, stop, client, entry, busy, active>>

Stop ==
    /\ ~stop
    /\ stop' = TRUE
    /\ UNCHANGED <<kind, server, client, entry, busy, events, list, active, shown>>

BreakOnStop ==
    /\ server = "up" /\ stop
    /\ server' = "draining"
    /\ UNCHANGED <<kind, stop, client, entry, busy, events, list, active, shown>>

End ==
    /\ server = "draining" /\ busy = 0 /\ \A c \in Clients : client[c] = "free"
    /\ server' = "ended"
    /\ UNCHANGED <<kind, stop, client, entry, busy, events, list, active, shown>>

\* A task that is dropped aborts the relays it owns: one that never ran opened
\* nothing, the others close their entries when they are dropped in turn.
Aborted(e) == [e EXCEPT !.at =
    CASE @ \in {"made", "spawned"} -> "gone" [] @ = "relayed" -> "aborted" [] OTHER -> @]
AbortAll(ids) == [i \in Ids |-> IF i \in ids THEN Aborted(entry[i]) ELSE entry[i]]

\* The listener fails, or three seconds after the stop the task is aborted:
\* every client is dropped with its server.
Dropped ==
    /\ server \in {"up", "draining"}
    /\ server' = "ended" /\ busy' = 0 /\ events' = <<>>
    /\ client' = [c \in Clients |-> "free"] /\ entry' = AbortAll(Ids)
    /\ UNCHANGED <<kind, stop, list, active, shown>>
AcceptFails == server = "up" /\ Dropped
AbortServer == stop /\ Dropped

-----------------------------------------------------------------------------
(* A client task                                                           *)

ClientStep(c, at, entries) ==
    /\ client' = [client EXCEPT ![c] = at] /\ entry' = entries
    /\ UNCHANGED <<kind, server, stop, busy, events, list, active, shown>>

\* An HTTP request was authorized and its target reached: a job for its relay.
Request(c, tunnel) ==
    /\ kind = "http" /\ client[c] = "serving"
    /\ \A i \in Of(c) : ~entry[i].tunnel   \* an upgrade ends the HTTP connection
    /\ \E i \in Ids : NextId(i) /\
        ClientStep(c, "serving",
            [entry EXCEPT ![i] = [at |-> "made", tunnel |-> tunnel, of |-> {c}]])

SpawnJob(i) ==
    /\ kind = "http" /\ entry[i].at = "made"
    /\ entry' = [entry EXCEPT ![i].at = "spawned"]
    /\ UNCHANGED <<kind, server, stop, client, busy, events, list, active, shown>>

\* The HTTP connection is complete: queued jobs are spawned, the upstreams shut
\* down, and the tunnel waited for.
ConnectionDone(c) ==
    /\ kind = "http" /\ client[c] = "serving"
    /\ ClientStep(c, "closing",
           [i \in Ids |->
               IF i \notin Of(c) THEN entry[i]
               ELSE IF ~entry[i].tunnel THEN Aborted(entry[i])
               ELSE IF entry[i].at = "made" THEN [entry[i] EXCEPT !.at = "spawned"]
               ELSE entry[i]])

ClientDone(c) ==
    /\ kind = "http" /\ client[c] = "closing"
    /\ \A i \in Of(c) : entry[i].at = "gone"
    /\ ClientStep(c, "ended", entry)

\* The connection fails, or the stop wins the select: the future is dropped.
ClientDropped(c) ==
    /\ kind = "http" /\ client[c] \in {"serving", "closing"}
    /\ client[c] = "serving" \/ stop
    /\ ClientStep(c, "ended", AbortAll(Of(c)))

Relay(i, from, to, event) ==
    /\ entry[i].at = from
    /\ entry' = [entry EXCEPT ![i].at = to]
    /\ events' = IF server = "ended" THEN events ELSE Append(events, <<event, i>>)
    /\ UNCHANGED <<kind, server, stop, client, busy, list, active, shown>>

\* ConnectionStatusGuard: new when the relay first runs, drop when it ends.
Opened(i) == kind = "http" /\ Relay(i, "spawned", "relayed", "opened")
Closed(i) ==
    kind = "http" /\ \E from \in {"relayed", "aborted"} : Relay(i, from, "gone", "closed")

\* SOCKS5: the handshake is over and the target connected; the relay starts.
Negotiated(i) ==
    /\ kind = "socks5" /\ \E c \in entry[i].of : client[c] = "serving"
    /\ Relay(i, "made", "relayed", "opened")

\* The handshake fails or takes ten seconds, the relay ends or is idle for five
\* minutes, or the stop wins the select.
ClientEnds(c) ==
    /\ kind = "socks5" /\ client[c] = "serving"
    /\ ClientStep(c, "ended",
           [i \in Ids |-> IF i \in Of(c) THEN [entry[i] EXCEPT !.at = "gone"] ELSE entry[i]])

Task(c) == ConnectionDone(c) \/ ClientDone(c) \/ ClientDropped(c) \/ ClientEnds(c)
RelayStep(i) == SpawnJob(i) \/ Opened(i) \/ Closed(i) \/ Negotiated(i)
Next ==
    \/ \E c \in Clients : Accept(c) \/ Join(c) \/ Task(c) \/ (\E t \in BOOLEAN : Request(c, t))
    \/ AcceptBusy \/ BusyEnds \/ Receive \/ Stop \/ BreakOnStop \/ End
    \/ AcceptFails \/ AbortServer
    \/ \E i \in Ids : RelayStep(i)

Spec == Init /\ [][Next]_vars

-----------------------------------------------------------------------------
(* Properties                                                              *)

\* With the events that are on their way the list of a running server has the
\* connections that are relayed and no other: none stays in it after its relay
\* ended, and an aborted one is removed once its task is dropped.
OpenIds == {i \in Ids : Live(i)}
ListIsTheConnections ==
    server = "up" =>
        Drained(list) \ {i \in Ids : kind = "socks5" /\ entry[i].at = "gone"} = OpenIds

\* A server with nothing to do shows what there is: the clients it has not
\* joined, and the list with no ghosts in it.
Quiet == server = "up" /\ ~stop /\ events = <<>> /\ \A c \in Clients : client[c] # "ended"
ShownIsTheConnections ==
    Quiet => shown = [count |-> Cardinality(Permits), list |-> OpenIds]

=============================================================================
