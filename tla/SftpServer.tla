----------------------------- MODULE SftpServer -----------------------------
(***************************************************************************)
(* The SFTP server inside the SSH server (infrastructure/sftp_server,      *)
(* application/sftp_server).  A connection opens a session under a number  *)
(* and finds it again by that number in every request; a session keeps     *)
(* handles, and a handle the number of an open file or directory in a      *)
(* table that all sessions share.  Both numbers come from counters:        *)
(* fetch_add(1).max(1) gives the number 1 twice.  A connection answers one *)
(* request after the other; requests of several connections interleave     *)
(* where they await the file system.  When a connection ends a task of its *)
(* own closes its session.                                                 *)
(*                                                                         *)
(* The served directory is flat: names of files, directories and links to  *)
(* names; a node is what a name names, and stays open when it is renamed   *)
(* or removed.                                                             *)
(***************************************************************************)
EXTENDS Integers, FiniteSets

CONSTANTS
    Conns, NoConn,
    Names, NoName,
    Served,        \* the directories the server may start with
    MaxSessions,   \* bound: session numbers
    MaxRaw,        \* bound: numbers of open files
    MaxNodes       \* bound: nodes that ever exist

VARIABLES
    conn,          \* the connection: where its request is, and its session number
    sessions,      \* number -> the connection whose session it finds
    nextSession,
    handles,       \* the session of each connection: its handles
    raws,          \* number -> what is open
    nextRaw,
    disk,          \* name -> entry
    nodes,         \* nodes that were used
    shared,        \* history: a number was given twice while in use
    moved          \* history: nodes that lost a name

vars == <<conn, sessions, nextSession, handles, raws, nextRaw, disk, nodes, shared, moved>>

File(node) == [kind |-> "file", node |-> node, to |-> NoName]
Directory(node) == [kind |-> "dir", node |-> node, to |-> NoName]
Link(name) == [kind |-> "link", node |-> 0, to |-> name]
Nothing == [kind |-> "none", node |-> 0, to |-> NoName]

NotOpen == [kind |-> "none", node |-> 0]
NoConnection == [at |-> "none", number |-> 0, name |-> NoName, closing |-> {}]

Entries == [kind : {"none", "file", "dir", "link"}, node : 0..MaxNodes, to : Names \cup {NoName}]
Handles == [name : Names, raw : 1..MaxRaw, kind : {"file", "dir"}, node : 1..MaxNodes]

TypeOK ==
    /\ conn \in [Conns ->
          [at : {"none", "idle", "existing", "create", "gone", "closing", "ended"},
           number : 0..MaxSessions, name : Names \cup {NoName}, closing : SUBSET (1..MaxRaw)]]
    /\ sessions \in [1..MaxSessions -> Conns \cup {NoConn}] /\ nextSession \in Nat
    /\ handles \in [Conns -> SUBSET Handles]
    /\ raws \in [1..MaxRaw -> [kind : {"none", "file", "dir"}, node : 0..MaxNodes]]
    /\ nextRaw \in Nat
    /\ disk \in [Names -> Entries]
    /\ nodes \in 0..MaxNodes /\ moved \subseteq 1..MaxNodes
    /\ shared \in BOOLEAN

\* How many nodes a directory has.
Used(tree) == Cardinality({tree[n].node : n \in Names} \ {0})

Init ==
    /\ conn = [c \in Conns |-> NoConnection]
    /\ sessions = [n \in 1..MaxSessions |-> NoConn] /\ nextSession \in {0, 1}
    /\ handles = [c \in Conns |-> {}]
    /\ raws = [r \in 1..MaxRaw |-> NotOpen] /\ nextRaw \in {0, 1}
    /\ disk \in Served /\ nodes = Used(disk)
    /\ shared = FALSE /\ moved = {}

-----------------------------------------------------------------------------
(* Sessions                                                                *)

Number(counter) == IF counter = 0 THEN 1 ELSE counter

Connect(c) ==
    LET number == Number(nextSession) IN
    /\ conn[c].at = "none" /\ number <= MaxSessions
    /\ conn' = [conn EXCEPT ![c] = [NoConnection EXCEPT !.at = "idle", !.number = number]]
    /\ sessions' = [sessions EXCEPT ![number] = c]
    /\ nextSession' = nextSession + 1
    /\ shared' = (shared \/ sessions[number] # NoConn)
    /\ UNCHANGED <<handles, raws, nextRaw, disk, nodes, moved>>

\* The stream ends between two requests: the handler is dropped.
Disconnect(c) ==
    /\ conn[c].at = "idle"
    /\ conn' = [conn EXCEPT ![c].at = "gone"]
    /\ UNCHANGED <<sessions, nextSession, handles, raws, nextRaw, disk, nodes, shared, moved>>

\* Mutant: the session is forgotten with its handles.
CloseSessionOnly(c) ==
    /\ conn[c].at = "gone"
    /\ sessions' = [sessions EXCEPT ![conn[c].number] = NoConn]
    /\ conn' = [conn EXCEPT ![c].at = "ended"]
    /\ UNCHANGED <<nextSession, handles, raws, nextRaw, disk, nodes, shared, moved>>

CloseSession(c) ==
    LET found == sessions[conn[c].number] IN
    /\ conn[c].at = "gone"
    /\ IF found = NoConn
       THEN conn' = [conn EXCEPT ![c].at = "ended"] /\ UNCHANGED <<sessions, handles>>
       ELSE /\ sessions' = [sessions EXCEPT ![conn[c].number] = NoConn]
            /\ handles' = [handles EXCEPT ![found] = {}]
            /\ conn' = [conn EXCEPT ![c].at = "closing", ![c].closing = {h.raw : h \in handles[found]}]
    /\ UNCHANGED <<nextSession, raws, nextRaw, disk, nodes, shared, moved>>

CloseAll(c) ==
    /\ conn[c].at = "closing"
    /\ raws' = [r \in 1..MaxRaw |-> IF r \in conn[c].closing THEN NotOpen ELSE raws[r]]
    /\ conn' = [conn EXCEPT ![c] = [NoConnection EXCEPT !.at = "ended"]]
    /\ UNCHANGED <<sessions, nextSession, handles, nextRaw, disk, nodes, shared, moved>>

-----------------------------------------------------------------------------
(* Paths                                                                   *)

Target(name) == IF disk[name].kind = "link" THEN disk[name].to ELSE name
Exists(name) == disk[Target(name)].kind \notin {"none", "link"}

\* existing_path resolves links, create_path keeps the name it was given; the
\* root itself is refused.  Which request it is shows when it acts.
Resolve(c, name) ==
    /\ conn[c].at = "idle" /\ sessions[conn[c].number] # NoConn
    /\ \/ /\ Exists(name)
          /\ conn' = [conn EXCEPT ![c].at = "existing", ![c].name = Target(name)]
       \/ conn' = [conn EXCEPT ![c].at = "create", ![c].name = name]
    /\ UNCHANGED <<sessions, nextSession, handles, raws, nextRaw, disk, nodes, shared, moved>>

Answered(c) == conn' = [conn EXCEPT ![c].at = "idle", ![c].name = NoName]

\* Between resolving and acting another connection may have changed the
\* directory; whatever the file system refuses is answered with its error.
Refused(c) ==
    /\ conn[c].at \in {"existing", "create"} /\ Answered(c)
    /\ UNCHANGED <<sessions, nextSession, handles, raws, nextRaw, disk, nodes, shared, moved>>

-----------------------------------------------------------------------------
(* Handles                                                                 *)

\* insert_handle, then next_handle of the session the request found.
Opened(c, kind, node) ==
    LET raw == Number(nextRaw) IN
    /\ raw <= MaxRaw /\ sessions[conn[c].number] # NoConn
    /\ raws' = [raws EXCEPT ![raw] = [kind |-> kind, node |-> node]]
    /\ nextRaw' = nextRaw + 1
    /\ shared' = (shared \/ raws[raw] # NotOpen)
    /\ handles' = [handles EXCEPT ![sessions[conn[c].number]] = @ \cup
                     {[name |-> conn[c].name, raw |-> raw, kind |-> kind, node |-> node]}]
    /\ Answered(c) /\ UNCHANGED <<sessions, nextSession>>

Open(c) ==
    LET name == Target(conn[c].name) IN
    /\ conn[c].at = "create" /\ disk[name].kind = "file"
    /\ Opened(c, "file", disk[name].node)
    /\ UNCHANGED <<disk, nodes, moved>>

OpenNew(c) ==
    LET name == Target(conn[c].name) IN
    /\ conn[c].at = "create" /\ disk[name].kind = "none" /\ nodes < MaxNodes
    /\ nodes' = nodes + 1 /\ disk' = [disk EXCEPT ![name] = File(nodes + 1)]
    /\ Opened(c, "file", nodes + 1)
    /\ UNCHANGED moved

OpenDirectory(c) ==
    /\ conn[c].at = "existing" /\ disk[conn[c].name].kind = "dir"
    /\ Opened(c, "dir", disk[conn[c].name].node)
    /\ UNCHANGED <<disk, nodes, moved>>

\* Mutant: the handle stays in the session.
Remembered(c, h) == UNCHANGED handles
Forgotten(c, h) == handles' = [handles EXCEPT ![c] = @ \ {h}]

\* A handle may be closed by any connection whose number finds its session.
Close(c, owner, h) ==
    /\ conn[c].at = "idle" /\ sessions[conn[c].number] = owner /\ h \in handles[owner]
    /\ Forgotten(owner, h)
    /\ raws' = [raws EXCEPT ![h.raw] = NotOpen]
    /\ UNCHANGED <<conn, sessions, nextSession, nextRaw, disk, nodes, shared, moved>>

\* Reads, writes and listings go to what the number finds; the attributes of a
\* handle are set through the path it was opened with.
Reached(h) == raws[h.raw]
Named(h) == disk[Target(h.name)].node

-----------------------------------------------------------------------------
(* The directory                                                           *)

\* A file also loses the name of a link to it.
Unlinked(names) == moved' = moved \cup ({disk[Target(n)].node : n \in names} \ {0})
DiskChanged(c) ==
    /\ Answered(c)
    /\ UNCHANGED <<sessions, nextSession, handles, raws, nextRaw, shared>>

\* remove and rmdir.  The resolved name is removed: of a link, what it names.
Remove(c) ==
    LET name == conn[c].name IN
    /\ conn[c].at = "existing" /\ disk[name].kind # "none"
    /\ disk' = [disk EXCEPT ![name] = Nothing] /\ Unlinked({name})
    /\ UNCHANGED nodes /\ DiskChanged(c)

Mkdir(c) ==
    /\ conn[c].at = "create" /\ disk[conn[c].name].kind = "none" /\ nodes < MaxNodes
    /\ nodes' = nodes + 1 /\ disk' = [disk EXCEPT ![conn[c].name] = Directory(nodes + 1)]
    /\ UNCHANGED moved /\ DiskChanged(c)

Rename(c, new) ==
    LET old == conn[c].name IN
    /\ conn[c].at = "existing" /\ disk[old].kind # "none" /\ old # new
    /\ (disk[old].kind = "dir") = (disk[new].kind = "dir") \/ disk[new].kind = "none"
    /\ disk' = [disk EXCEPT ![old] = Nothing, ![new] = disk[old]] /\ Unlinked({old, new})
    /\ UNCHANGED nodes /\ DiskChanged(c)

Next == \E c \in Conns :
    \/ Connect(c) \/ Disconnect(c) \/ CloseSession(c) \/ CloseAll(c)
    \/ \E name \in Names : Resolve(c, name) \/ Rename(c, name)
    \/ Refused(c) \/ Open(c) \/ OpenNew(c) \/ OpenDirectory(c)
    \/ \E owner \in Conns : \E h \in handles[owner] :
        Close(c, owner, h)
    \/ Remove(c) \/ Mkdir(c)

Spec == Init /\ [][Next]_vars

-----------------------------------------------------------------------------
(* Properties                                                              *)

\* Every handle of a session finds the file or directory it was opened for,
\* and every connection its own session.
HandlesReachTheirFiles ==
    \A c \in Conns :
        /\ conn[c].at \in {"idle", "existing", "create"} => sessions[conn[c].number] = c
        /\ \A h \in handles[c] : Reached(h) = [kind |-> h.kind, node |-> h.node]

\* So it is unless a number was given twice while it was in use: the first two
\* numbers of both counters are the same.
NumbersTellHandlesApart == ~shared => HandlesReachTheirFiles

\* Attributes set through a handle are those of the file it was opened for,
\* unless a name of that file was renamed, removed or replaced meanwhile.
AttributesHitTheirFile ==
    ~shared => \A c \in Conns : \A h \in handles[c] : Named(h) = h.node \/ h.node \in moved

\* When the connections are gone nothing they opened is still open.
NothingStaysOpen ==
    (\A c \in Conns : conn[c].at \in {"none", "ended"}) /\ ~shared =>
        \A r \in 1..MaxRaw : raws[r] = NotOpen
=============================================================================
