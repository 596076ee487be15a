---------------------------- MODULE SidebarSessions ----------------------------
(***************************************************************************)
(* The list of saved sessions in the sidebar (gui/sidebar_session/).  A    *)
(* change made here or in the form of the title bar is saved by the        *)
(* application and followed by a refresh; refreshes run beside one         *)
(* another, and a generation decides whose result counts.  A result is     *)
(* read in two steps: the open tunnels first, then the profiles.           *)
(*                                                                         *)
(* The handlers run on the window's thread; a menu offers what the list    *)
(* showed when it was opened.  A profile is its identity with a            *)
(* version, the number of times it was saved.                              *)
(***************************************************************************)
EXTENDS Integers, Sequences, FiniteSets, SequencesExt

CONSTANTS
  Profiles,
  Queries,          \* of the search field; each query is the set of profiles it finds
  MaxVersion,       \* BOUND: how often a profile is saved
  MaxWork           \* BOUND: operations and refreshes under way

VARIABLES
  stored,       \* the profiles saved, with their versions
  tunnels,      \* the profiles whose reverse tunnel is open
  sessions,     \* the sessions shown: those of the last refresh, and their tunnels
  failed,       \* core_err
  listed,       \* the rows of the draggable list, after the search
  menu,         \* the context menu that is open: its profile and what it offers
  query,        \* the search field
  tasks,        \* operations under way, each with what it captured
  refreshes,    \* refreshes under way: what each has read, and whether its
                \* generation is still the newest
  behind        \* the tunnels others opened or closed since they were last read

sidebarVars == <<stored, tunnels, sessions, failed, listed, menu, query, tasks, refreshes,
                 behind>>

Unread == <<>>

Gone(f, p) == [q \in DOMAIN f \ {p} |-> f[q]]

With(f, p, v) == [q \in DOMAIN f \cup {p} |-> IF q = p THEN v ELSE f[q]]

Nobody == [profiles |-> [p \in {} |-> 0], tunnels |-> {}]

Fresh == [tunnels |-> Unread, result |-> Unread, newest |-> TRUE]

Refresh ==
  refreshes' = Append([i \in DOMAIN refreshes |-> [refreshes[i] EXCEPT !.newest = FALSE]], Fresh)

shown == <<sessions, failed, listed, menu>>

Init ==
  /\ stored = Nobody.profiles /\ tunnels = {} /\ behind = {}
  /\ sessions = Nobody /\ failed = FALSE
  /\ listed = {} /\ menu = Unread
  /\ query \in Queries
  /\ tasks = {}
  /\ refreshes = <<Fresh>>

Room == Cardinality(tasks) + Len(refreshes) < MaxWork

-----------------------------------------------------------------------------
(* Operations: asked for, then done by the application, then answered.     *)

Asked(kind, p) ==
  /\ Room
  /\ tasks' = tasks \cup {[kind |-> kind, of |-> p, done |-> FALSE, ok |-> TRUE]}
  /\ UNCHANGED <<stored, tunnels, sessions, failed, listed, query, refreshes, behind>>

\* The form of the title bar, opened for a new session or for a saved one.
Submit(p) == Asked("save", p) /\ UNCHANGED menu

OpenMenu(p) ==
  /\ p \in listed
  /\ menu' = <<p, IF p \in sessions.tunnels THEN "close" ELSE "open">>
  /\ UNCHANGED <<stored, tunnels, sessions, failed, listed, query, tasks, refreshes, behind>>

DeleteSession == menu # Unread /\ Asked("delete", menu[1]) /\ menu' = Unread

\* The session must still be shown.
SetTunnel ==
  /\ menu # Unread /\ menu[1] \in DOMAIN sessions.profiles
  /\ Asked(menu[2], menu[1]) /\ menu' = Unread

NotFound ==
  /\ menu # Unread /\ menu[1] \notin DOMAIN sessions.profiles
  /\ menu' = Unread
  /\ failed' = TRUE
  /\ UNCHANGED <<stored, tunnels, sessions, listed, query, tasks, refreshes, behind>>

Version(p) == IF p \in DOMAIN stored THEN stored[p] ELSE 0

Effect(task) ==
  /\ stored'  = CASE task.kind = "save" -> With(stored, task.of, Version(task.of) + 1)
                 [] task.kind = "delete" -> Gone(stored, task.of)
                 [] OTHER -> stored
  /\ tunnels' = CASE task.kind = "open" -> tunnels \cup {task.of}
                 [] task.kind \in {"close", "delete"} -> tunnels \ {task.of}
                 [] OTHER -> tunnels

Done(task) ==
  /\ task \in tasks /\ ~task.done
  /\ \E ok \in BOOLEAN :
       /\ tasks' = (tasks \ {task}) \cup {[task EXCEPT !.done = TRUE, !.ok = ok]}
       /\ IF ok
          THEN /\ Effect(task)
               /\ (task.kind = "save" => Version(task.of) < MaxVersion)
               /\ (task.kind = "open" => task.of \in DOMAIN stored /\ task.of \notin tunnels)
          ELSE UNCHANGED <<stored, tunnels>>
  /\ UNCHANGED <<shown, query, refreshes, behind>>

\* A save that fails is shown in its form.
AnswerFails(task) ==
  /\ task \in tasks /\ task.done /\ ~task.ok
  /\ tasks' = tasks \ {task}
  /\ failed' = (failed \/ task.kind # "save")
  /\ UNCHANGED <<stored, tunnels, sessions, listed, menu, query, refreshes, behind>>

\* The list is refreshed: after CreateSession or UpdateSession, after a deletion,
\* after a tunnel, for which a workspace is then asked for.
Answered(task) ==
  /\ task \in tasks /\ task.done /\ task.ok
  /\ tasks' = tasks \ {task}
  /\ Refresh
  /\ UNCHANGED <<stored, tunnels, shown, query, behind>>

\* An agent opens or closes a tunnel, or its session dies: nobody tells the list.
TunnelChanges(p) ==
  /\ p \in DOMAIN stored /\ p \notin behind
  /\ tunnels' = IF p \in tunnels THEN tunnels \ {p} ELSE tunnels \cup {p}
  /\ behind' = behind \cup {p}
  /\ UNCHANGED <<stored, shown, query, tasks, refreshes>>

-----------------------------------------------------------------------------
(* Refreshes.                                                              *)

ReadTunnels(i) ==
  /\ i \in DOMAIN refreshes /\ refreshes[i].tunnels = Unread
  /\ refreshes' = [refreshes EXCEPT ![i].tunnels = <<tunnels>>]
  /\ behind' = IF refreshes[i].newest THEN {} ELSE behind
  /\ UNCHANGED <<stored, tunnels, shown, query, tasks>>

ReadProfiles(i) ==
  /\ i \in DOMAIN refreshes
  /\ refreshes[i].tunnels # Unread /\ refreshes[i].result = Unread
  /\ refreshes' = [refreshes EXCEPT ![i].result = <<stored>>]
  /\ UNCHANGED <<stored, tunnels, shown, query, tasks, behind>>

\* Mutant: the result that arrives last counts.
NewestAlways(i) == TRUE

Newest(i) == refreshes[i].newest

Ended(i) == RemoveAt(refreshes, i)

\* The result of an older refresh is dropped.
Superseded(i) ==
  /\ i \in DOMAIN refreshes /\ refreshes[i].result # Unread /\ ~Newest(i)
  /\ refreshes' = Ended(i)
  /\ UNCHANGED <<stored, tunnels, shown, query, tasks, behind>>

Matches(from) == DOMAIN from.profiles \cap query

\* The sessions are replaced, and the rows are made anew with their menu.
Applied(i) ==
  /\ i \in DOMAIN refreshes /\ refreshes[i].result # Unread /\ Newest(i)
  /\ refreshes' = Ended(i)
  /\ LET profiles == refreshes[i].result[1]
         now == [profiles |-> profiles, tunnels |-> refreshes[i].tunnels[1] \cap DOMAIN profiles]
     IN sessions' = now /\ listed' = Matches(now)
  /\ failed' = FALSE
  /\ UNCHANGED <<stored, tunnels, menu, query, tasks, behind>>

\* The profiles cannot be read.
RefreshFails(i) ==
  /\ i \in DOMAIN refreshes /\ refreshes[i].tunnels # Unread /\ refreshes[i].result = Unread
  /\ refreshes' = Ended(i)
  /\ failed' = (failed \/ Newest(i))
  /\ UNCHANGED <<stored, tunnels, sessions, listed, menu, query, tasks, behind>>

\* The field changes: the rows shown are filtered again.
Search(text) ==
  /\ text # query
  /\ query' = text
  /\ listed' = DOMAIN sessions.profiles \cap text
  /\ UNCHANGED <<stored, tunnels, sessions, failed, menu, tasks, refreshes, behind>>

-----------------------------------------------------------------------------
Next ==
  \/ \E p \in Profiles :
       Submit(p) \/ OpenMenu(p) \/ TunnelChanges(p)
  \/ DeleteSession \/ SetTunnel \/ NotFound
  \/ \E task \in tasks : Done(task) \/ AnswerFails(task) \/ Answered(task)
  \/ \E i \in DOMAIN refreshes :
       ReadTunnels(i) \/ ReadProfiles(i) \/ Superseded(i) \/ Applied(i) \/ RefreshFails(i)
  \/ \E text \in Queries : Search(text)

Spec == Init /\ [][Next]_sidebarVars

-----------------------------------------------------------------------------
\* Types.
TypeOK ==
  /\ DOMAIN stored \subseteq Profiles /\ tunnels \subseteq Profiles
  /\ DOMAIN sessions.profiles \subseteq Profiles
  /\ query \in Queries /\ failed \in BOOLEAN
  /\ Cardinality(tasks) + Len(refreshes) <= MaxWork

(* Once every operation is answered and every refresh has ended without an *)
(* error, the sidebar shows the profiles as they are saved, lists those    *)
(* that the search finds, and offers to close the tunnels that are open,   *)
(* but for those that others have opened or closed since: in whatever      *)
(* order the results of the refreshes arrive.                              *)
SidebarShowsTheProfiles ==
  tasks = {} /\ refreshes = <<>> /\ ~failed =>
    /\ sessions.profiles = stored
    /\ listed = DOMAIN stored \cap query
    /\ sessions.tunnels \ behind = (tunnels \cap DOMAIN stored) \ behind
=============================================================================
