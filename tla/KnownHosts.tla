----------------------------- MODULE KnownHosts -----------------------------
(***************************************************************************)
(* The file of host keys (infrastructure/storage/known_hosts.rs).  Every   *)
(* SSH and SFTP connection, reverse tunnel and jump host verifies its      *)
(* server's key on a blocking thread of its own: the file is read whole,   *)
(* an entry that is missing or different is replaced, and the file is      *)
(* truncated and written whole.  No lock orders the threads.               *)
(***************************************************************************)
EXTENDS Integers

CONSTANTS
    Checks,     \* verifications that may run at the same time
    Endpoints,
    Keys, NoKey,
    Torn,       \* a file that is not valid
    MaxCrashes  \* bound: crashes of the program in one behaviour

VARIABLES
    file,       \* endpoint -> key, or Torn; a missing file has no entry
    checks,     \* the verifications
    accepted,   \* history: the key of each endpoint that was accepted last
    raced,      \* history: a verification read or wrote during another's write
    crashes

vars == <<file, checks, accepted, raced, crashes>>

Entries == [Endpoints -> Keys \cup {NoKey}]
Empty == [e \in Endpoints |-> NoKey]
Idle == [at |-> "idle", entries |-> Empty, endpoint |-> "none", key |-> NoKey]

TypeOK ==
    /\ file \in Entries \cup {Torn} /\ accepted \in Entries
    /\ checks \in [Checks -> [at : {"idle", "asked", "read", "written"}, entries : Entries,
                             endpoint : Endpoints \cup {"none"}, key : Keys \cup {NoKey}]]
    /\ raced \in BOOLEAN /\ crashes \in 0..MaxCrashes

Init ==
    /\ file = Empty /\ checks = [c \in Checks |-> Idle]
    /\ accepted = Empty /\ raced = FALSE /\ crashes = 0

Busy(c) == \E d \in Checks \ {c} : checks[d].at \in {"read", "written"}

\* A server shows its key to a new connection.
Ask(c, e, k) ==
    /\ checks[c].at = "idle"
    /\ checks' = [checks EXCEPT ![c] = [Idle EXCEPT !.at = "asked", !.endpoint = e, !.key = k]]
    /\ UNCHANGED <<file, accepted, raced, crashes>>

\* A file that is not valid refuses every connection, known or not.
Refuse(c) ==
    /\ checks[c].at = "asked" /\ file = Torn
    /\ checks' = [checks EXCEPT ![c] = Idle]
    /\ UNCHANGED <<file, accepted, raced, crashes>>

Known(c) ==
    /\ checks[c].at = "asked" /\ file # Torn
    /\ file[checks[c].endpoint] = checks[c].key
    /\ accepted' = [accepted EXCEPT ![checks[c].endpoint] = checks[c].key]
    /\ checks' = [checks EXCEPT ![c] = Idle]
    /\ UNCHANGED <<file, raced, crashes>>

\* Mutant: the new entry replaces the others.
EnteredAlone(c) == [Empty EXCEPT ![checks[c].endpoint] = checks[c].key]
Entered(c) == [file EXCEPT ![checks[c].endpoint] = checks[c].key]

\* A key that is new, or not the one that is known, is entered without asking.
Enter(c) ==
    /\ checks[c].at = "asked" /\ file # Torn
    /\ file[checks[c].endpoint] # checks[c].key
    /\ checks' = [checks EXCEPT ![c].at = "read", ![c].entries = Entered(c)]
    /\ raced' = (raced \/ Busy(c))
    /\ UNCHANGED <<file, accepted, crashes>>

\* fs::write truncates the file, then writes it.
Truncate(c) ==
    /\ checks[c].at = "read"
    /\ file' = Torn
    /\ checks' = [checks EXCEPT ![c].at = "written"]
    /\ raced' = (raced \/ Busy(c))
    /\ UNCHANGED <<accepted, crashes>>

\* Two writers at the same time: the longer text keeps its tail.
Finish(c) ==
    /\ checks[c].at = "written"
    /\ file' \in IF \E d \in Checks \ {c} : checks[d].at = "written" \/ file # Torn
                 THEN {checks[c].entries, Torn} ELSE {checks[c].entries}
    /\ accepted' = [accepted EXCEPT ![checks[c].endpoint] = checks[c].key]
    /\ checks' = [checks EXCEPT ![c] = Idle]
    /\ UNCHANGED <<raced, crashes>>

\* The connection is refused when its key cannot be saved.
WriteFails(c) ==
    /\ checks[c].at \in {"read", "written"}
    /\ checks' = [checks EXCEPT ![c] = Idle]
    /\ UNCHANGED <<file, accepted, raced, crashes>>

\* Truncated and not written, the file refuses every later connection.
Crash ==
    /\ crashes < MaxCrashes /\ crashes' = crashes + 1
    /\ checks' = [c \in Checks |-> Idle]
    /\ UNCHANGED <<file, accepted, raced>>

Next ==
    \/ Crash
    \/ \E c \in Checks :
        \/ \E e \in Endpoints, k \in Keys : Ask(c, e, k)
        \/ Refuse(c) \/ Known(c) \/ Enter(c) \/ Truncate(c) \/ Finish(c) \/ WriteFails(c)

Spec == Init /\ [][Next]_vars

-----------------------------------------------------------------------------
\* While no two verifications write at the same time the file remembers the key
\* that was accepted last for every endpoint, or is damaged for good; what two
\* of them write at the same time can lose an entry or damage the file.
AcceptedIsRemembered ==
    ~raced => file = Torn \/ \A e \in Endpoints : accepted[e] # NoKey => file[e] = accepted[e]

=============================================================================
