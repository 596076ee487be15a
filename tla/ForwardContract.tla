--------------------------- MODULE ForwardContract ---------------------------
(***************************************************************************)
(* What port forwarding promises about sockets, without operations, tasks  *)
(* or statuses: a rule is served only while it is enabled, with what the   *)
(* file says, by one listener at a time; a rule that is still served is    *)
(* neither edited nor deleted.                                             *)
(***************************************************************************)
CONSTANTS Rules, Configs, Malformed

VARIABLES
    saved,   \* per rule: absent, disabled or enabled
    config,  \* per rule: what it says
    serving  \* the <<rule, config>> pairs that hold sockets

Served(r) == \E c \in Configs : <<r, c>> \in serving

Init ==
    /\ saved \in [Rules -> {"absent", "disabled", "enabled"}]
    /\ config \in [Rules -> Configs]
    /\ serving = {}

\* Creating, changing or deleting a rule.
Edit(r) ==
    /\ saved[r] # "enabled" /\ ~Served(r)
    /\ \E s \in {"absent", "disabled"}, c \in Configs :
          /\ saved' = [saved EXCEPT ![r] = s]
          /\ config' = [config EXCEPT ![r] = c]
    /\ UNCHANGED serving

SetEnabled(r) ==
    /\ saved[r] # "absent"
    /\ \E s \in {"disabled", "enabled"} : saved' = [saved EXCEPT ![r] = s]
    /\ UNCHANGED <<config, serving>>

Open(r) ==
    /\ saved[r] = "enabled" /\ config[r] \notin Malformed /\ ~Served(r)
    /\ serving' = serving \cup {<<r, config[r]>>}
    /\ UNCHANGED <<saved, config>>

\* Listeners close one by one, or all at once when the program dies.
Close ==
    /\ serving' \in SUBSET serving
    /\ UNCHANGED <<saved, config>>

Next ==
    \/ \E r \in Rules : Edit(r) \/ SetEnabled(r) \/ Open(r)
    \/ Close

Spec == Init /\ [][Next]_<<saved, config, serving>>

=============================================================================
