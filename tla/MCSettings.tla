----------------------------- MODULE MCSettings -----------------------------
(***************************************************************************)
(* What the program remembers, for model checking: the theme, the reverse  *)
(* tunnels of saved sessions, the known hosts, the network configurations, *)
(* and the open workspaces in the places that list them. They share no     *)
(* state: a behaviour is of one of them, named by part, and the others     *)
(* stay in their initial states.                                           *)
(***************************************************************************)
EXTENDS Integers, Sequences, FiniteSets

CONSTANTS
  ChosenThemes, Colours, Absent, Torn, MaxCrashes,      \* of ThemeSettings
  Ops, NoOp, MaxVersion,                                \* SshTunnels
  Checks, Endpoints, Keys, NoKey,                       \* KnownHosts
  Editors, NoEditor, Configs, None, MaxEntries,         \* NetworkConfigs
  Ids, NoId, NoKind, Callers, Watches, NoWatch          \* Workspace

(* The protocols of the workspaces.                                        *)
Protocols == {"ssh", "sftp", "database"}

ASSUME ThemeAssumption == "DefaultTheme" \in ChosenThemes /\ MaxCrashes \in Nat
ASSUME TunnelsAssumption == MaxVersion \in Nat \ {0} /\ NoOp \notin Ops
ASSUME NetworksAssumption ==
  /\ MaxEntries \in Nat /\ IsFiniteSet(Configs)
  /\ NoEditor \notin Editors /\ None \notin Configs
ASSUME WorkspacesAssumption ==
  NoId \notin Ids /\ NoKind \notin Protocols /\ NoWatch \notin Watches

VARIABLES
  part,         \* the part that runs in this behaviour
  app, settings, applied, channel, unseen, edited, worker, hand, failed, themeFile,
  themeCrashes,
  profile, tunnel, listening, lock, ops, tunnelsRaced,
  hostsFile, checks, accepted, hostsRaced, hostsCrashes,
  stored, networksShown, ready, write, editor, session, form, made, confirmed,
  picked,
  used, profiles, listed, selected, runtimes, heard, watch, alive, workspacesShown,
  todo, arg

(* Two places, one of them with two credentials.                           *)
ThreeConfigs == {[place |-> 1, credentials |-> 1], [place |-> 1, credentials |-> 2],
                 [place |-> 2, credentials |-> 1]}

Theme == INSTANCE ThemeSettings WITH
  Backgrounds <- {-1} \cup Colours, file <- themeFile, crashes <- themeCrashes

Tunnels == INSTANCE SshTunnels WITH
  raced <- tunnelsRaced

Hosts == INSTANCE KnownHosts WITH
  file <- hostsFile, raced <- hostsRaced, crashes <- hostsCrashes

Networks == INSTANCE NetworkConfigs WITH
  shown <- networksShown

Workspaces == INSTANCE Workspace WITH
  Kinds <- Protocols, shown <- workspacesShown

themeState == <<app, settings, applied, channel, unseen, edited, worker, hand,
                failed, themeFile, themeCrashes>>
tunnelsState == <<profile, tunnel, listening, lock, ops, tunnelsRaced>>
hostsState == <<hostsFile, checks, accepted, hostsRaced, hostsCrashes>>
networksState == <<stored, networksShown, ready, write, editor, session, form, made,
                   confirmed, picked>>
workspacesState == <<used, profiles, listed, selected, runtimes, heard, watch,
                     alive, workspacesShown, todo, arg>>

-----------------------------------------------------------------------------
Init ==
  /\ part \in {"theme", "tunnels", "hosts", "networks", "workspaces"}
  /\ Theme!Init
  /\ (part # "theme" => themeFile = Absent)
  /\ Tunnels!Init
  /\ Hosts!Init
  /\ Networks!Init
  /\ (part # "networks" => session = None)
  /\ Workspaces!Init

ThemeSteps ==
  /\ part = "theme" /\ Theme!Next
  /\ UNCHANGED <<part, tunnelsState, hostsState, networksState, workspacesState>>

TunnelsSteps ==
  /\ part = "tunnels" /\ Tunnels!Next
  /\ UNCHANGED <<part, themeState, hostsState, networksState, workspacesState>>

HostsSteps ==
  /\ part = "hosts" /\ Hosts!Next
  /\ UNCHANGED <<part, themeState, tunnelsState, networksState, workspacesState>>

NetworksSteps ==
  /\ part = "networks" /\ Networks!Next
  /\ UNCHANGED <<part, themeState, tunnelsState, hostsState, workspacesState>>

WorkspacesSteps ==
  /\ part = "workspaces" /\ Workspaces!Next
  /\ UNCHANGED <<part, themeState, tunnelsState, hostsState, networksState>>

Next == ThemeSteps \/ TunnelsSteps \/ HostsSteps \/ NetworksSteps \/ WorkspacesSteps

all == <<part, themeState, tunnelsState, hostsState, networksState, workspacesState>>

Spec == Init /\ [][Next]_all

-----------------------------------------------------------------------------
(* The profiles, the list and the runtimes of the workspaces agree when    *)
(* nothing is on its way between them, and so do the events that tell of   *)
(* them (session/core.rs).                                                 *)
PlacesAgree == part = "workspaces" =>
  Workspaces!TypeOK /\ Workspaces!PlacesAgree /\ Workspaces!EventsAgree

(* A watch that runs belongs to a workspace, and one that is listed runs   *)
(* (sftp/core/service/directory.rs).                                       *)
WatchesOwned == part = "workspaces" => Workspaces!WatchesOwned

(* What was chosen last is what is kept: the newest theme is what is saved *)
(* and shown after a restart (theme/external.rs), a network configuration  *)
(* whose save was reported is stored and shown, and a session keeps the    *)
(* one chosen for it in its form (application/network_config, the settings *)
(* session windows).  A server whose key was accepted is known by that key *)
(* as long as no two checks write at a time, also after a crash, or the    *)
(* file is damaged for good (storage/known_hosts.rs).                      *)
NewestIsKept ==
  /\ part = "theme" => Theme!TypeOK /\ Theme!NewestSaved /\ Theme!ShownAsAfterRestart
  /\ part = "networks" => Networks!TypeOK /\ Networks!SavesAgree /\ Networks!SessionKeepsItsChoice
  /\ part = "hosts" => Hosts!TypeOK /\ Hosts!AcceptedIsRemembered

(* No port stays forwarded at a remote host for a tunnel that nothing      *)
(* holds, and the tunnel of a profile is of its last version unless it was *)
(* being opened during the edit (application/ssh, session/core.rs).        *)
TunnelsFollowProfiles == part = "tunnels" =>
  Tunnels!TypeOK /\ Tunnels!NoOrphanSession /\ Tunnels!TunnelFollowsProfile

(* The proxy variables a workspace is opened with name the port of a       *)
(* tunnel that is there, and configurations get one name only in a         *)
(* migration (session/core.rs, network_config/core.rs).                    *)
StepsMeanWhatTheySay == Tunnels!ExportsWork /\ Networks!ClashesAreMigrated
=============================================================================
