--------------------------- MODULE SettingsProofs ---------------------------
(***************************************************************************)
(* That the program remembers what it should, for any number of            *)
(* operations, versions, hosts, editors, configurations and workspaces:    *)
(* the invariants of MCSettings, and what its steps may never do.          *)
(*                                                                         *)
(* An invariant of a part is proved from the steps of that part and        *)
(* carried to the specification by PartSteps.                              *)
(***************************************************************************)
EXTENDS MCSettings, FiniteSetTheorems, SequenceTheorems, TLAPS

-----------------------------------------------------------------------------
(* The parts: a step of the whole is a step of one, and the others stutter *)

LEMMA PartSteps == [Next]_all => /\ [Theme!Next]_themeState
                                 /\ [Tunnels!Next]_tunnelsState
                                 /\ [Hosts!Next]_hostsState
                                 /\ [Networks!Next]_networksState
                                 /\ [Workspaces!Next]_workspacesState
BY DEF Next, all, ThemeSteps, TunnelsSteps, HostsSteps, NetworksSteps, WorkspacesSteps

-----------------------------------------------------------------------------
(* SshTunnels                                                              *)

\* Whoever connects holds the mutex, has read a profile and found no tunnel.
ConnectingAlone ==
  \A o \in Ops : /\ ops[o].at = "connect" => lock = o /\ tunnel = 0
                 /\ ops[o].at \in {"openLock", "connect"} => ops[o].version # 0

\* The tunnel of an edited profile was closed before the edit, and has not come
\* back unless an opening overlapped it.
ClosedForEdit == (\E o \in Ops : Tunnels!Editing(o)) => tunnel = 0 \/ tunnelsRaced
WritesEdit == \A o \in Ops : ops[o].at = "write" => ops[o].edit # "no"

TunnelsInv == /\ Tunnels!TypeOK /\ ConnectingAlone /\ ClosedForEdit /\ WritesEdit
              /\ Tunnels!NoOrphanSession /\ Tunnels!TunnelFollowsProfile

LEMMA InitTunnels == Tunnels!Init => TunnelsInv
<1>1. {0, 1} \subseteq 0..MaxVersion
  BY TunnelsAssumption
<1>2. Tunnels!Init => Tunnels!TypeOK
  <2>1. Tunnels!Init => ops \in [Ops -> [at : {"idle"}, edit : {"no"}, version : {0}]]
    BY DEF Tunnels!Init, Tunnels!Idle
  <2> QED
    BY <1>1, <2>1 DEF Tunnels!Init, Tunnels!TypeOK
<1> QED
  BY <1>2 DEF Tunnels!Init, Tunnels!Idle, TunnelsInv, ConnectingAlone,
      ClosedForEdit, WritesEdit, Tunnels!Editing, Tunnels!NoOrphanSession,
      Tunnels!TunnelFollowsProfile

LEMMA TunnelsTypes ==
  ASSUME TunnelsInv, Tunnels!Next
  PROVE  Tunnels!TypeOK'
<1>0. 0 \in 0..MaxVersion /\ \A v \in 0..MaxVersion : v # 0 => v \in Tunnels!Versions
  BY TunnelsAssumption DEF Tunnels!Versions
<1> USE <1>0 DEF TunnelsInv, Tunnels!TypeOK, Tunnels!Step, Tunnels!Becomes, Tunnels!Ends,
                 Tunnels!Idle
<1>1. ASSUME NEW o \in Ops, Tunnels!Open(o) \/ Tunnels!AlreadyOpen(o) \/ Tunnels!StartConnect(o)
                            \/ Tunnels!ConnectFails(o)
      PROVE  Tunnels!TypeOK'
  <2>1. CASE Tunnels!Open(o)
    BY <2>1 DEF Tunnels!Open
  <2>2. CASE Tunnels!AlreadyOpen(o) \/ Tunnels!StartConnect(o)
    BY <2>2 DEF Tunnels!AlreadyOpen, Tunnels!StartConnect
  <2>3. CASE Tunnels!ConnectFails(o)
    BY <2>3 DEF Tunnels!ConnectFails
  <2> QED
    BY <1>1, <2>1, <2>2, <2>3
<1>2. ASSUME NEW o \in Ops, Tunnels!Connected(o)
      PROVE  Tunnels!TypeOK'
  <2>1. ops[o].version \in Tunnels!Versions
    BY <1>2 DEF Tunnels!Connected, ConnectingAlone
  <2>2. tunnelsRaced' \in BOOLEAN
    BY <1>2 DEF Tunnels!Connected
  <2> QED
    BY <1>2, <2>1, <2>2 DEF Tunnels!Connected
<1>3. ASSUME NEW o \in Ops, Tunnels!FindWorkspace(o) \/ Tunnels!OpenWorkspace(o)
                            \/ Tunnels!WorkspaceEnds(o)
      PROVE  Tunnels!TypeOK'
  <2>1. CASE Tunnels!FindWorkspace(o)
    BY <2>1 DEF Tunnels!FindWorkspace
  <2>2. CASE Tunnels!OpenWorkspace(o)
    BY <2>2 DEF Tunnels!OpenWorkspace
  <2>3. CASE Tunnels!WorkspaceEnds(o)
    BY <2>3 DEF Tunnels!WorkspaceEnds
  <2> QED
    BY <1>3, <2>1, <2>2, <2>3
<1>4. ASSUME NEW o \in Ops, NEW edit \in {"no", "update", "delete"}, Tunnels!Close(o, edit)
      PROVE  Tunnels!TypeOK'
  BY <1>4 DEF Tunnels!Close
<1>5. ASSUME NEW o \in Ops, Tunnels!TakeSession(o) \/ Tunnels!Disconnect(o) \/ Tunnels!WriteFails(o)
      PROVE  Tunnels!TypeOK'
  <2>1. CASE Tunnels!TakeSession(o)
    BY <2>1 DEF Tunnels!TakeSession
  <2>2. CASE Tunnels!Disconnect(o)
    BY <2>2 DEF Tunnels!Disconnect
  <2>3. CASE Tunnels!WriteFails(o)
    BY <2>3 DEF Tunnels!WriteFails
  <2> QED
    BY <1>5, <2>1, <2>2, <2>3
<1>6. ASSUME NEW o \in Ops, Tunnels!Write(o)
      PROVE  Tunnels!TypeOK'
  <2>1. profile' \in 0..MaxVersion
    <3>1. ops[o].edit \in {"no", "update", "delete"} /\ ops[o].edit # "no"
      BY <1>6 DEF Tunnels!Write, WritesEdit
    <3>2. ops[o].edit = "update" => Tunnels!Newest \in 0..MaxVersion
      BY <1>6, TunnelsAssumption DEF Tunnels!Write, Tunnels!Newest
    <3> QED
      BY <1>6, <3>1, <3>2 DEF Tunnels!Write
  <2> QED
    BY <1>6, <2>1 DEF Tunnels!Write
<1>7. CASE Tunnels!SessionDies
  BY <1>7 DEF Tunnels!SessionDies
<1> QED
  BY <1>1, <1>2, <1>3, <1>4, <1>5, <1>6, <1>7 DEF Tunnels!Next

LEMMA NextTunnels ==
  ASSUME TunnelsInv, [Tunnels!Next]_tunnelsState
  PROVE  TunnelsInv'
<1> USE DEF ConnectingAlone, ClosedForEdit, WritesEdit, Tunnels!Editing,
            Tunnels!NoOrphanSession, Tunnels!TunnelFollowsProfile
<1>1. CASE UNCHANGED tunnelsState
  BY <1>1 DEF tunnelsState, TunnelsInv, Tunnels!TypeOK, Tunnels!Versions
<1>2. CASE Tunnels!Next
  <2>0. Tunnels!TypeOK'
    BY <1>2, TunnelsTypes
  <2> SUFFICES ConnectingAlone' /\ ClosedForEdit' /\ WritesEdit' /\ Tunnels!NoOrphanSession'
               /\ Tunnels!TunnelFollowsProfile'
    BY <2>0 DEF TunnelsInv
  <2> USE TunnelsAssumption DEF TunnelsInv, Tunnels!TypeOK, Tunnels!Step, Tunnels!Becomes,
                                Tunnels!Ends, Tunnels!Idle
  <2> DEFINE Kept == ConnectingAlone' /\ ClosedForEdit' /\ WritesEdit' /\ Tunnels!NoOrphanSession'
                     /\ Tunnels!TunnelFollowsProfile'
  <2>1. ASSUME NEW o \in Ops, Tunnels!Open(o) \/ Tunnels!AlreadyOpen(o)
                              \/ Tunnels!StartConnect(o) \/ Tunnels!ConnectFails(o)
        PROVE  Kept
    <3>1. CASE Tunnels!Open(o)
      BY <3>1 DEF Tunnels!Open
    <3>2. CASE Tunnels!AlreadyOpen(o)
      BY <3>2 DEF Tunnels!AlreadyOpen
    <3>3. CASE Tunnels!StartConnect(o)
      BY <3>3 DEF Tunnels!StartConnect
    <3>4. CASE Tunnels!ConnectFails(o)
      BY <3>4 DEF Tunnels!ConnectFails
    <3> QED
      BY <2>1, <3>1, <3>2, <3>3, <3>4
  <2>2. ASSUME NEW o \in Ops, Tunnels!Connected(o)
        PROVE  Kept
    <3>1. /\ ops[o].at = "connect" /\ lock = o /\ tunnel = 0
          /\ tunnel' = ops[o].version /\ listening' = listening \cup {ops[o].version}
          /\ profile' = profile /\ lock' = NoOp
          /\ tunnelsRaced' = (tunnelsRaced \/ profile # ops[o].version
                                \/ \E u \in Ops : Tunnels!Editing(u))
      BY <2>2 DEF Tunnels!Connected
    <3>2. /\ ops'[o].at = "workspace" /\ ops'[o].edit = ops[o].edit
          /\ \A u \in Ops \ {o} : ops'[u] = ops[u]
      BY <2>2 DEF Tunnels!Connected
    <3>3. ConnectingAlone' /\ WritesEdit'
      BY <3>1, <3>2
    <3>4. ASSUME ~tunnelsRaced'
          PROVE  profile = ops[o].version /\ ~\E u \in Ops : Tunnels!Editing(u)
      BY <3>1, <3>4
    <3>5. \A u \in Ops : Tunnels!Editing(u)' => Tunnels!Editing(u)
      BY <3>1, <3>2
    <3>6. ClosedForEdit' /\ Tunnels!TunnelFollowsProfile'
      BY <3>1, <3>4, <3>5
    <3>7. \A v \in listening : \E u \in Ops \ {o} : ops[u].at = "disconnect" /\ ops[u].version = v
      BY <3>1 DEF Tunnels!Versions
    <3>8. Tunnels!NoOrphanSession'
      BY <3>1, <3>2, <3>7
    <3> QED
      BY <3>3, <3>6, <3>8
  <2>3. ASSUME NEW o \in Ops, Tunnels!FindWorkspace(o) \/ Tunnels!OpenWorkspace(o)
                              \/ Tunnels!WorkspaceEnds(o)
        PROVE  Kept
    <3>1. CASE Tunnels!FindWorkspace(o)
      BY <3>1 DEF Tunnels!FindWorkspace
    <3>2. CASE Tunnels!OpenWorkspace(o)
      BY <3>2 DEF Tunnels!OpenWorkspace
    <3>3. CASE Tunnels!WorkspaceEnds(o)
      BY <3>3 DEF Tunnels!WorkspaceEnds
    <3> QED
      BY <2>3, <3>1, <3>2, <3>3
  <2>4. ASSUME NEW o \in Ops, NEW edit \in {"no", "update", "delete"}, Tunnels!Close(o, edit)
        PROVE  Kept
    BY <2>4 DEF Tunnels!Close
  <2>5. ASSUME NEW o \in Ops, Tunnels!TakeSession(o)
        PROVE  Kept
    BY <2>5 DEF Tunnels!TakeSession
  <2>6. ASSUME NEW o \in Ops, Tunnels!Disconnect(o)
        PROVE  Kept
    BY <2>6 DEF Tunnels!Disconnect
  <2>7. ASSUME NEW o \in Ops, Tunnels!Write(o) \/ Tunnels!WriteFails(o)
        PROVE  Kept
    BY <2>7 DEF Tunnels!Write, Tunnels!WriteFails, Tunnels!Newest
  <2>8. CASE Tunnels!SessionDies
    BY <2>8 DEF Tunnels!SessionDies
  <2> QED
    BY <1>2, <2>1, <2>2, <2>3, <2>4, <2>5, <2>6, <2>7, <2>8 DEF Tunnels!Next
<1> QED
  BY <1>1, <1>2

LEMMA TunnelsHolds == Spec => []TunnelsInv
<1>1. Init => TunnelsInv
  BY InitTunnels DEF Init
<1>2. TunnelsInv /\ [Next]_all => TunnelsInv'
  BY NextTunnels, PartSteps
<1> QED
  BY <1>1, <1>2, PTL DEF Spec

\* No port stays forwarded at a remote host for a tunnel that nothing holds, and a
\* tunnel is of the last version of its profile unless it was being opened during
\* the edit: for any number of operations at the same time.
THEOREM TunnelsAreOwned == Spec => []TunnelsFollowProfiles
<1>1. TunnelsInv => TunnelsFollowProfiles
  BY DEF TunnelsInv, TunnelsFollowProfiles
<1> QED
  BY <1>1, TunnelsHolds, PTL

-----------------------------------------------------------------------------
(* NetworkConfigs                                                          *)

\* Whoever writes holds the mutex, for the entry it was asked to save, and what it
\* writes is the list that is shown with that entry changed.
Writing(e) == editor[e].at \in {"persist", "publish"}
WritersAlone ==
  /\ \A e \in Editors : Writing(e) => write = e
  /\ \A e \in Editors : editor[e].at = "wait" \/ Writing(e) => editor[e].id # 0
  /\ write = NoEditor \/ \E e \in Editors : Writing(e)
  /\ ~ready => \A e \in Editors : editor[e].at = "list"
WritesTheShown ==
  \A e \in Editors : Writing(e) => editor[e].base = Networks!Changed(e) /\ ~Networks!Clashes(e)

\* A save that was reported is shown; it is stored before it is reported.
ConfirmedIsKept ==
  /\ ready => networksShown = confirmed
  /\ ready /\ (\A e \in Editors : editor[e].at # "publish") => stored = confirmed
  /\ ~ready => stored \in {Absent, confirmed}
  /\ \A e \in Editors : editor[e].at = "publish" => stored = editor[e].base

NetworksInv == /\ Networks!TypeOK /\ WritersAlone /\ WritesTheShown /\ ConfirmedIsKept
               /\ Networks!SessionKeepsItsChoice

LEMMA InitNetworks == Networks!Init => NetworksInv
<1> SUFFICES ASSUME Networks!Init PROVE NetworksInv
  OBVIOUS
<1>0. 0 \in 0..MaxEntries
  BY NetworksAssumption
<1>1. editor \in [Editors -> [at : {"list"}, id : {0}, draft : {None}, base : {{}}]]
  BY DEF Networks!Init, Networks!Closed
<1>2. Networks!TypeOK
  BY <1>0, <1>1 DEF Networks!Init, Networks!TypeOK, Networks!NoForm
<1>3. WritersAlone /\ WritesTheShown /\ ConfirmedIsKept
  BY <1>1 DEF Networks!Init, WritersAlone, WritesTheShown, ConfirmedIsKept, Writing
<1> QED
  BY <1>2, <1>3 DEF NetworksInv, Networks!Init, Networks!SessionKeepsItsChoice, Networks!NoForm

\* The entries a save is about are entries.
LEMMA ChangedEntries ==
  ASSUME NetworksInv, NEW e \in Editors, editor[e].at = "wait"
  PROVE  Networks!Changed(e) \subseteq Networks!Entries
<1>1. /\ editor[e].id \in 0..MaxEntries /\ editor[e].id # 0
      /\ editor[e].draft \in Configs \cup {None}
  BY DEF NetworksInv, Networks!TypeOK, WritersAlone
<1>2. editor[e].id \in 1..MaxEntries
  BY <1>1, NetworksAssumption
<1>3. networksShown \subseteq Networks!Entries
  BY DEF NetworksInv, Networks!TypeOK
<1> QED
  BY <1>1, <1>2, <1>3 DEF Networks!Changed, Networks!Others, Networks!Entries, Networks!EntryIds

\* The library's facts are about the one, the module instantiates the other.
LEMMA SameCardinality == ASSUME NEW S PROVE Networks!Cardinality(S) = Cardinality(S)
BY DEF Networks!Cardinality, Cardinality

LEMMA MigratedCount ==
  ASSUME NEW profiles1 \in SUBSET Configs, Networks!Migrate(profiles1)
  PROVE  made' \in 0..MaxEntries
<1>1. Cardinality(profiles1) \in Nat
  BY NetworksAssumption, FS_Subset, FS_CardinalityType
<1>2. made' = Cardinality(profiles1) /\ Cardinality(profiles1) <= MaxEntries
  BY SameCardinality DEF Networks!Migrate
<1> QED
  BY <1>1, <1>2, NetworksAssumption

LEMMA NetworksTypes ==
  ASSUME NetworksInv, Networks!Next
  PROVE  Networks!TypeOK'
<1>0. /\ 0 \in 0..MaxEntries /\ made \in 0..MaxEntries
      /\ made < MaxEntries => made + 1 \in 0..MaxEntries
  BY NetworksAssumption DEF NetworksInv, Networks!TypeOK
<1>1. Networks!TypeOK
  BY DEF NetworksInv
<1> DEFINE Editors1 == [at : {"list", "edit", "wait", "persist", "publish"}, id : 0..MaxEntries,
                        draft : Configs \cup {None}, base : SUBSET Networks!Entries]
<1>2. editor \in [Editors -> Editors1] /\ Networks!Closed \in Editors1
  BY <1>0, <1>1 DEF Networks!TypeOK, Networks!Closed
<1>3. ASSUME NEW e \in Editors, NEW r \in Editors1, Networks!Editing(e, r)
      PROVE  editor' \in [Editors -> Editors1]
  BY <1>2, <1>3 DEF Networks!Editing
<1>4. CASE Networks!Initialize
  <2>1. made' \in 0..MaxEntries /\ (stored' = Absent \/ stored' \subseteq Networks!Entries)
        /\ networksShown' \subseteq Networks!Entries /\ confirmed' \subseteq Networks!Entries
    <3>1. CASE stored = Absent
      <4>1. PICK others \in SUBSET Configs : Networks!Migrate(others \cup ({session} \ {None}))
        BY <1>4, <3>1 DEF Networks!Initialize
      <4>2. others \cup ({session} \ {None}) \in SUBSET Configs
        BY <1>1 DEF Networks!TypeOK
      <4> QED
        BY <4>1, <4>2, MigratedCount DEF Networks!Migrate
    <3>2. CASE stored # Absent
      BY <1>1, <1>4, <3>2 DEF Networks!Initialize, Networks!TypeOK
    <3> QED
      BY <3>1, <3>2
  <2> QED
    BY <1>1, <1>4, <2>1 DEF Networks!Initialize, Networks!TypeOK
<1>5. CASE Networks!Restart
  BY <1>1, <1>2, <1>5 DEF Networks!Restart, Networks!TypeOK, Networks!NoForm
<1>6. ASSUME NEW e \in Editors, Networks!Edit(e) \/ Networks!CancelEdit(e) \/ Networks!Delete(e)
      PROVE  Networks!TypeOK'
  <2>1. \A entry \in networksShown : entry.id \in 0..MaxEntries /\ entry.config \in Configs
    BY <1>1, NetworksAssumption DEF Networks!TypeOK, Networks!Entries, Networks!EntryIds
  <2>2. editor' \in [Editors -> Editors1]
    <3>1. CASE Networks!Edit(e)
      <4>1. \A entry \in networksShown :
               [Networks!Closed EXCEPT !.at = "edit", !.id = entry.id, !.draft = entry.config]
                  \in Editors1
        BY <1>2, <2>1 DEF Networks!Closed
      <4>2. [Networks!Closed EXCEPT !.at = "edit"] \in Editors1
        BY <1>2 DEF Networks!Closed
      <4> QED
        BY <1>3, <3>1, <4>1, <4>2 DEF Networks!Edit
    <3>2. CASE Networks!CancelEdit(e)
      BY <1>2, <1>3, <3>2 DEF Networks!CancelEdit
    <3>3. CASE Networks!Delete(e)
      <4>1. \A entry \in networksShown :
               [Networks!Closed EXCEPT !.at = "wait", !.id = entry.id] \in Editors1
        BY <1>2, <2>1 DEF Networks!Closed
      <4> QED
        BY <1>3, <3>3, <4>1 DEF Networks!Delete
    <3> QED
      BY <1>6, <3>1, <3>2, <3>3
  <2> QED
    BY <1>1, <1>6, <2>2 DEF Networks!Edit, Networks!CancelEdit, Networks!Delete, Networks!TypeOK
<1>7. ASSUME NEW e \in Editors, NEW config \in Configs, Networks!Save(e, config)
      PROVE  Networks!TypeOK'
  <2>1. editor[e].id \in 0..MaxEntries
    BY <1>2
  <2>2. editor' \in [Editors -> Editors1]
    <3>1. [Networks!Closed EXCEPT !.at = "wait", !.draft = config,
               !.id = IF editor[e].id = 0 THEN made + 1 ELSE editor[e].id] \in Editors1
      BY <1>0, <1>2, <1>7, <2>1 DEF Networks!Closed, Networks!Save
    <3> QED
      BY <1>3, <1>7, <3>1 DEF Networks!Save
  <2>3. made' \in 0..MaxEntries
    BY <1>0, <1>7 DEF Networks!Save
  <2> QED
    BY <1>1, <1>7, <2>2, <2>3 DEF Networks!Save, Networks!TypeOK
<1>8. ASSUME NEW e \in Editors, Networks!Begin(e) \/ Networks!Fails(e) \/ Networks!Persist(e)
                                \/ Networks!Publish(e)
      PROVE  Networks!TypeOK'
  <2>1. editor[e] \in Editors1 /\ (editor[e].at = "wait"
          => Networks!Changed(e) \subseteq Networks!Entries)
    BY <1>2, ChangedEntries
  <2>2. CASE Networks!Begin(e)
    <3>1. [editor[e] EXCEPT !.at = "persist", !.base = Networks!Changed(e)] \in Editors1
      BY <2>1, <2>2 DEF Networks!Begin
    <3>2. editor' \in [Editors -> Editors1]
      BY <1>3, <2>2, <3>1 DEF Networks!Begin
    <3> QED
      BY <1>1, <2>2, <3>2 DEF Networks!Begin, Networks!TypeOK
  <2>3. CASE Networks!Fails(e)
    <3>1. [editor[e] EXCEPT !.at = "edit", !.base = {}] \in Editors1
      BY <2>1
    <3>2. editor' \in [Editors -> Editors1]
      BY <1>2, <1>3, <2>3, <3>1 DEF Networks!Fails
    <3> QED
      BY <1>1, <2>3, <3>2 DEF Networks!Fails, Networks!TypeOK
  <2>4. CASE Networks!Persist(e)
    <3>1. [editor[e] EXCEPT !.at = "publish"] \in Editors1
      BY <2>1
    <3>2. editor' \in [Editors -> Editors1]
      BY <1>3, <2>4, <3>1 DEF Networks!Persist
    <3> QED
      BY <1>1, <2>1, <2>4, <3>2 DEF Networks!Persist, Networks!TypeOK
  <2>5. CASE Networks!Publish(e)
    <3>1. editor' \in [Editors -> Editors1]
      BY <1>2, <1>3, <2>5 DEF Networks!Publish
    <3> QED
      BY <1>1, <2>1, <2>5, <3>1 DEF Networks!Publish, Networks!TypeOK
  <2> QED
    BY <1>8, <2>2, <2>3, <2>4, <2>5
<1>9. ASSUME Networks!OpenForm \/ Networks!SyncNetworkChoices \/ Networks!Submit
             \/ Networks!CancelForm
             \/ \E config \in Configs \cup {None} : Networks!Pick(config)
      PROVE  Networks!TypeOK'
  <2>1. Networks!Offered \subseteq Configs \cup {None}
    BY <1>1 DEF Networks!Offered, Networks!TypeOK, Networks!Entries
  <2>2. CASE Networks!OpenForm
    BY <1>1, <2>1, <2>2 DEF Networks!OpenForm, Networks!Select, Networks!Kept, Networks!TypeOK
  <2>3. CASE Networks!SyncNetworkChoices
    BY <1>1, <2>1, <2>3 DEF Networks!SyncNetworkChoices, Networks!Select, Networks!Kept,
                            Networks!TypeOK
  <2>4. CASE Networks!Submit \/ Networks!CancelForm
    <3>1. form.selected \in Configs \cup {None}
      BY <1>1 DEF Networks!TypeOK
    <3>2. form' = Networks!NoForm /\ {session', picked'} \subseteq Configs \cup {None}
      BY <1>1, <2>4, <3>1 DEF Networks!Submit, Networks!CancelForm, Networks!TypeOK
    <3> QED
      BY <1>1, <2>4, <3>2 DEF Networks!Submit, Networks!CancelForm, Networks!NoForm, Networks!TypeOK
  <2>5. ASSUME NEW config \in Configs \cup {None}, Networks!Pick(config)
        PROVE  Networks!TypeOK'
    BY <1>1, <2>5 DEF Networks!Pick, Networks!TypeOK
  <2> QED
    BY <1>9, <2>2, <2>3, <2>4, <2>5
<1> QED
  BY <1>4, <1>5, <1>6, <1>7, <1>8, <1>9 DEF Networks!Next

\* What a save would store depends on the list, and on the entry and its draft.
LEMMA SameChange ==
  ASSUME NEW e \in Editors, networksShown' = networksShown,
         editor'[e].id = editor[e].id, editor'[e].draft = editor[e].draft
  PROVE  /\ Networks!Changed(e)' = Networks!Changed(e)
         /\ Networks!Clashes(e)' <=> Networks!Clashes(e)
BY DEF Networks!Changed, Networks!Clashes, Networks!Others

LEMMA NextNetworks ==
  ASSUME NetworksInv, [Networks!Next]_networksState
  PROVE  NetworksInv'
<1>1. CASE UNCHANGED networksState
  <2>1. Networks!TypeOK'
    BY <1>1 DEF networksState, NetworksInv, Networks!TypeOK
  <2>2. WritersAlone' /\ ConfirmedIsKept' /\ Networks!SessionKeepsItsChoice'
    BY <1>1 DEF networksState, NetworksInv, WritersAlone, ConfirmedIsKept, Writing,
                Networks!SessionKeepsItsChoice
  <2>3. WritesTheShown'
    BY <1>1 DEF networksState, NetworksInv, WritesTheShown, Writing, Networks!Changed,
                Networks!Others, Networks!Clashes
  <2> QED
    BY <2>1, <2>2, <2>3 DEF NetworksInv
<1>2. CASE Networks!Next
  <2>0. Networks!TypeOK'
    BY <1>2, NetworksTypes
  <2> SUFFICES WritersAlone' /\ WritesTheShown' /\ ConfirmedIsKept'
               /\ Networks!SessionKeepsItsChoice'
    BY <2>0 DEF NetworksInv
  <2> DEFINE Kept == WritersAlone' /\ WritesTheShown' /\ ConfirmedIsKept'
                     /\ Networks!SessionKeepsItsChoice'
  <2>00. /\ NetworksInv /\ Networks!TypeOK /\ WritersAlone /\ WritesTheShown /\ ConfirmedIsKept
         /\ Networks!SessionKeepsItsChoice /\ NoEditor \notin Editors /\ None \notin Configs
    BY NetworksAssumption DEF NetworksInv
  <2>1. CASE Networks!Initialize
    <3>1. WritersAlone' /\ Networks!SessionKeepsItsChoice'
      BY <2>00, <2>1 DEF Networks!Initialize, WritersAlone, Writing, Networks!SessionKeepsItsChoice
    <3>2. WritesTheShown'
      BY <2>00, <2>1 DEF Networks!Initialize, WritersAlone, WritesTheShown, Writing
    <3>3. stored' = networksShown' /\ networksShown' = confirmed' /\ ready'
      <4>1. CASE stored = Absent
        BY <2>1, <4>1 DEF Networks!Initialize, Networks!Migrate
      <4>2. CASE stored # Absent
        BY <2>00, <2>1, <4>2 DEF Networks!Initialize, ConfirmedIsKept
      <4> QED
        BY <4>1, <4>2
    <3>4. ConfirmedIsKept'
      BY <2>00, <2>1, <3>3 DEF Networks!Initialize, ConfirmedIsKept, WritersAlone
    <3> QED
      BY <3>1, <3>2, <3>4
  <2>2. CASE Networks!Restart
    <3>1. \A e \in Editors : editor'[e].at = "list"
      BY <2>2 DEF Networks!Restart, Networks!Closed
    <3>2. \A e \in Editors : ~Writing(e)
      BY <2>00, <2>2 DEF Networks!Restart, WritersAlone
    <3>3. WritersAlone' /\ WritesTheShown'
      BY <2>2, <3>1 DEF Networks!Restart, WritersAlone, WritesTheShown, Writing
    <3>4. ConfirmedIsKept'
      BY <2>00, <2>2, <3>1, <3>2 DEF Networks!Restart, ConfirmedIsKept, Writing
    <3> QED
      BY <2>2, <3>3, <3>4 DEF Networks!Restart, Networks!SessionKeepsItsChoice, Networks!NoForm
  \* An editor that writes before and after a step that is not its own.
  <2>3. ASSUME NEW e \in Editors, NEW r, Networks!Editing(e, r)
        PROVE  editor'[e] = r /\ \A f \in Editors \ {e} : editor'[f] = editor[f]
    BY <2>00, <2>3 DEF Networks!Editing, Networks!TypeOK
  <2>4. ASSUME NEW e \in Editors,
               \/ Networks!Edit(e) \/ Networks!CancelEdit(e) \/ Networks!Delete(e)
               \/ \E config \in Configs : Networks!Save(e, config)
        PROVE  Kept
    <3>1. /\ ~Writing(e) /\ ~Writing(e)' /\ ready
          /\ \A f \in Editors \ {e} : editor'[f] = editor[f]
          /\ editor'[e].at = "wait" => editor'[e].id # 0
      <4>1. PICK r : /\ Networks!Editing(e, r) /\ r.at \in {"list", "edit", "wait"}
                     /\ r.at = "wait" => r.id # 0
                     /\ editor[e].at \in {"list", "edit"} /\ ready
        <5>1. CASE Networks!Edit(e)
          BY <5>1 DEF Networks!Edit, Networks!Closed
        <5>2. CASE Networks!CancelEdit(e)
          BY <2>00, <5>2 DEF Networks!CancelEdit, Networks!Closed, WritersAlone
        <5>3. ASSUME NEW config \in Configs, Networks!Save(e, config)
              PROVE  \E r : /\ Networks!Editing(e, r) /\ r.at \in {"list", "edit", "wait"}
                            /\ r.at = "wait" => r.id # 0
                            /\ editor[e].at \in {"list", "edit"} /\ ready
          <6>1. made + 1 # 0
            BY <2>00, NetworksAssumption DEF Networks!TypeOK
          <6> QED
            BY <2>00, <5>3, <6>1 DEF Networks!Save, Networks!Closed, WritersAlone
        <5>4. CASE Networks!Delete(e)
          <6>1. \A entry \in networksShown : entry.id # 0
            BY <2>00, NetworksAssumption DEF Networks!TypeOK, Networks!Entries, Networks!EntryIds
          <6> QED
            BY <5>4, <6>1 DEF Networks!Delete, Networks!Closed
        <5> QED
          BY <2>4, <5>1, <5>2, <5>3, <5>4
      <4>2. editor'[e] = r /\ \A f \in Editors \ {e} : editor'[f] = editor[f]
        BY <2>3, <4>1
      <4> QED
        BY <4>1, <4>2 DEF Writing
    <3>2. UNCHANGED <<stored, networksShown, ready, write, session, form, confirmed, picked>>
      BY <2>4 DEF Networks!Edit, Networks!CancelEdit, Networks!Save, Networks!Delete
    <3>3. WritersAlone'
      BY <2>00, <3>1, <3>2 DEF WritersAlone, Writing
    <3>4. WritesTheShown'
      BY <2>00, <3>1, <3>2, SameChange DEF WritesTheShown, Writing
    <3>5. ConfirmedIsKept'
      BY <2>00, <3>1, <3>2 DEF ConfirmedIsKept, Writing
    <3> QED
      BY <2>00, <3>2, <3>3, <3>4, <3>5 DEF Networks!SessionKeepsItsChoice
  <2>5. ASSUME NEW e \in Editors, Networks!Begin(e)
        PROVE  Kept
    <3>1. /\ editor'[e] = [editor[e] EXCEPT !.at = "persist", !.base = Networks!Changed(e)]
          /\ \A f \in Editors \ {e} : editor'[f] = editor[f]
      BY <2>3, <2>5 DEF Networks!Begin
    <3>2. /\ editor[e].at = "wait" /\ write = NoEditor /\ write' = e /\ ~Networks!Clashes(e)
          /\ UNCHANGED <<stored, networksShown, ready, session, form, confirmed, picked>>
      BY <2>5 DEF Networks!Begin
    <3>3. /\ editor'[e].at = "persist" /\ editor'[e].base = Networks!Changed(e)
          /\ editor'[e].id = editor[e].id /\ editor'[e].draft = editor[e].draft
      BY <2>00, <3>1 DEF Networks!TypeOK
    <3>4. \A f \in Editors \ {e} : ~Writing(f) /\ ~Writing(f)'
      BY <2>00, <3>1, <3>2 DEF WritersAlone, Writing
    <3>5. WritersAlone'
      <4>1. write' = e /\ Writing(e)' /\ editor'[e].id # 0 /\ ready'
        BY <2>00, <3>1, <3>2, <3>3 DEF WritersAlone, Writing
      <4>2. \A f \in Editors \ {e} : editor'[f].at = "wait" => editor'[f].id # 0
        BY <2>00, <3>1 DEF WritersAlone
      <4> QED
        BY <3>4, <4>1, <4>2 DEF WritersAlone
    <3>6. WritesTheShown'
      BY <2>00, <3>1, <3>2, <3>3, <3>4, SameChange DEF WritesTheShown
    <3>7. ConfirmedIsKept'
      BY <2>00, <3>1, <3>2, <3>3, <3>4 DEF ConfirmedIsKept, Writing
    <3> QED
      BY <2>00, <3>2, <3>5, <3>6, <3>7 DEF Networks!SessionKeepsItsChoice
  <2>6. ASSUME NEW e \in Editors, Networks!Fails(e)
        PROVE  Kept
    <3>1. /\ editor[e].at \in {"wait", "persist"} /\ editor'[e].at \in {"list", "edit"}
          /\ \A f \in Editors \ {e} : editor'[f] = editor[f]
      <4>1. PICK r : /\ Networks!Editing(e, r) /\ r.at \in {"list", "edit"}
                     /\ editor[e].at \in {"wait", "persist"}
        BY <2>00, <2>6 DEF Networks!Fails, Networks!Closed, Networks!TypeOK
      <4>2. editor'[e] = r /\ \A f \in Editors \ {e} : editor'[f] = editor[f]
        BY <2>3, <4>1
      <4> QED
        BY <4>1, <4>2
    <3>2. /\ UNCHANGED <<stored, networksShown, ready, session, form, confirmed, picked>>
          /\ write' = IF write = e THEN NoEditor ELSE write
      BY <2>6 DEF Networks!Fails
    <3>3. \A f \in Editors \ {e} : Writing(f)' <=> Writing(f)
      BY <3>1 DEF Writing
    <3>4. ~Writing(e)'
      BY <3>1 DEF Writing
    <3>5. WritersAlone'
      BY <2>00, <3>1, <3>2, <3>3, <3>4 DEF WritersAlone
    <3>6. WritesTheShown'
      BY <2>00, <3>1, <3>2, <3>3, <3>4, SameChange DEF WritesTheShown
    <3>7. ConfirmedIsKept'
      BY <2>00, <3>1, <3>2 DEF ConfirmedIsKept
    <3> QED
      BY <2>00, <3>2, <3>5, <3>6, <3>7 DEF Networks!SessionKeepsItsChoice
  <2>7. ASSUME NEW e \in Editors, Networks!Persist(e)
        PROVE  Kept
    <3>1. /\ editor[e].at = "persist" /\ stored' = editor[e].base
          /\ editor'[e] = [editor[e] EXCEPT !.at = "publish"]
          /\ \A f \in Editors \ {e} : editor'[f] = editor[f]
      BY <2>3, <2>7 DEF Networks!Persist
    <3>2. /\ editor'[e].at = "publish" /\ editor'[e].base = editor[e].base
          /\ editor'[e].id = editor[e].id /\ editor'[e].draft = editor[e].draft
      BY <2>00, <3>1 DEF Networks!TypeOK
    <3>3. UNCHANGED <<networksShown, ready, write, session, form, confirmed, picked>>
      BY <2>7 DEF Networks!Persist
    <3>4. \A f \in Editors \ {e} : ~Writing(f) /\ ~Writing(f)'
      BY <2>00, <3>1 DEF WritersAlone, Writing
    <3>5. WritersAlone'
      <4>1. write' = e /\ Writing(e)' /\ editor'[e].id # 0 /\ ready'
        BY <2>00, <3>1, <3>2, <3>3 DEF WritersAlone, Writing
      <4>2. \A f \in Editors \ {e} : editor'[f].at = "wait" => editor'[f].id # 0
        BY <2>00, <3>1 DEF WritersAlone
      <4> QED
        BY <3>4, <4>1, <4>2 DEF WritersAlone
    <3>6. WritesTheShown'
      BY <2>00, <3>1, <3>2, <3>3, <3>4, SameChange DEF WritesTheShown, Writing
    <3>7. ConfirmedIsKept'
      BY <2>00, <3>1, <3>2, <3>3, <3>4 DEF ConfirmedIsKept, Writing, WritersAlone
    <3> QED
      BY <2>00, <3>3, <3>5, <3>6, <3>7 DEF Networks!SessionKeepsItsChoice
  <2>8. ASSUME NEW e \in Editors, Networks!Publish(e)
        PROVE  Kept
    <3>1. /\ editor[e].at = "publish" /\ networksShown' = editor[e].base
          /\ editor'[e] = Networks!Closed
          /\ \A f \in Editors \ {e} : editor'[f] = editor[f]
      BY <2>3, <2>8 DEF Networks!Publish
    <3>2. /\ UNCHANGED <<stored, ready, session, form, picked>>
          /\ write = e /\ write' = NoEditor /\ ready
          /\ confirmed' = {entry \in confirmed : entry.id # editor[e].id}
                           \cup {entry \in editor[e].base : entry.id = editor[e].id}
      BY <2>00, <2>8, <3>1 DEF Networks!Publish, WritersAlone, Writing
    <3>3. confirmed = networksShown /\ editor[e].base = Networks!Changed(e)
          /\ stored = editor[e].base
      BY <2>00, <3>1, <3>2 DEF ConfirmedIsKept, WritesTheShown, Writing
    <3>4. confirmed' = editor[e].base
      BY <3>2, <3>3 DEF Networks!Changed, Networks!Others
    <3>5. editor'[e].at = "list" /\ \A f \in Editors : ~Writing(f)'
      BY <2>00, <3>1, <3>2 DEF WritersAlone, Writing, Networks!Closed
    <3>6. WritersAlone'
      BY <2>00, <3>1, <3>2, <3>5 DEF WritersAlone
    <3>7. WritesTheShown' /\ ConfirmedIsKept'
      BY <3>1, <3>2, <3>3, <3>4, <3>5 DEF WritesTheShown, ConfirmedIsKept, Writing
    <3> QED
      BY <2>00, <3>2, <3>6, <3>7 DEF Networks!SessionKeepsItsChoice
  <2>9. ASSUME Networks!OpenForm \/ Networks!SyncNetworkChoices \/ Networks!Submit
               \/ Networks!CancelForm \/ \E config \in Configs \cup {None} : Networks!Pick(config)
        PROVE  Kept
    <3>1. UNCHANGED <<stored, networksShown, ready, write, editor, confirmed>>
      BY <2>9 DEF Networks!OpenForm, Networks!SyncNetworkChoices, Networks!Submit,
                  Networks!CancelForm, Networks!Pick
    <3>2. WritersAlone' /\ ConfirmedIsKept'
      BY <2>00, <3>1 DEF WritersAlone, ConfirmedIsKept, Writing
    <3>3. WritesTheShown'
      BY <2>00, <3>1, SameChange DEF WritesTheShown, Writing
    <3>4. Networks!SessionKeepsItsChoice'
      BY <2>00, <2>9
      DEF Networks!OpenForm, Networks!SyncNetworkChoices, Networks!Submit, Networks!CancelForm,
          Networks!Pick, Networks!Select, Networks!Kept, Networks!NoForm, Networks!TypeOK,
          Networks!SessionKeepsItsChoice
    <3> QED
      BY <3>2, <3>3, <3>4
  <2> QED
    BY <1>2, <2>1, <2>2, <2>4, <2>5, <2>6, <2>7, <2>8, <2>9 DEF Networks!Next
<1> QED
  BY <1>1, <1>2

LEMMA NetworksHolds == Spec => []NetworksInv
<1>1. Init => NetworksInv
  BY InitNetworks DEF Init
<1>2. NetworksInv /\ [Next]_all => NetworksInv'
  BY NextNetworks, PartSteps
<1> QED
  BY <1>1, <1>2, PTL DEF Spec

-----------------------------------------------------------------------------
(* KnownHosts                                                              *)

\* A check that is under way knows its endpoint.
Asked ==
  \A c \in Checks : checks[c].at # "idle" => checks[c].endpoint \in Endpoints

\* As long as no two have written at a time: whoever is about to write is alone and
\* has the file with its own entry in hand, and the file is damaged while it writes.
Writes(c) == checks[c].at \in {"read", "written"}
WriterAlone ==
  ~hostsRaced =>
    /\ \A c, d \in Checks : Writes(c) /\ Writes(d) => c = d
    /\ \A c \in Checks :
         /\ checks[c].at = "written" => hostsFile = Torn
         /\ checks[c].at = "read" => hostsFile \in Hosts!Entries
              /\ checks[c].entries = Hosts!Entered(c)
         /\ Writes(c) => /\ checks[c].entries[checks[c].endpoint] = checks[c].key
                         /\ \A e \in Endpoints \ {checks[c].endpoint} :
                              accepted[e] # NoKey => checks[c].entries[e] = accepted[e]

HostsInv == Hosts!TypeOK /\ Asked /\ WriterAlone /\ Hosts!AcceptedIsRemembered

LEMMA InitHosts == Hosts!Init => HostsInv
<1> SUFFICES ASSUME Hosts!Init PROVE HostsInv
  OBVIOUS
<1>1. /\ Hosts!Empty \in Hosts!Entries /\ 0 \in 0..MaxCrashes
      /\ \A e \in Endpoints : Hosts!Empty[e] = NoKey
  BY ThemeAssumption DEF Hosts!Empty, Hosts!Entries
<1>2. Hosts!TypeOK
  BY <1>1 DEF Hosts!Init, Hosts!TypeOK, Hosts!Idle
<1>3. \A c \in Checks : checks[c].at = "idle"
  BY DEF Hosts!Init, Hosts!Idle
<1> QED
  BY <1>1, <1>2, <1>3 DEF HostsInv, Asked, WriterAlone, Writes, Hosts!AcceptedIsRemembered,
    Hosts!Init

LEMMA HostsTypes ==
  ASSUME HostsInv, Hosts!Next
  PROVE  Hosts!TypeOK'
<1> DEFINE Records == [at : {"idle", "asked", "read", "written"}, entries : Hosts!Entries,
                       endpoint : Endpoints \cup {"none"}, key : Keys \cup {NoKey}]
<1>0. /\ Hosts!TypeOK /\ Hosts!Idle \in Records /\ checks \in [Checks -> Records]
  BY DEF HostsInv, Hosts!TypeOK, Hosts!Idle, Hosts!Empty, Hosts!Entries
<1>1. hostsCrashes < MaxCrashes => hostsCrashes + 1 \in 0..MaxCrashes
  BY <1>0, ThemeAssumption DEF Hosts!TypeOK
<1>2. CASE Hosts!Crash
  BY <1>0, <1>1, <1>2 DEF Hosts!Crash, Hosts!TypeOK
<1>3. ASSUME NEW c \in Checks, NEW r \in Records, checks' = [checks EXCEPT ![c] = r],
             hostsFile' \in Hosts!Entries \cup {Torn}, accepted' \in Hosts!Entries,
             hostsRaced' \in BOOLEAN, UNCHANGED hostsCrashes
      PROVE  Hosts!TypeOK'
  BY <1>0, <1>3 DEF Hosts!TypeOK
<1>4. ASSUME NEW c \in Checks, checks[c].at # "idle"
      PROVE  /\ checks[c] \in Records /\ checks[c].endpoint \in Endpoints
             /\ [accepted EXCEPT ![checks[c].endpoint] = checks[c].key] \in Hosts!Entries
             /\ hostsFile \in Hosts!Entries => Hosts!Entered(c) \in Hosts!Entries
  BY <1>0, <1>4 DEF HostsInv, Asked, Hosts!TypeOK, Hosts!Entries, Hosts!Entered
<1>5. ASSUME NEW c \in Checks, NEW e \in Endpoints, NEW k \in Keys, Hosts!Ask(c, e, k)
      PROVE  Hosts!TypeOK'
  <2>1. [Hosts!Idle EXCEPT !.at = "asked", !.endpoint = e, !.key = k] \in Records
    BY <1>0 DEF Hosts!Idle
  <2> QED
    BY <1>0, <1>3, <1>5, <2>1 DEF Hosts!Ask, Hosts!TypeOK
<1>6. ASSUME NEW c \in Checks, Hosts!Refuse(c) \/ Hosts!Known(c) \/ Hosts!WriteFails(c)
      PROVE  Hosts!TypeOK'
  <2>1. checks[c].at # "idle"
    BY <1>6 DEF Hosts!Refuse, Hosts!Known, Hosts!WriteFails
  <2> QED
    BY <1>0, <1>3, <1>4, <1>6, <2>1 DEF Hosts!Refuse, Hosts!Known, Hosts!WriteFails, Hosts!TypeOK
<1>7. ASSUME NEW c \in Checks, Hosts!Enter(c) \/ Hosts!Truncate(c)
      PROVE  Hosts!TypeOK'
  <2>1. checks[c].at # "idle" /\ hostsRaced' \in BOOLEAN
    BY <1>7 DEF Hosts!Enter, Hosts!Truncate
  <2>2. CASE Hosts!Enter(c)
    <3>1. [checks[c] EXCEPT !.at = "read", !.entries = Hosts!Entered(c)] \in Records
      BY <1>0, <1>4, <2>1, <2>2 DEF Hosts!Enter, Hosts!TypeOK
    <3>2. checks' = [checks EXCEPT ![c] = [checks[c] EXCEPT !.at = "read",
                                                            !.entries = Hosts!Entered(c)]]
      BY <1>0, <2>2 DEF Hosts!Enter
    <3> QED
      BY <1>0, <1>3, <2>1, <2>2, <3>1, <3>2 DEF Hosts!Enter, Hosts!TypeOK
  <2>3. CASE Hosts!Truncate(c)
    <3>1. [checks[c] EXCEPT !.at = "written"] \in Records
      BY <1>4, <2>1
    <3>2. checks' = [checks EXCEPT ![c] = [checks[c] EXCEPT !.at = "written"]]
      BY <1>0, <2>3 DEF Hosts!Truncate
    <3> QED
      BY <1>0, <1>3, <2>1, <2>3, <3>1, <3>2 DEF Hosts!Truncate, Hosts!TypeOK
  <2> QED
    BY <1>7, <2>2, <2>3
<1>8. ASSUME NEW c \in Checks, Hosts!Finish(c)
      PROVE  Hosts!TypeOK'
  <2>1. checks[c].at # "idle" /\ hostsFile' \in {checks[c].entries, Torn}
    BY <1>8 DEF Hosts!Finish
  <2> QED
    BY <1>0, <1>3, <1>4, <1>8, <2>1 DEF Hosts!Finish, Hosts!TypeOK
<1> QED
  BY <1>2, <1>5, <1>6, <1>7, <1>8 DEF Hosts!Next

LEMMA NextHosts ==
  ASSUME HostsInv, [Hosts!Next]_hostsState
  PROVE  HostsInv'
<1>0. /\ Hosts!TypeOK /\ Asked /\ WriterAlone /\ Hosts!AcceptedIsRemembered
      /\ accepted \in [Endpoints -> Keys \cup {NoKey}]
  BY DEF HostsInv, Hosts!TypeOK, Hosts!Entries
<1>1. CASE UNCHANGED hostsState
  BY <1>0, <1>1 DEF hostsState, HostsInv, Hosts!TypeOK, Asked, WriterAlone, Writes,
      Hosts!AcceptedIsRemembered, Hosts!Entered
<1>2. CASE Hosts!Next
  <2>0. Hosts!TypeOK'
    BY <1>2, HostsTypes
  <2> DEFINE Kept == Asked' /\ WriterAlone' /\ Hosts!AcceptedIsRemembered'
  <2>1. ASSUME Hosts!Crash
        PROVE  Kept
    <3>1. \A c \in Checks : checks'[c].at = "idle"
      BY <2>1 DEF Hosts!Crash, Hosts!Idle
    <3>2. UNCHANGED <<hostsFile, accepted, hostsRaced>>
      BY <2>1 DEF Hosts!Crash
    <3> QED
      BY <1>0, <3>1, <3>2 DEF Asked, WriterAlone, Writes, Hosts!AcceptedIsRemembered
  <2>3. ASSUME NEW c \in Checks, NEW e \in Endpoints, NEW k \in Keys, Hosts!Ask(c, e, k)
        PROVE  Kept
    <3>1. /\ checks'[c].at = "asked" /\ checks'[c].endpoint = e
          /\ \A d \in Checks \ {c} : checks'[d] = checks[d]
      BY <1>0, <2>3 DEF Hosts!Ask, Hosts!Idle, Hosts!TypeOK
    <3>2. UNCHANGED <<hostsFile, accepted, hostsRaced>>
      BY <2>3 DEF Hosts!Ask
    <3>3. Asked' /\ Hosts!AcceptedIsRemembered'
      BY <1>0, <3>1, <3>2 DEF Asked, Hosts!AcceptedIsRemembered
    <3>4. \A d \in Checks : Writes(d)' => d # c /\ Writes(d)
      BY <3>1 DEF Writes
    <3>5. \A d \in Checks \ {c} : Hosts!Entered(d)' = Hosts!Entered(d)
      BY <3>1, <3>2 DEF Hosts!Entered
    <3>6. WriterAlone'
      BY <1>0, <3>1, <3>2, <3>4, <3>5 DEF WriterAlone, Writes
    <3> QED
      BY <3>3, <3>6
  <2>4. ASSUME NEW c \in Checks, Hosts!Refuse(c) \/ Hosts!WriteFails(c)
        PROVE  Kept
    <3>1. checks'[c].at = "idle" /\ \A d \in Checks \ {c} : checks'[d] = checks[d]
      BY <1>0, <2>4 DEF Hosts!Refuse, Hosts!WriteFails, Hosts!Idle, Hosts!TypeOK
    <3>2. UNCHANGED <<hostsFile, accepted, hostsRaced>>
      BY <2>4 DEF Hosts!Refuse, Hosts!WriteFails
    <3> QED
      BY <1>0, <3>1, <3>2 DEF Asked, WriterAlone, Writes, Hosts!AcceptedIsRemembered, Hosts!Entered
  <2>5. ASSUME NEW c \in Checks, Hosts!Known(c)
        PROVE  Kept
    <3>1. checks'[c].at = "idle" /\ \A d \in Checks \ {c} : checks'[d] = checks[d]
      BY <1>0, <2>5 DEF Hosts!Known, Hosts!Idle, Hosts!TypeOK
    <3>2. /\ UNCHANGED <<hostsFile, hostsRaced>> /\ hostsFile # Torn
          /\ checks[c].endpoint \in Endpoints /\ hostsFile[checks[c].endpoint] = checks[c].key
          /\ \A e \in Endpoints : accepted'[e] \in {accepted[e], hostsFile[e]}
      BY <1>0, <2>5 DEF Hosts!Known, Asked
    <3>3. Asked' /\ Hosts!AcceptedIsRemembered'
      BY <1>0, <3>1, <3>2 DEF Asked, Hosts!AcceptedIsRemembered
    <3>4. WriterAlone'
      BY <1>0, <3>1, <3>2 DEF WriterAlone, Writes, Hosts!Entered, Hosts!Entries
    <3> QED
      BY <3>3, <3>4
  <2>6. ASSUME NEW c \in Checks, Hosts!Enter(c)
        PROVE  Kept
    <3>1. /\ checks'[c] = [checks[c] EXCEPT !.at = "read", !.entries = Hosts!Entered(c)]
          /\ \A d \in Checks \ {c} : checks'[d] = checks[d]
      BY <1>0, <2>6 DEF Hosts!Enter, Hosts!TypeOK
    <3>2. /\ checks'[c].at = "read" /\ checks'[c].entries = Hosts!Entered(c)
          /\ checks'[c].endpoint = checks[c].endpoint /\ checks'[c].key = checks[c].key
      BY <1>0, <3>1 DEF Hosts!TypeOK
    <3>3. /\ UNCHANGED <<hostsFile, accepted>> /\ hostsFile \in Hosts!Entries /\ hostsFile # Torn
          /\ checks[c].endpoint \in Endpoints /\ checks[c].at = "asked"
      BY <1>0, <2>6 DEF Hosts!Enter, Hosts!TypeOK, Asked
    <3>4. ~hostsRaced' => ~hostsRaced /\ \A d \in Checks \ {c} : ~Writes(d)
      BY <2>6 DEF Hosts!Enter, Hosts!Busy, Writes
    <3>5. Asked' /\ Hosts!AcceptedIsRemembered'
      BY <1>0, <3>1, <3>2, <3>3, <3>4 DEF Asked, Hosts!AcceptedIsRemembered
    <3>6. Hosts!Entered(c)' = Hosts!Entered(c)
      BY <3>2, <3>3 DEF Hosts!Entered
    <3>7. /\ Hosts!Entered(c)[checks[c].endpoint] = checks[c].key
          /\ \A e \in Endpoints \ {checks[c].endpoint} : Hosts!Entered(c)[e] = hostsFile[e]
      BY <3>3 DEF Hosts!Entered, Hosts!Entries
    <3>8. ASSUME ~hostsRaced'
          PROVE  WriterAlone'
      <4>1. ~hostsRaced /\ \A d \in Checks : Writes(d)' => d = c
        BY <3>1, <3>4, <3>8 DEF Writes
      <4>2. \A e \in Endpoints : accepted[e] # NoKey => hostsFile[e] = accepted[e]
        BY <1>0, <3>3, <4>1 DEF Hosts!AcceptedIsRemembered
      <4>3. checks'[c].entries[checks[c].endpoint] = checks[c].key
        BY <3>2, <3>7
      <4>4. \A e \in Endpoints \ {checks[c].endpoint} :
              accepted'[e] # NoKey => checks'[c].entries[e] = accepted'[e]
        BY <3>2, <3>3, <3>7, <4>2
      <4> QED
        BY <3>2, <3>3, <3>6, <4>1, <4>3, <4>4 DEF WriterAlone, Writes
    <3>9. hostsRaced' => WriterAlone'
      BY DEF WriterAlone
    <3> QED
      BY <3>5, <3>8, <3>9
  <2>7. ASSUME NEW c \in Checks, Hosts!Truncate(c)
        PROVE  Kept
    <3>1. /\ checks'[c] = [checks[c] EXCEPT !.at = "written"]
          /\ \A d \in Checks \ {c} : checks'[d] = checks[d]
      BY <1>0, <2>7 DEF Hosts!Truncate, Hosts!TypeOK
    <3>2. /\ checks'[c].at = "written" /\ checks'[c].entries = checks[c].entries
          /\ checks'[c].endpoint = checks[c].endpoint /\ checks'[c].key = checks[c].key
      BY <1>0, <3>1 DEF Hosts!TypeOK
    <3>3. hostsFile' = Torn /\ accepted' = accepted /\ checks[c].at = "read"
      BY <2>7 DEF Hosts!Truncate
    <3>4. ~hostsRaced' => ~hostsRaced /\ \A d \in Checks \ {c} : ~Writes(d)
      BY <2>7 DEF Hosts!Truncate, Hosts!Busy, Writes
    <3>5. Asked' /\ Hosts!AcceptedIsRemembered'
      BY <1>0, <3>1, <3>2, <3>3 DEF Asked, Hosts!AcceptedIsRemembered
    <3>6. ASSUME ~hostsRaced'
          PROVE  WriterAlone'
      <4>1. ~hostsRaced /\ \A d \in Checks : Writes(d)' => d = c
        BY <3>1, <3>4, <3>6 DEF Writes
      <4>2. /\ checks[c].entries[checks[c].endpoint] = checks[c].key
            /\ \A e \in Endpoints \ {checks[c].endpoint} :
                 accepted[e] # NoKey => checks[c].entries[e] = accepted[e]
        BY <1>0, <3>3, <4>1 DEF WriterAlone, Writes
      <4> QED
        BY <3>2, <3>3, <4>1, <4>2 DEF WriterAlone, Writes
    <3>7. hostsRaced' => WriterAlone'
      BY DEF WriterAlone
    <3> QED
      BY <3>5, <3>6, <3>7
  <2>8. ASSUME NEW c \in Checks, Hosts!Finish(c)
        PROVE  Kept
    <3>1. checks'[c].at = "idle" /\ \A d \in Checks \ {c} : checks'[d] = checks[d]
      BY <1>0, <2>8 DEF Hosts!Finish, Hosts!Idle, Hosts!TypeOK
    <3>2. /\ UNCHANGED hostsRaced /\ checks[c].at = "written"
          /\ hostsFile' \in {checks[c].entries, Torn} /\ checks[c].endpoint \in Endpoints
          /\ accepted' = [accepted EXCEPT ![checks[c].endpoint] = checks[c].key]
      BY <1>0, <2>8 DEF Hosts!Finish, Asked
    <3>3. ~hostsRaced => \A d \in Checks \ {c} : ~Writes(d)
      BY <1>0, <3>2 DEF WriterAlone, Writes
    <3>4. Asked' /\ WriterAlone'
      BY <1>0, <3>1, <3>2, <3>3 DEF Asked, WriterAlone, Writes
    <3>5. ASSUME ~hostsRaced'
          PROVE  Hosts!AcceptedIsRemembered'
      <4>1. /\ checks[c].entries[checks[c].endpoint] = checks[c].key
            /\ \A e \in Endpoints \ {checks[c].endpoint} :
                 accepted[e] # NoKey => checks[c].entries[e] = accepted[e]
        BY <1>0, <3>2, <3>5 DEF WriterAlone, Writes
      <4>2. /\ accepted'[checks[c].endpoint] = checks[c].key
            /\ \A e \in Endpoints \ {checks[c].endpoint} : accepted'[e] = accepted[e]
        BY <1>0, <3>2
      <4> QED
        BY <3>2, <4>1, <4>2 DEF Hosts!AcceptedIsRemembered
    <3>6. hostsRaced' => Hosts!AcceptedIsRemembered'
      BY DEF Hosts!AcceptedIsRemembered
    <3> QED
      BY <3>4, <3>5, <3>6
  <2> HIDE DEF Kept
  <2>9. Kept
    BY <1>2, <2>1, <2>3, <2>4, <2>5, <2>6, <2>7, <2>8 DEF Hosts!Next
  <2> QED
    BY <2>0, <2>9 DEF HostsInv, Kept
<1> QED
  BY <1>1, <1>2

LEMMA HostsHolds == Spec => []HostsInv
<1>1. Init => HostsInv
  BY InitHosts DEF Init
<1>2. HostsInv /\ [Next]_all => HostsInv'
  BY NextHosts, PartSteps
<1> QED
  BY <1>1, <1>2, PTL DEF Spec

-----------------------------------------------------------------------------
(* ThemeSettings                                                           *)

\* Where the worker is while the program starts, runs and ends.
WorkerFollowsApp ==
  /\ worker \in {"last", "saveLast"} => app = "closing"
  /\ app = "running" => worker \in {"select", "save"}
  /\ app \in {"off", "ended"} => worker = "none"

\* The channel has the settings; what the worker saves last is what it has.
ChannelFollows ==
  /\ app # "off" => channel = settings
  /\ worker = "saveLast" => hand = channel

\* Nothing is saved that was not edited.
EditsAreSaved ==
  /\ unseen => edited
  /\ worker \in {"save", "saveLast"} => edited
  /\ app \in {"closing", "ended"} /\ worker = "none" /\ edited => failed \/ themeFile = settings
  /\ app # "off" /\ ~edited => themeFile \in {Absent, Torn, settings}

ThemeInv == /\ Theme!TypeOK /\ WorkerFollowsApp /\ ChannelFollows /\ EditsAreSaved
            /\ Theme!ShownAsAfterRestart

LEMMA ThemeIsSaved == ThemeInv => Theme!NewestSaved
BY DEF ThemeInv, WorkerFollowsApp, EditsAreSaved, Theme!NewestSaved

\* The settings are closed under the setters.
LEMMA SettingsStay ==
  ASSUME NEW s \in Theme!Settings
  PROVE  /\ \A t \in ChosenThemes : [s EXCEPT !.theme = t] \in Theme!Settings
         /\ \A b \in {-1} \cup Colours : [s EXCEPT !.background = b] \in Theme!Settings
         /\ \A o \in {0, 100} : [s EXCEPT !.opacity = o] \in Theme!Settings
         /\ \A w \in BOOLEAN : [s EXCEPT !.wallpaper = w] \in Theme!Settings
BY DEF Theme!Settings

LEMMA DefaultIsASetting == Theme!DefaultSettings \in Theme!Settings
BY ThemeAssumption DEF Theme!Settings, Theme!DefaultSettings, Theme!Unset

\* The wallpaper and its opacity change nothing but the soft surfaces.
LEMMA WallpaperOnlySoftens ==
  ASSUME NEW s, NEW n,
         \A f \in {"font", "background", "hover", "selected"} : n[f] = s[f],
         n.theme = s.theme, n.accent = s.accent,
         ~(s.theme = "DefaultTheme" /\ ~Theme!Overridden(s))
  PROVE  Theme!Applied(n) = Theme!Applied(s)
<1>1. ~Theme!SoftDefault(s) /\ ~Theme!SoftDefault(n)
  BY DEF Theme!SoftDefault, Theme!Overridden
<1>2. Theme!PaletteOf(n) = Theme!PaletteOf(s)
  BY DEF Theme!PaletteOf
<1>3. /\ n.font = s.font /\ n.background = s.background
      /\ n.hover = s.hover /\ n.selected = s.selected
  OBVIOUS
<1>4. \A x : Theme!ForegroundOn(n, x) = Theme!ForegroundOn(s, x)
  BY <1>2, <1>3 DEF Theme!ForegroundOn
<1> QED
  BY <1>1, <1>2, <1>3, <1>4 DEF Theme!Applied

LEMMA InitTheme == Theme!Init => ThemeInv
<1> SUFFICES ASSUME Theme!Init PROVE ThemeInv
  OBVIOUS
<1>1. 0 \in 0..MaxCrashes
  BY ThemeAssumption
<1>2. Theme!TypeOK
  BY <1>1, DefaultIsASetting DEF Theme!Init, Theme!TypeOK
<1> QED
  BY <1>2 DEF Theme!Init, ThemeInv, WorkerFollowsApp, ChannelFollows, EditsAreSaved,
      Theme!ShownAsAfterRestart

\* A setter of the GUI applies the theme again unless only the wallpaper changes.
SameButWallpaper(n) ==
  /\ \A f \in {"font", "background", "hover", "selected"} : n[f] = settings[f]
  /\ n.theme = settings.theme /\ n.accent = settings.accent

LEMMA RefreshTheme ==
  ASSUME ThemeInv, NEW n \in Theme!Settings, NEW reapply \in BOOLEAN, Theme!Refresh(n, reapply),
         reapply \/ SameButWallpaper(n)
  PROVE  ThemeInv'
<1>1. /\ app = "running" /\ settings' = n /\ edited' = TRUE /\ channel' = n /\ unseen' = TRUE
      /\ UNCHANGED <<app, worker, hand, failed, themeFile, themeCrashes>>
      /\ reapply => applied' = Theme!Applied(n)
      /\ ~reapply => applied' = applied
  BY DEF Theme!Refresh
<1>2. Theme!TypeOK'
  <2>1. CASE reapply
    BY <1>1, <2>1 DEF ThemeInv, Theme!TypeOK
  <2>2. CASE ~reapply
    BY <1>1, <2>2 DEF ThemeInv, Theme!TypeOK
  <2> QED
    BY <2>1, <2>2
<1>3. WorkerFollowsApp' /\ ChannelFollows' /\ EditsAreSaved'
  BY <1>1 DEF ThemeInv, WorkerFollowsApp, ChannelFollows, EditsAreSaved
<1>4. Theme!ShownAsAfterRestart'
  <2>1. CASE reapply
    BY <1>1, <2>1 DEF Theme!ShownAsAfterRestart
  <2>2. CASE ~reapply /\ settings.theme = "DefaultTheme" /\ ~Theme!Overridden(settings)
    <3>1. n.theme = "DefaultTheme" /\ ~Theme!Overridden(n)
      BY <2>2 DEF Theme!Overridden, SameButWallpaper
    <3> QED
      BY <1>1, <3>1 DEF Theme!ShownAsAfterRestart
  <2>3. CASE ~reapply /\ ~(settings.theme = "DefaultTheme" /\ ~Theme!Overridden(settings))
    <3>1. Theme!Applied(n) = Theme!Applied(settings)
      BY <2>3, WallpaperOnlySoftens DEF SameButWallpaper
    <3>2. applied = Theme!Applied(settings)
      BY <1>1, <2>3 DEF ThemeInv, Theme!ShownAsAfterRestart
    <3> QED
      BY <1>1, <2>3, <3>1, <3>2 DEF Theme!ShownAsAfterRestart
  <2> QED
    BY <2>1, <2>2, <2>3
<1> QED
  BY <1>2, <1>3, <1>4 DEF ThemeInv

LEMMA NextTheme ==
  ASSUME ThemeInv, [Theme!Next]_themeState
  PROVE  ThemeInv'
<1>0. /\ Theme!TypeOK /\ WorkerFollowsApp /\ ChannelFollows /\ EditsAreSaved
      /\ Theme!ShownAsAfterRestart /\ settings \in Theme!Settings
  BY DEF ThemeInv, Theme!TypeOK
<1>1. CASE UNCHANGED themeState
  BY <1>0, <1>1 DEF themeState, ThemeInv, Theme!TypeOK, WorkerFollowsApp, ChannelFollows,
      EditsAreSaved, Theme!ShownAsAfterRestart
<1>2. ASSUME NEW t \in ChosenThemes, Theme!SelectTheme(t)
      PROVE  ThemeInv'
  BY <1>0, <1>2, RefreshTheme, SettingsStay DEF Theme!SelectTheme
<1>3. ASSUME NEW b \in {-1} \cup Colours, Theme!SetBackground(b)
      PROVE  ThemeInv'
  BY <1>0, <1>3, RefreshTheme, SettingsStay DEF Theme!SetBackground
<1>5. ASSUME NEW o \in {0, 100}, Theme!SetOpacity(o)
      PROVE  ThemeInv'
  <2>1. [settings EXCEPT !.opacity = o] \in Theme!Settings
    BY <1>0, SettingsStay
  <2>2. Theme!Refresh([settings EXCEPT !.opacity = o], FALSE)
    BY <1>5 DEF Theme!SetOpacity
  <2>3. SameButWallpaper([settings EXCEPT !.opacity = o])
    BY <1>0 DEF SameButWallpaper, Theme!Settings
  <2> QED
    BY <2>1, <2>2, <2>3, RefreshTheme
<1>6. ASSUME Theme!ChooseWallpaper \/ Theme!ClearWallpaper
      PROVE  ThemeInv'
  <2>1. PICK w \in BOOLEAN : Theme!Refresh([settings EXCEPT !.wallpaper = w], FALSE)
    BY <1>6 DEF Theme!ChooseWallpaper, Theme!ClearWallpaper
  <2>2. [settings EXCEPT !.wallpaper = w] \in Theme!Settings
    BY <1>0, SettingsStay
  <2>3. SameButWallpaper([settings EXCEPT !.wallpaper = w])
    BY <1>0 DEF SameButWallpaper, Theme!Settings
  <2> QED
    BY <2>1, <2>2, <2>3, RefreshTheme
<1>7. CASE Theme!Initialize
  <2>1. Theme!Loaded \in Theme!Settings /\ themeFile \in {Absent, Torn, Theme!Loaded}
    BY <1>0, DefaultIsASetting DEF Theme!Loaded, Theme!TypeOK
  <2>2. Theme!TypeOK'
    BY <1>0, <1>7, <2>1 DEF Theme!Initialize, Theme!TypeOK
  <2> QED
    BY <1>0, <1>7, <2>1, <2>2 DEF Theme!Initialize, ThemeInv, WorkerFollowsApp, ChannelFollows,
        EditsAreSaved, Theme!ShownAsAfterRestart
<1>8. ASSUME Theme!TakeChange \/ Theme!TakeLast
      PROVE  ThemeInv'
  <2>1. Theme!TypeOK'
    BY <1>0, <1>8 DEF Theme!TakeChange, Theme!TakeLast, Theme!Work, Theme!TypeOK
  <2>2. WorkerFollowsApp' /\ ChannelFollows' /\ EditsAreSaved' /\ Theme!ShownAsAfterRestart'
    BY <1>0, <1>8 DEF Theme!TakeChange, Theme!TakeLast, Theme!Work, WorkerFollowsApp,
        ChannelFollows, EditsAreSaved, Theme!ShownAsAfterRestart
  <2> QED
    BY <2>1, <2>2 DEF ThemeInv
<1>9. ASSUME Theme!TakeShutdown \/ Theme!EndUnchanged
      PROVE  ThemeInv'
  <2>1. Theme!TypeOK'
    BY <1>0, <1>9 DEF Theme!TakeShutdown, Theme!EndUnchanged, Theme!Work, Theme!TypeOK
  <2>2. WorkerFollowsApp' /\ ChannelFollows' /\ EditsAreSaved' /\ Theme!ShownAsAfterRestart'
    BY <1>0, <1>9 DEF Theme!TakeShutdown, Theme!EndUnchanged, Theme!Work, WorkerFollowsApp,
        ChannelFollows, EditsAreSaved, Theme!ShownAsAfterRestart
  <2> QED
    BY <2>1, <2>2 DEF ThemeInv
<1>10. ASSUME Theme!Save \/ Theme!SaveLast
       PROVE  ThemeInv'
  <2>1. PICK ok \in BOOLEAN : Theme!Written(ok)
    BY <1>10 DEF Theme!Save, Theme!SaveLast
  <2>2. failed' \in BOOLEAN /\ (failed' \/ themeFile' = hand) /\ themeFile' \in {hand, themeFile,
          Torn}
    BY <2>1 DEF Theme!Written
  <2>3. Theme!TypeOK'
    BY <1>0, <1>10, <2>2 DEF Theme!Save, Theme!SaveLast, Theme!Work, Theme!TypeOK
  <2>4. WorkerFollowsApp' /\ ChannelFollows' /\ Theme!ShownAsAfterRestart'
    BY <1>0, <1>10 DEF Theme!Save, Theme!SaveLast, Theme!Work, WorkerFollowsApp,
        ChannelFollows, Theme!ShownAsAfterRestart
  <2>5. EditsAreSaved'
    BY <1>0, <1>10, <2>2 DEF Theme!Save, Theme!SaveLast, Theme!Work, WorkerFollowsApp,
        ChannelFollows, EditsAreSaved
  <2> QED
    BY <2>3, <2>4, <2>5 DEF ThemeInv
<1>11. ASSUME Theme!Shutdown \/ Theme!ShutdownEnds \/ Theme!Restart
       PROVE  ThemeInv'
  <2>1. Theme!TypeOK'
    BY <1>0, <1>11 DEF Theme!Shutdown, Theme!ShutdownEnds, Theme!Restart, Theme!TypeOK
  <2>2. WorkerFollowsApp' /\ ChannelFollows' /\ EditsAreSaved' /\ Theme!ShownAsAfterRestart'
    BY <1>0, <1>11 DEF Theme!Shutdown, Theme!ShutdownEnds, Theme!Restart, WorkerFollowsApp,
        ChannelFollows, EditsAreSaved, Theme!ShownAsAfterRestart
  <2> QED
    BY <2>1, <2>2 DEF ThemeInv
<1>12. CASE Theme!Crash
  <2>1. themeCrashes + 1 \in 0..MaxCrashes
    BY <1>0, <1>12, ThemeAssumption DEF Theme!Crash, Theme!TypeOK
  <2>2. themeFile' \in {themeFile, hand, Torn}
    BY <1>12 DEF Theme!Crash
  <2>3. Theme!TypeOK'
    BY <1>0, <1>12, <2>1, <2>2 DEF Theme!Crash, Theme!TypeOK
  <2> QED
    BY <1>0, <1>12, <2>3 DEF Theme!Crash, ThemeInv, WorkerFollowsApp, ChannelFollows,
        EditsAreSaved, Theme!ShownAsAfterRestart
<1> QED
  BY <1>1, <1>2, <1>3, <1>5, <1>6, <1>7, <1>8, <1>9, <1>10, <1>11, <1>12
  DEF Theme!Next, Theme!Worker

LEMMA ThemeHolds == Spec => []ThemeInv
<1>1. Init => ThemeInv
  BY InitTheme DEF Init
<1>2. ThemeInv /\ [Next]_all => ThemeInv'
  BY NextTheme, PartSteps
<1> QED
  BY <1>1, <1>2, PTL DEF Spec

-----------------------------------------------------------------------------
\* What was chosen last is what is kept, whichever branch the saving worker takes,
\* however many editors save and however many servers are checked at the same time.
THEOREM ChoicesAreKept == Spec => []NewestIsKept
<1>1. NetworksInv => Networks!SavesAgree
  BY NetworksAssumption DEF NetworksInv, WritersAlone, Writing, ConfirmedIsKept,
     Networks!SavesAgree
<1>2. ThemeInv /\ NetworksInv /\ HostsInv => NewestIsKept
  BY <1>1, ThemeIsSaved DEF ThemeInv, NetworksInv, HostsInv, NewestIsKept
<1> QED
  BY <1>2, ThemeHolds, NetworksHolds, HostsHolds, PTL

\* A shell is told a port only by a caller that has just found a tunnel.
LEMMA TellsOfTunnel ==
  ASSUME TunnelsInv, Tunnels!Next, NEW o \in Ops, ops[o].at = "check", ops'[o].at = "told",
         ops[o].version = profile, ~tunnelsRaced
  PROVE  tunnel = ops[o].version
<1>0. /\ ops \in [Ops -> [at : {"idle", "openLock", "connect", "workspace", "check",
                                "told", "closeLock", "disconnect", "write"},
                          edit : {"no", "update", "delete"}, version : 0..MaxVersion]]
      /\ tunnel \in {0, profile}
  BY DEF TunnelsInv, Tunnels!TypeOK, Tunnels!TunnelFollowsProfile
<1> DEFINE Told == \E u \in Ops : Tunnels!OpenWorkspace(u)
<1>1. Told \/ ~Told
  OBVIOUS
<1>2. CASE Told
  BY <1>0, <1>2 DEF Tunnels!OpenWorkspace
<1>3. CASE ~Told
  <2>1. ~Tunnels!SessionDies
    BY DEF Tunnels!SessionDies
  <2>2. ASSUME NEW u \in Ops, Tunnels!Open(u) \/ Tunnels!AlreadyOpen(u) \/ Tunnels!StartConnect(u)
                              \/ Tunnels!ConnectFails(u) \/ Tunnels!Connected(u)
        PROVE  FALSE
    BY <1>0, <2>2 DEF Tunnels!Open, Tunnels!AlreadyOpen, Tunnels!StartConnect,
       Tunnels!ConnectFails, Tunnels!Connected, Tunnels!Step, Tunnels!Becomes, Tunnels!Ends,
       Tunnels!Idle
  <2>3. ASSUME NEW u \in Ops, Tunnels!FindWorkspace(u) \/ Tunnels!WorkspaceEnds(u)
                              \/ Tunnels!TakeSession(u)
                              \/ \E edit \in {"no", "update", "delete"} : Tunnels!Close(u, edit)
        PROVE  FALSE
    BY <1>0, <2>3 DEF Tunnels!FindWorkspace, Tunnels!WorkspaceEnds, Tunnels!Close,
       Tunnels!TakeSession, Tunnels!Step, Tunnels!Becomes, Tunnels!Ends, Tunnels!Idle
  <2>4. ASSUME NEW u \in Ops, Tunnels!Disconnect(u) \/ Tunnels!Write(u) \/ Tunnels!WriteFails(u)
        PROVE  FALSE
    BY <1>0, <2>4 DEF Tunnels!Disconnect, Tunnels!Write, Tunnels!WriteFails,
       Tunnels!Step, Tunnels!Becomes, Tunnels!Ends, Tunnels!Idle
  <2> QED
    BY <1>3, <2>1, <2>2, <2>3, <2>4 DEF Tunnels!Next
<1> QED
  BY <1>2, <1>3

\* Only a migration, and the publication of a save, change the list.
LEMMA OnlyMigrationsClash ==
  ASSUME NetworksInv, Networks!Next,
         NEW x \in networksShown', NEW y \in networksShown', x # y,
         Networks!Name(x) = Networks!Name(y)
  PROVE  {x, y} \subseteq networksShown \/ ~ready
<1>1. CASE UNCHANGED networksShown
  BY <1>1
<1>2. CASE Networks!Initialize \/ Networks!Restart
  BY <1>2 DEF Networks!Initialize, Networks!Restart
<1>3. ASSUME NEW e \in Editors, Networks!Publish(e)
      PROVE  {x, y} \subseteq networksShown
  <2>1. networksShown' = Networks!Changed(e) /\ ~Networks!Clashes(e)
    BY <1>3 DEF Networks!Publish, NetworksInv, WritesTheShown, Writing
  <2>2. CASE editor[e].draft = None
    BY <2>1, <2>2 DEF Networks!Changed, Networks!Others
  <2>3. CASE editor[e].draft # None
    <3> DEFINE saved == [id |-> editor[e].id, config |-> editor[e].draft]
    <3>1. networksShown' = Networks!Others(e) \cup {saved}
      BY <2>1, <2>3 DEF Networks!Changed
    <3>2. \A entry \in Networks!Others(e) : Networks!Name(entry) # Networks!Name(saved)
      BY <2>1, <2>3 DEF Networks!Clashes, Networks!Name
    <3> QED
      BY <3>1, <3>2 DEF Networks!Others
  <2> QED
    BY <2>2, <2>3
<1>4. Networks!Next => \/ Networks!Initialize \/ Networks!Restart
                       \/ \E e \in Editors : Networks!Publish(e)
                       \/ UNCHANGED networksShown
  BY DEF Networks!Next, Networks!Edit, Networks!CancelEdit, Networks!Delete, Networks!Begin,
     Networks!Fails, Networks!Persist, Networks!Save, Networks!OpenForm,
     Networks!SyncNetworkChoices, Networks!Submit, Networks!CancelForm, Networks!Pick
<1> QED
  BY <1>1, <1>2, <1>3, <1>4

\* A workspace is told the port of its own tunnel, and no save gives two
\* configurations one name, for any number of callers, editors and entries.
THEOREM StepsAreTrue == Spec => StepsMeanWhatTheySay
<1> DEFINE Exports == \A o \in Ops :
             ops[o].at = "check" /\ ops'[o].at = "told" /\ ops[o].version = profile
               /\ ~tunnelsRaced
               => tunnel = ops[o].version
           Migrates == \A x, y \in networksShown' :
             x # y /\ Networks!Name(x) = Networks!Name(y)
               => {x, y} \subseteq networksShown \/ ~ready
<1>1. TunnelsInv /\ [Next]_all => [Exports]_(Tunnels!vars)
  <2>1. ASSUME TunnelsInv, Tunnels!Next PROVE Exports
    BY <2>1, TellsOfTunnel
  <2> QED
    BY <2>1, PartSteps DEF Tunnels!vars, tunnelsState
<1>2. NetworksInv /\ [Next]_all => [Migrates]_(Networks!vars)
  <2>1. ASSUME NetworksInv, Networks!Next PROVE Migrates
    BY <2>1, OnlyMigrationsClash
  <2> QED
    BY <2>1, PartSteps DEF Networks!vars, networksState
<1>3. Spec => [][Exports]_(Tunnels!vars)
  BY <1>1, TunnelsHolds, PTL DEF Spec
<1>4. Spec => [][Migrates]_(Networks!vars)
  BY <1>2, NetworksHolds, PTL DEF Spec
<1> QED
  BY <1>3, <1>4 DEF StepsMeanWhatTheySay, Tunnels!ExportsWork, Networks!ClashesAreMigrated

-----------------------------------------------------------------------------
(* Workspace: the published workspaces                                     *)

LEMMA AppendPublishes ==
  ASSUME listed \in Seq(Ids), Workspaces!IsInjective(listed), NEW id \in Ids,
         id \notin Workspaces!Published, listed' = Append(listed, id)
  PROVE  /\ listed' \in Seq(Ids) /\ Workspaces!IsInjective(listed')
         /\ Workspaces!Published' = Workspaces!Published \cup {id}
<1>1. /\ listed' \in Seq(Ids) /\ Len(listed') = Len(listed) + 1 /\ listed'[Len(listed) + 1] = id
      /\ \A i \in 1..Len(listed) : listed'[i] = listed[i]
      /\ DOMAIN listed = 1..Len(listed) /\ DOMAIN listed' = 1..Len(listed')
      /\ Len(listed) \in Nat
  OBVIOUS
<1>2. Workspaces!Published' = Workspaces!Published \cup {id}
  <2>1. ASSUME NEW x \in Workspaces!Published PROVE x \in Workspaces!Published'
    <3>1. PICK i \in 1..Len(listed) : listed[i] = x
      BY <1>1, <2>1 DEF Workspaces!Published, Workspaces!ToSet
    <3>2. i \in DOMAIN listed' /\ listed'[i] = x
      BY <1>1, <3>1
    <3> QED
      BY <3>2 DEF Workspaces!Published, Workspaces!ToSet
  <2>2. id \in Workspaces!Published'
    BY <1>1 DEF Workspaces!Published, Workspaces!ToSet
  <2>3. ASSUME NEW x \in Workspaces!Published' PROVE x \in Workspaces!Published \cup {id}
    <3>1. PICK i \in 1..Len(listed') : listed'[i] = x
      BY <1>1, <2>3 DEF Workspaces!Published, Workspaces!ToSet
    <3>2. CASE i = Len(listed) + 1
      BY <1>1, <3>1, <3>2
    <3>3. CASE i # Len(listed) + 1
      <4>1. i \in 1..Len(listed) /\ listed[i] = x
        BY <1>1, <3>1, <3>3
      <4> QED
        BY <1>1, <4>1 DEF Workspaces!Published, Workspaces!ToSet
    <3> QED
      BY <3>2, <3>3
  <2> QED
    BY <2>1, <2>2, <2>3
<1>3. \A i \in 1..Len(listed) : listed[i] # id
  BY <1>1 DEF Workspaces!Published, Workspaces!ToSet
<1>4. ASSUME NEW i \in DOMAIN listed', NEW j \in DOMAIN listed', listed'[i] = listed'[j]
      PROVE  i = j
  BY <1>1, <1>3, <1>4 DEF Workspaces!IsInjective
<1> QED
  BY <1>1, <1>2, <1>4 DEF Workspaces!IsInjective

LEMMA PositionIs ==
  ASSUME listed \in Seq(Ids), NEW id \in Workspaces!Published
  PROVE  Workspaces!Position(id) \in 1..Len(listed) /\ listed[Workspaces!Position(id)] = id
<1>1. \E i \in DOMAIN listed : listed[i] = id
  BY DEF Workspaces!Published, Workspaces!ToSet
<1> QED
  BY <1>1 DEF Workspaces!Position

\* The list without one workspace.
LEMMA RemoveRevokes ==
  ASSUME listed \in Seq(Ids), Workspaces!IsInjective(listed), NEW id \in Workspaces!Published,
         NEW rest, rest = Workspaces!RemoveAt(listed, Workspaces!Position(id))
  PROVE  /\ rest \in Seq(Ids) /\ Workspaces!IsInjective(rest)
         /\ Workspaces!ToSet(rest) = Workspaces!Published \ {id}
<1> DEFINE p == Workspaces!Position(id)
           n == Len(listed)
<1>1. p \in 1..n /\ listed[p] = id /\ n \in Nat /\ DOMAIN listed = 1..n
  BY PositionIs
<1> HIDE DEF p
<1>2. /\ rest \in Seq(Ids) /\ Len(rest) = n - 1
      /\ \A i \in 1..(n - 1) : rest[i] = IF i < p THEN listed[i] ELSE listed[i + 1]
  <2>1. rest = SubSeq(listed, 1, p - 1) \o SubSeq(listed, p + 1, n)
    BY DEF Workspaces!RemoveAt, p
  <2> DEFINE head == SubSeq(listed, 1, p - 1)
             tail == SubSeq(listed, p + 1, n)
  <2>2. /\ \A i \in 1..(p - 1) : listed[i] \in Ids
        /\ \A i \in (p + 1)..n : listed[i] \in Ids
    BY <1>1
  <2>3. head \in Seq(Ids) /\ Len(head) = p - 1 /\ \A i \in 1..(p - 1) : head[i] = listed[i]
    <3>1. /\ head \in Seq(Ids) /\ Len(head) = IF 1 <= p - 1 THEN p - 1 - 1 + 1 ELSE 0
          /\ \A i \in 1..(p - 1 - 1 + 1) : head[i] = listed[1 + i - 1]
      BY <1>1, <2>2, SubSeqProperties
    <3> QED
      BY <1>1, <3>1
  <2>4. tail \in Seq(Ids) /\ Len(tail) = n - p /\ \A i \in 1..(n - p) : tail[i] = listed[p + i]
    <3>1. /\ tail \in Seq(Ids) /\ Len(tail) = IF p + 1 <= n THEN n - (p + 1) + 1 ELSE 0
          /\ \A i \in 1..(n - (p + 1) + 1) : tail[i] = listed[p + 1 + i - 1]
      <4>1. p + 1 \in Int /\ n \in Int
        BY <1>1
      <4> QED
        BY <2>2, <4>1, SubSeqProperties
    <3>2. n - (p + 1) + 1 = n - p /\ \A i \in 1..(n - p) : p + 1 + i - 1 = p + i
      BY <1>1
    <3> QED
      BY <1>1, <3>1, <3>2
  <2> HIDE DEF head, tail
  <2>5. /\ head \o tail \in Seq(Ids) /\ Len(head \o tail) = (p - 1) + (n - p)
        /\ \A i \in 1..((p - 1) + (n - p)) :
             (head \o tail)[i] = IF i <= p - 1 THEN head[i] ELSE tail[i - (p - 1)]
    <3>1. /\ head \o tail \in Seq(Ids) /\ Len(head \o tail) = Len(head) + Len(tail)
          /\ \A i \in 1..(Len(head) + Len(tail)) :
               (head \o tail)[i] = IF i <= Len(head) THEN head[i] ELSE tail[i - Len(head)]
      BY <2>3, <2>4, ConcatProperties
    <3>2. Len(head) = p - 1 /\ Len(tail) = n - p
      BY <2>3, <2>4
    <3> QED
      BY <3>1, <3>2
  <2>6. rest = head \o tail
    BY <2>1 DEF head, tail
  <2>7. (p - 1) + (n - p) = n - 1
    BY <1>1
  <2>8. ASSUME NEW i \in 1..(n - 1)
        PROVE  rest[i] = IF i < p THEN listed[i] ELSE listed[i + 1]
    <3>1. CASE i < p
      <4>1. i <= p - 1 /\ i \in 1..(p - 1)
        BY <1>1, <3>1
      <4> QED
        BY <2>3, <2>5, <2>6, <2>7, <3>1, <4>1
    <3>2. CASE ~(i < p)
      <4>1. ~(i <= p - 1) /\ i - (p - 1) \in 1..(n - p) /\ p + (i - (p - 1)) = i + 1
        BY <1>1, <3>2
      <4> QED
        BY <2>4, <2>5, <2>6, <2>7, <3>2, <4>1
    <3> QED
      BY <3>1, <3>2
  <2> QED
    BY <2>5, <2>6, <2>7, <2>8
<1>3. DOMAIN rest = 1..(n - 1)
  BY <1>1, <1>2
<1>4. \A i, j \in 1..n : listed[i] = listed[j] => i = j
  BY <1>1 DEF Workspaces!IsInjective
<1>5. Workspaces!IsInjective(rest)
  <2> SUFFICES ASSUME NEW i \in 1..(n - 1), NEW j \in 1..(n - 1), rest[i] = rest[j]
               PROVE  i = j
    BY <1>3 DEF Workspaces!IsInjective
  <2> DEFINE k == IF i < p THEN i ELSE i + 1
             l == IF j < p THEN j ELSE j + 1
  <2>1. k \in 1..n /\ l \in 1..n /\ listed[k] = listed[l]
    BY <1>1, <1>2
  <2>2. k = l
    BY <1>4, <2>1
  <2> QED
    BY <1>1, <2>2
<1>6. ASSUME NEW x \in Workspaces!ToSet(rest) PROVE x \in Workspaces!Published \ {id}
  <2>1. PICK i \in 1..(n - 1) : rest[i] = x
    BY <1>3, <1>6 DEF Workspaces!ToSet
  <2> DEFINE k == IF i < p THEN i ELSE i + 1
  <2>2. k \in 1..n /\ listed[k] = x /\ k # p
    BY <1>1, <1>2, <2>1
  <2>3. x # id
    BY <1>1, <1>4, <2>2
  <2> QED
    BY <1>1, <2>2, <2>3 DEF Workspaces!Published, Workspaces!ToSet
<1>7. ASSUME NEW x \in Workspaces!Published \ {id} PROVE x \in Workspaces!ToSet(rest)
  <2>1. PICK k \in 1..n : listed[k] = x
    BY <1>1, <1>7 DEF Workspaces!Published, Workspaces!ToSet
  <2>2. k # p
    BY <1>1, <1>7, <2>1
  <2> DEFINE i == IF k < p THEN k ELSE k - 1
  <2>3. i \in 1..(n - 1) /\ rest[i] = x
    BY <1>1, <1>2, <2>1, <2>2
  <2> QED
    BY <1>3, <2>3 DEF Workspaces!ToSet
<1> QED
  BY <1>2, <1>5, <1>6, <1>7

LEMMA NeighbourIsPublished ==
  ASSUME listed \in Seq(Ids), Workspaces!IsInjective(listed), NEW id \in Workspaces!Published
  PROVE  Workspaces!NeighbourOf(id) \in (Workspaces!Published \ {id}) \cup {NoId}
<1> DEFINE rest == Workspaces!RemoveAt(listed, Workspaces!Position(id))
           p == Workspaces!Position(id)
           i == IF p <= Len(rest) THEN p ELSE Len(rest)
<1>1. rest \in Seq(Ids) /\ Workspaces!ToSet(rest) = Workspaces!Published \ {id}
  BY RemoveRevokes
<1>2. p \in 1..Len(listed)
  BY PositionIs
<1>3. CASE rest = <<>>
  BY <1>3 DEF Workspaces!NeighbourOf
<1>4. CASE rest # <<>>
  <2>1. Len(rest) \in Nat \ {0} /\ DOMAIN rest = 1..Len(rest)
    BY <1>1, <1>4, EmptySeq
  <2>2. i \in DOMAIN rest
    BY <1>2, <2>1
  <2>3. Workspaces!NeighbourOf(id) = rest[i]
    BY <1>4 DEF Workspaces!NeighbourOf
  <2> QED
    BY <1>1, <2>2, <2>3 DEF Workspaces!ToSet
<1> QED
  BY <1>3, <1>4

-----------------------------------------------------------------------------
(* Workspace: what an operation still has to do                            *)

\* An opening.
Announces == <<"opened", "openedSelected", "runtime">>
Selects == <<"openedSelected", "runtime">>
Starts == <<"runtime">>
SendsEnvironment == <<"environment">>
ListsLocal == <<"local">>
\* A close or a rollback, up to the event.
Stops == <<"closeRuntime", "closeSession">>
StopsFirst == <<"closeRuntime", "drain", "closeSession">>
DrainsFirst == <<"drain", "closeSession">>
Revokes == <<"closeSession">>
RevokesFirst == <<"closeSession", "closeRuntime", "drain">>
\* The rest of it.
Tells == <<"closed">>
TellsBoth == <<"closed", "closedSelected">>
TellsSelected == <<"closedSelected">>
TellsThenEnds == <<"closed", "closeRuntime", "drain">>
TellsBothThenEnds == <<"closed", "closedSelected", "closeRuntime", "drain">>
TellsSelectedThenEnds == <<"closedSelected", "closeRuntime", "drain">>
Ends == <<"closeRuntime", "drain">>
Drains == <<"drain">>
\* A watch that is started or stopped.
StartsWatch == <<"watchPath", "addWatch", "insertWatch">>
AddsWatch == <<"addWatch", "insertWatch">>
InsertsWatch == <<"insertWatch">>
StopsWatch == <<"unwatch", "removeWatch">>
RemovesWatch == <<"removeWatch">>

OpenPlans == {Announces, Selects, Starts}
TellPlans == {Tells, TellsBoth, TellsSelected}
EndPlans == {TellsThenEnds, TellsBothThenEnds, TellsSelectedThenEnds, Ends}
WatchPlans == {StartsWatch, AddsWatch, InsertsWatch, StopsWatch, RemovesWatch}
Plans == OpenPlans \cup TellPlans \cup EndPlans \cup WatchPlans \cup
         {<<>>, SendsEnvironment, ListsLocal, Stops, StopsFirst, DrainsFirst, Revokes,
          RevokesFirst, Drains}

Undoes(c) == arg[c].undo = TRUE
Idles(c) == todo[c] = <<>>

\* Which operation may have which plan.
Fits(c) ==
  /\ todo[c] \in Plans
  /\ Idles(c) => arg[c] = Workspaces!NoArg
  /\ ~Idles(c) => arg[c].id \in used /\ arg[c].kind \in Protocols
  /\ todo[c] \in OpenPlans \cup WatchPlans \cup EndPlans \cup
                {SendsEnvironment, ListsLocal, RevokesFirst, Drains} => ~Undoes(c)
  /\ todo[c] \in WatchPlans \cup EndPlans \cup {ListsLocal, StopsFirst, DrainsFirst, RevokesFirst,
       Drains}
       => arg[c].kind = "sftp"
  /\ todo[c] \in {SendsEnvironment, Stops} => arg[c].kind = "ssh"
  /\ todo[c] \in {StopsFirst, DrainsFirst} => Undoes(c)
  /\ todo[c] \in TellPlans \cup {Revokes} /\ arg[c].kind = "sftp" => Undoes(c)
  /\ arg[c].watch # NoWatch <=> todo[c] \in {AddsWatch, InsertsWatch}

-----------------------------------------------------------------------------
(* Workspace: the places                                                   *)

About(c, id) == ~Idles(c) /\ arg[c].id = id
Opens(c) == todo[c] \in OpenPlans \cup {SendsEnvironment, ListsLocal} \/ Undoes(c)
\* It takes the workspace out of the list, and will not find that another did.
Removes(c) ==
  todo[c] = Revokes \/ (Undoes(c) /\ todo[c] \in {Stops, StopsFirst, DrainsFirst})

Typed ==
  /\ Workspaces!TypeOK /\ listed \in Seq(Ids)
  /\ todo \in [Callers -> Plans] /\ \A c \in Callers : Fits(c)

\* One protocol for a workspace, and one operation that opened it.
OneKind ==
  /\ \A c \in Callers : ~Idles(c) => profiles[arg[c].id] \in {NoKind, arg[c].kind}
  /\ \A c, d \in Callers : About(c, arg[d].id) /\ ~Idles(d) => arg[c].kind = arg[d].kind
OneOpener == \A c, d \in Callers : Opens(c) /\ Opens(d) /\ arg[c].id = arg[d].id => c = d

\* What is published, before, while and after an operation has it in hand.
Listing ==
  /\ \A id \in Ids : profiles[id] # NoKind <=> id \in Workspaces!Published
  /\ selected \in Workspaces!Published \cup {NoId}
  /\ \A c \in Callers : todo[c] = Announces => arg[c].id \in Workspaces!Published
  /\ \A c \in Callers : todo[c] \in OpenPlans /\ arg[c].kind = "ssh"
                          => arg[c].id \in Workspaces!Published
  /\ \A c \in Callers : todo[c] \in TellPlans \cup EndPlans \cup {Drains}
                          => arg[c].id \notin Workspaces!Published

\* When a runtime is not there yet, and when it is there no more.
NoRuntime ==
  /\ \A c \in Callers : todo[c] \in OpenPlans \cup {Revokes,
       DrainsFirst} => arg[c].id \notin runtimes
  /\ \A c, d \in Callers : todo[c] \in OpenPlans /\ arg[c].kind = "ssh" /\ todo[d] = Revokes
                             => arg[d].id # arg[c].id
  /\ \A id \in Ids : profiles[id] = "database" => id \notin runtimes

\* Between the places: somebody is about to bring them together.
RuntimesFollow ==
  /\ \A id \in runtimes \ Workspaces!Published : \E c \in Callers : About(c,
       id) /\ todo[c] \in EndPlans
  /\ \A id \in Workspaces!Published \ runtimes :
       \E c \in Callers : About(c, id) /\ (todo[c] \in OpenPlans \/ Removes(c))
EventsFollow ==
  /\ \A id \in Workspaces!Published \ heard : \E c \in Callers : About(c, id) /\ todo[c] = Announces
  /\ \A id \in heard \ Workspaces!Published :
       \E c \in Callers : About(c, id) /\ todo[c] \in {Tells, TellsBoth, TellsThenEnds,
         TellsBothThenEnds}

PlacesInv == Typed /\ OneKind /\ OneOpener /\ Listing /\ NoRuntime /\ RuntimesFollow /\ EventsFollow

-----------------------------------------------------------------------------
(* Workspace: the watches                                                  *)

\* Every watch has one owner: the operation that sets it up, or the map.
OneOwner ==
  /\ \A w \in alive : (\E c \in Callers : arg[c].watch = w) \/ \E id \in Ids : watch[id] = w
  /\ \A c \in Callers : arg[c].watch # NoWatch => arg[c].watch \in alive
  /\ \A id \in Ids : watch[id] # NoWatch => watch[id] \in alive
  /\ \A c, d \in Callers : arg[c].watch = arg[d].watch /\ arg[c].watch # NoWatch => c = d
  /\ \A i, j \in Ids : watch[i] = watch[j] /\ watch[i] # NoWatch => i = j
  /\ \A c \in Callers, id \in Ids : watch[id] = arg[c].watch => watch[id] = NoWatch

\* The map has watches of SFTP workspaces with a runtime, or about to be drained.
OfRuntimes ==
  /\ \A c \in Callers : todo[c] = InsertsWatch => arg[c].id \in runtimes
  /\ \A id \in Ids : watch[id] # NoWatch =>
       /\ id \in runtimes \/ \E c \in Callers : About(c, id) /\ todo[c] \in {Drains, DrainsFirst}
       /\ profiles[id] \in {NoKind, "sftp"}
       /\ \A c \in Callers : About(c, id) => arg[c].kind = "sftp"

\* A watch that is listed runs, unless somebody is about to mend it.
ListedRun ==
  /\ workspacesShown \subseteq Workspaces!Published
  /\ \A id \in workspacesShown : watch[id] = NoWatch =>
       \E c \in Callers : About(c, id) /\ (todo[c] \in {InsertsWatch, RemovesWatch} \/ Removes(c))

WatchesInv == OneOwner /\ OfRuntimes /\ ListedRun

-----------------------------------------------------------------------------
(* Workspace: the plans                                                    *)

\* The step that is next.
LEMMA Heads ==
  /\ Head(Announces) = "opened" /\ Head(Selects) = "openedSelected" /\ Head(Starts) = "runtime"
  /\ Head(SendsEnvironment) = "environment" /\ Head(ListsLocal) = "local"
  /\ Head(Stops) = "closeRuntime" /\ Head(StopsFirst) = "closeRuntime"
  /\ Head(DrainsFirst) = "drain" /\ Head(Revokes) = "closeSession"
  /\ Head(RevokesFirst) = "closeSession"
  /\ Head(Tells) = "closed" /\ Head(TellsBoth) = "closed" /\ Head(TellsSelected) = "closedSelected"
  /\ Head(TellsThenEnds) = "closed" /\ Head(TellsBothThenEnds) = "closed"
  /\ Head(TellsSelectedThenEnds) = "closedSelected"
  /\ Head(Ends) = "closeRuntime" /\ Head(Drains) = "drain"
  /\ Head(StartsWatch) = "watchPath" /\ Head(AddsWatch) = "addWatch"
  /\ Head(InsertsWatch) = "insertWatch"
  /\ Head(StopsWatch) = "unwatch" /\ Head(RemovesWatch) = "removeWatch"
BY DEF Announces, Selects, Starts, SendsEnvironment, ListsLocal, Stops, StopsFirst, DrainsFirst,
  Revokes, RevokesFirst, Tells, TellsBoth, TellsSelected, TellsThenEnds, TellsBothThenEnds,
  TellsSelectedThenEnds, Ends, Drains, StartsWatch, AddsWatch, InsertsWatch, StopsWatch,
  RemovesWatch

LEMMA Lengths ==
  /\ Len(Starts) = 1 /\ Len(SendsEnvironment) = 1 /\ Len(ListsLocal) = 1 /\ Len(Revokes) = 1
  /\ Len(Tells) = 1 /\ Len(TellsSelected) = 1 /\ Len(Drains) = 1 /\ Len(InsertsWatch) = 1
  /\ Len(RemovesWatch) = 1
  /\ Len(Selects) = 2 /\ Len(Stops) = 2 /\ Len(DrainsFirst) = 2 /\ Len(TellsBoth) = 2
  /\ Len(Ends) = 2 /\ Len(AddsWatch) = 2 /\ Len(StopsWatch) = 2
  /\ Len(Announces) = 3 /\ Len(StopsFirst) = 3 /\ Len(RevokesFirst) = 3
  /\ Len(TellsThenEnds) = 3 /\ Len(TellsSelectedThenEnds) = 3 /\ Len(StartsWatch) = 3
  /\ Len(TellsBothThenEnds) = 4
BY DEF Announces, Selects, Starts, SendsEnvironment, ListsLocal, Stops, StopsFirst, DrainsFirst,
  Revokes, RevokesFirst, Tells, TellsBoth, TellsSelected, TellsThenEnds, TellsBothThenEnds,
  TellsSelectedThenEnds, Ends, Drains, StartsWatch, AddsWatch, InsertsWatch, StopsWatch,
  RemovesWatch

\* Plans with the same next step differ.
LEMMA Differ ==
  /\ Stops # StopsFirst /\ Stops # Ends /\ StopsFirst # Ends
  /\ DrainsFirst # Drains /\ Revokes # RevokesFirst /\ TellsSelected # TellsSelectedThenEnds
  /\ Tells # TellsBoth /\ Tells # TellsThenEnds /\ Tells # TellsBothThenEnds
  /\ TellsBoth # TellsThenEnds /\ TellsBoth # TellsBothThenEnds
  /\ TellsThenEnds # TellsBothThenEnds
BY DEF Stops, StopsFirst, Ends, DrainsFirst, Drains, Revokes, RevokesFirst, Tells, TellsBoth,
  TellsSelected, TellsThenEnds, TellsBothThenEnds, TellsSelectedThenEnds

\* The steps that are left after it.
LEMMA Tails ==
  /\ Tail(Announces) = Selects /\ Tail(Selects) = Starts
  /\ Tail(Stops) = Revokes /\ Tail(StopsFirst) = DrainsFirst /\ Tail(DrainsFirst) = Revokes
  /\ Tail(TellsBoth) = TellsSelected /\ Tail(TellsThenEnds) = Ends
  /\ Tail(TellsBothThenEnds) = TellsSelectedThenEnds /\ Tail(TellsSelectedThenEnds) = Ends
  /\ Tail(Ends) = Drains
  /\ Tail(StartsWatch) = AddsWatch /\ Tail(AddsWatch) = InsertsWatch
  /\ Tail(StopsWatch) = RemovesWatch
BY DEF Announces, Selects, Starts, Stops, StopsFirst, DrainsFirst, Revokes, TellsBoth,
  TellsSelected, TellsThenEnds, TellsBothThenEnds, TellsSelectedThenEnds, Ends, Drains,
  StartsWatch, AddsWatch, InsertsWatch, StopsWatch, RemovesWatch

LEMMA AfterRevoking ==
  /\ Tells \o Tail(Revokes) = Tells /\ TellsBoth \o Tail(Revokes) = TellsBoth
  /\ Tells \o Tail(RevokesFirst) = TellsThenEnds
  /\ TellsBoth \o Tail(RevokesFirst) = TellsBothThenEnds
<1>1. Tail(Revokes) = <<>> /\ Tail(RevokesFirst) = Ends
  BY DEF Revokes, RevokesFirst, Ends
<1>2. /\ {Tells, TellsBoth, Ends, TellsThenEnds, TellsBothThenEnds} \subseteq Seq(Workspaces!Steps)
      /\ Len(Tells) = 1 /\ Len(TellsBoth) = 2 /\ Len(Ends) = 2
      /\ Len(TellsThenEnds) = 3 /\ Len(TellsBothThenEnds) = 4
  BY DEF Tells, TellsBoth, Ends, TellsThenEnds, TellsBothThenEnds, Workspaces!Steps
<1>3. Tells \o <<>> = Tells /\ TellsBoth \o <<>> = TellsBoth
  BY <1>2, ConcatEmptySeq
<1>4. Tells \o Ends = TellsThenEnds
  <2>1. /\ Tells \o Ends \in Seq(Workspaces!Steps) /\ Len(Tells \o Ends) = 3
        /\ \A i \in 1..3 : (Tells \o Ends)[i] = IF i <= 1 THEN Tells[i] ELSE Ends[i - 1]
    <3>1. /\ Tells \o Ends \in Seq(Workspaces!Steps) /\ Len(Tells \o Ends) = Len(Tells) + Len(Ends)
          /\ \A i \in 1..(Len(Tells) + Len(Ends)) :
               (Tells \o Ends)[i] = IF i <= Len(Tells) THEN Tells[i] ELSE Ends[i - Len(Tells)]
      BY <1>2, ConcatProperties
    <3> QED
      BY <1>2, <3>1
  <2>2. \A i \in 1..3 : (Tells \o Ends)[i] = TellsThenEnds[i]
    BY <2>1 DEF Tells, Ends, TellsThenEnds
  <2> QED
    BY <1>2, <2>1, <2>2, SeqEqual
<1>5. TellsBoth \o Ends = TellsBothThenEnds
  <2>1. /\ TellsBoth \o Ends \in Seq(Workspaces!Steps) /\ Len(TellsBoth \o Ends) = 4
        /\ \A i \in 1..4 : (TellsBoth \o Ends)[i] = IF i <= 2 THEN TellsBoth[i] ELSE Ends[i - 2]
    <3>1. /\ TellsBoth \o Ends \in Seq(Workspaces!Steps)
               /\ Len(TellsBoth \o Ends) = Len(TellsBoth) + Len(Ends)
          /\ \A i \in 1..(Len(TellsBoth) + Len(Ends)) :
               (TellsBoth \o Ends)[i] = IF i <= Len(TellsBoth) THEN TellsBoth[i] ELSE Ends[i -
                 Len(TellsBoth)]
      BY <1>2, ConcatProperties
    <3> QED
      BY <1>2, <3>1
  <2>2. \A i \in 1..4 : (TellsBoth \o Ends)[i] = TellsBothThenEnds[i]
    BY <2>1 DEF TellsBoth, Ends, TellsBothThenEnds
  <2> QED
    BY <1>2, <2>1, <2>2, SeqEqual
<1> QED
  BY <1>1, <1>3, <1>4, <1>5

LEMMA PlansAreSteps == \A p \in Plans : Workspaces!ToSet(p) \subseteq Workspaces!Steps
<1>1. \A p \in OpenPlans \cup {SendsEnvironment, ListsLocal, <<>>} :
        Workspaces!ToSet(p) \subseteq Workspaces!Steps
  BY DEF Workspaces!ToSet, Workspaces!Steps, OpenPlans, Announces, Selects, Starts,
     SendsEnvironment, ListsLocal
<1>2. \A p \in {Stops, StopsFirst, DrainsFirst, Revokes, RevokesFirst} :
        Workspaces!ToSet(p) \subseteq Workspaces!Steps
  BY DEF Workspaces!ToSet, Workspaces!Steps, Stops, StopsFirst, DrainsFirst, Revokes, RevokesFirst
<1>3. \A p \in TellPlans \cup EndPlans \cup {Drains} : Workspaces!ToSet(p) \subseteq
        Workspaces!Steps
  BY DEF Workspaces!ToSet, Workspaces!Steps, TellPlans, EndPlans, Tells, TellsBoth, TellsSelected,
     TellsThenEnds, TellsBothThenEnds, TellsSelectedThenEnds, Ends, Drains
<1>4. \A p \in WatchPlans : Workspaces!ToSet(p) \subseteq Workspaces!Steps
  BY DEF Workspaces!ToSet, Workspaces!Steps, WatchPlans, StartsWatch, AddsWatch, InsertsWatch,
     StopsWatch, RemovesWatch
<1> QED
  BY <1>1, <1>2, <1>3, <1>4 DEF Plans

LEMMA EmptyPlan ==
  <<>> \notin OpenPlans \cup TellPlans \cup EndPlans \cup WatchPlans \cup
         {SendsEnvironment, ListsLocal, Stops, StopsFirst, DrainsFirst, Revokes,
          RevokesFirst, Drains}
BY DEF OpenPlans, TellPlans, EndPlans, WatchPlans, Announces, Selects, Starts, SendsEnvironment,
  ListsLocal, Stops, StopsFirst, DrainsFirst, Revokes, RevokesFirst, Tells, TellsBoth,
  TellsSelected, TellsThenEnds, TellsBothThenEnds, TellsSelectedThenEnds, Ends, Drains,
  StartsWatch, AddsWatch, InsertsWatch, StopsWatch, RemovesWatch

\* The next step tells the plan.
LEMMA PlanOf ==
  ASSUME NEW c \in Callers, todo[c] \in Plans
  PROVE  /\ Workspaces!At(c, "opened") <=> todo[c] = Announces
         /\ Workspaces!At(c, "openedSelected") <=> todo[c] = Selects
         /\ Workspaces!At(c, "runtime") <=> todo[c] = Starts
         /\ Workspaces!At(c, "environment") <=> todo[c] = SendsEnvironment
         /\ Workspaces!At(c, "local") <=> todo[c] = ListsLocal
         /\ Workspaces!At(c, "closeRuntime") <=> todo[c] \in {Stops, StopsFirst, Ends}
         /\ Workspaces!At(c, "drain") <=> todo[c] \in {DrainsFirst, Drains}
         /\ Workspaces!At(c, "closeSession") <=> todo[c] \in {Revokes, RevokesFirst}
         /\ Workspaces!At(c, "closed")
              <=> todo[c] \in {Tells, TellsBoth, TellsThenEnds, TellsBothThenEnds}
         /\ Workspaces!At(c, "closedSelected") <=> todo[c] \in {TellsSelected,
              TellsSelectedThenEnds}
         /\ Workspaces!At(c, "watchPath") <=> todo[c] = StartsWatch
         /\ Workspaces!At(c, "addWatch") <=> todo[c] = AddsWatch
         /\ Workspaces!At(c, "insertWatch") <=> todo[c] = InsertsWatch
         /\ Workspaces!At(c, "unwatch") <=> todo[c] = StopsWatch
         /\ Workspaces!At(c, "removeWatch") <=> todo[c] = RemovesWatch
         /\ Workspaces!Busy(c) <=> ~Idles(c)
<1>2. ASSUME NEW p \in Plans, p # <<>>
      PROVE  /\ Head(p) = "opened" <=> p = Announces
             /\ Head(p) = "openedSelected" <=> p = Selects
             /\ Head(p) = "runtime" <=> p = Starts
             /\ Head(p) = "environment" <=> p = SendsEnvironment
             /\ Head(p) = "local" <=> p = ListsLocal
             /\ Head(p) = "closeRuntime" <=> p \in {Stops, StopsFirst, Ends}
             /\ Head(p) = "drain" <=> p \in {DrainsFirst, Drains}
             /\ Head(p) = "closeSession" <=> p \in {Revokes, RevokesFirst}
             /\ Head(p) = "closed" <=> p \in {Tells, TellsBoth, TellsThenEnds, TellsBothThenEnds}
             /\ Head(p) = "closedSelected" <=> p \in {TellsSelected, TellsSelectedThenEnds}
             /\ Head(p) = "watchPath" <=> p = StartsWatch
             /\ Head(p) = "addWatch" <=> p = AddsWatch
             /\ Head(p) = "insertWatch" <=> p = InsertsWatch
             /\ Head(p) = "unwatch" <=> p = StopsWatch
             /\ Head(p) = "removeWatch" <=> p = RemovesWatch
  BY <1>2, Heads DEF Plans, OpenPlans, TellPlans, EndPlans, WatchPlans
<1>5. CASE todo[c] = <<>>
  BY <1>5, EmptyPlan DEF Workspaces!At, Workspaces!Busy, Idles, OpenPlans, TellPlans, EndPlans,
    WatchPlans
<1>6. CASE todo[c] # <<>>
  BY <1>2, <1>6 DEF Workspaces!At, Workspaces!Busy, Idles
<1> QED
  BY <1>5, <1>6

-----------------------------------------------------------------------------
(* Workspace: a step of an operation                                       *)

Args == [id : Ids \cup {NoId}, kind : Protocols \cup {NoKind}, undo : BOOLEAN,
         watch : Watches \cup {NoWatch}]

\* It is a step of one operation ...
Moves(c) == /\ todo' = [todo EXCEPT ![c] = todo'[c]]
            /\ arg' = [arg EXCEPT ![c] = arg'[c]] /\ arg'[c] \in Args
\* ... that leaves the places and the watches with values of their types.
WatchTypes == /\ watch' \in [Ids -> Watches \cup {NoWatch}]
              /\ alive' \subseteq Watches /\ workspacesShown' \subseteq used'

LEMMA OthersStay ==
  ASSUME Typed, NEW c \in Callers, Moves(c)
  PROVE  \A d \in Callers \ {c} :
           /\ todo'[d] = todo[d] /\ arg'[d] = arg[d]
           /\ Idles(d)' <=> Idles(d)
           /\ Undoes(d)' <=> Undoes(d)
           /\ Opens(d)' <=> Opens(d)
           /\ Removes(d)' <=> Removes(d)
<1>1. arg \in [Callers -> Args]
  BY DEF Typed, Workspaces!TypeOK, Args
<1>2. \A d \in Callers \ {c} : todo'[d] = todo[d] /\ arg'[d] = arg[d]
  BY <1>1 DEF Moves, Typed
<1> QED
  BY <1>2 DEF Idles, Undoes, Opens, Removes

LEMMA GoOnMoves ==
  ASSUME Typed, NEW c \in Callers, Workspaces!GoOn(c)
  PROVE  /\ Moves(c)
         /\ Len(todo[c]) = 1 => todo'[c] = <<>> /\ arg'[c] = Workspaces!NoArg
         /\ Len(todo[c]) # 1 => todo'[c] = Tail(todo[c]) /\ arg'[c] = arg[c]
<1>1. arg \in [Callers -> Args] /\ todo \in [Callers -> Plans] /\ Workspaces!NoArg \in Args
  BY DEF Typed, Workspaces!TypeOK, Args, Workspaces!NoArg
<1>2. CASE Len(todo[c]) = 1
  BY <1>1, <1>2 DEF Workspaces!GoOn, Workspaces!Return, Workspaces!Continue, Moves
<1>3. CASE Len(todo[c]) # 1
  BY <1>1, <1>3 DEF Workspaces!GoOn, Workspaces!Continue, Moves
<1> QED
  BY <1>2, <1>3

LEMMA ReturnMoves ==
  ASSUME Typed, NEW c \in Callers, Workspaces!Return(c)
  PROVE  Moves(c) /\ todo'[c] = <<>> /\ arg'[c] = Workspaces!NoArg
<1>1. arg \in [Callers -> Args] /\ todo \in [Callers -> Plans] /\ Workspaces!NoArg \in Args
  BY DEF Typed, Workspaces!TypeOK, Args, Workspaces!NoArg
<1> QED
  BY <1>1 DEF Workspaces!Return, Workspaces!Continue, Moves

LEMMA UndoMoves ==
  ASSUME Typed, NEW c \in Callers, Workspaces!Undo(c), arg[c].kind \in Protocols
  PROVE  /\ Moves(c) /\ arg'[c].undo = TRUE
         /\ arg'[c].id = arg[c].id /\ arg'[c].kind = arg[c].kind /\ arg'[c].watch = arg[c].watch
         /\ arg[c].kind = "ssh" => todo'[c] = Stops
         /\ arg[c].kind = "sftp" => todo'[c] = StopsFirst
         /\ arg[c].kind = "database" => todo'[c] = Revokes
<1>1. arg \in [Callers -> Args] /\ todo \in [Callers -> Plans]
  BY DEF Typed, Workspaces!TypeOK, Args
<1>2. /\ todo' = [todo EXCEPT ![c] = Workspaces!Rollback(arg[c].kind)]
      /\ arg' = [arg EXCEPT ![c] = [arg[c] EXCEPT !.undo = TRUE]]
  BY <1>1 DEF Workspaces!Undo, Workspaces!Continue
<1>3. [arg[c] EXCEPT !.undo = TRUE] \in Args
  BY <1>1 DEF Args
<1>4. /\ arg[c].kind = "ssh" => Workspaces!Rollback(arg[c].kind) = Stops
      /\ arg[c].kind = "sftp" => Workspaces!Rollback(arg[c].kind) = StopsFirst
      /\ arg[c].kind = "database" => Workspaces!Rollback(arg[c].kind) = Revokes
  BY DEF Workspaces!Rollback, Stops, StopsFirst, Revokes
<1>5. todo'[c] = Workspaces!Rollback(arg[c].kind) /\ arg'[c] = [arg[c] EXCEPT !.undo = TRUE]
  BY <1>1, <1>2
<1>6. Moves(c)
  BY <1>2, <1>3, <1>5 DEF Moves
<1>7. /\ arg'[c].undo = TRUE
      /\ arg'[c].id = arg[c].id /\ arg'[c].kind = arg[c].kind /\ arg'[c].watch = arg[c].watch
  BY <1>1, <1>5 DEF Args
<1> QED
  BY <1>4, <1>5, <1>6, <1>7

\* A new operation.
LEMMA BeginMoves ==
  ASSUME Typed, NEW c \in Callers, NEW p, NEW id \in Ids, NEW kind \in Protocols,
         Workspaces!Continue(c, p),
         arg' = [arg EXCEPT ![c] = [Workspaces!NoArg EXCEPT !.id = id, !.kind = kind]]
  PROVE  /\ Moves(c) /\ todo'[c] = p /\ arg'[c].id = id /\ arg'[c].kind = kind
         /\ arg'[c].undo = FALSE /\ arg'[c].watch = NoWatch
<1> DEFINE r == [Workspaces!NoArg EXCEPT !.id = id, !.kind = kind]
<1>1. arg \in [Callers -> Args] /\ todo \in [Callers -> Plans]
  BY DEF Typed, Workspaces!TypeOK, Args
<1>2. r.id = id /\ r.kind = kind /\ r.undo = FALSE /\ r.watch = NoWatch
  BY DEF Workspaces!NoArg
<1>3. r \in Args
  BY DEF Workspaces!NoArg, Args
<1> HIDE DEF r
<1> QED
  BY <1>1, <1>2, <1>3 DEF Moves, Workspaces!Continue, r

LEMMA TypedMove ==
  ASSUME Typed, NEW c \in Callers, Moves(c), Fits(c)', WatchTypes,
         used \subseteq used', used' \subseteq Ids, runtimes' \subseteq used',
           heard' \subseteq used',
         profiles' \in [Ids -> Protocols \cup {NoKind}],
         listed' \in Seq(Ids), Workspaces!IsInjective(listed'),
         Workspaces!Published' \subseteq used', selected' \in Ids \cup {NoId}
  PROVE  Typed'
<1>1. arg \in [Callers -> Args] /\ todo \in [Callers -> Plans]
  BY DEF Typed, Workspaces!TypeOK, Args
<1>2. arg' \in [Callers -> Args] /\ todo' \in [Callers -> Plans]
  BY <1>1 DEF Moves, Fits
<1>3. Workspaces!TypeOK'
  BY <1>2, PlansAreSteps DEF Workspaces!TypeOK, WatchTypes, Args
<1>4. ASSUME NEW d \in Callers PROVE Fits(d)'
  BY OthersStay DEF Typed, Fits
<1> QED
  BY <1>2, <1>3, <1>4 DEF Typed

\* A step that takes no place's witness away and claims nothing that does not hold ...
Gentle(c) ==
  /\ Moves(c) /\ Fits(c)' /\ WatchTypes
  /\ UNCHANGED <<used, profiles, listed, selected, runtimes>>
  /\ ~Idles(c)' => /\ profiles[arg'[c].id] \in {NoKind, arg'[c].kind}
                   /\ \A d \in Callers \ {c} : About(d, arg'[c].id) => arg[d].kind = arg'[c].kind
  /\ Opens(c)' => Opens(c) /\ arg'[c].id = arg[c].id
  /\ todo'[c] \in OpenPlans => todo[c] \in OpenPlans /\ arg'[c] = arg[c]
  /\ todo'[c] # Announces
  /\ todo'[c] \in TellPlans \cup EndPlans \cup {Drains} => arg'[c].id \notin Workspaces!Published
  /\ todo'[c] \in {Revokes, DrainsFirst} => arg'[c].id \notin runtimes
  /\ todo'[c] = Revokes =>
       \A d \in Callers \ {c} : todo[d] \in OpenPlans /\ arg[d].kind = "ssh"
         => arg[d].id # arg'[c].id
  /\ todo[c] \in EndPlans /\ arg[c].id \in runtimes
       => todo'[c] \in EndPlans /\ arg'[c].id = arg[c].id
  /\ (todo[c] \in OpenPlans \/ Removes(c)) /\ arg[c].id \in Workspaces!Published \ runtimes
       => (todo'[c] \in OpenPlans \/ Removes(c)') /\ arg'[c].id = arg[c].id
\* ... and no event either.
Quiet(c) ==
  /\ Gentle(c) /\ heard' = heard
  /\ todo[c] \notin {Announces, Tells, TellsBoth, TellsThenEnds, TellsBothThenEnds}

LEMMA GentleSteps ==
  ASSUME PlacesInv, NEW c \in Callers, Gentle(c), EventsFollow', heard' \subseteq used
  PROVE  PlacesInv'
<1>0. /\ Typed /\ OneKind /\ OneOpener /\ Listing /\ NoRuntime /\ RuntimesFollow /\ EventsFollow
      /\ Moves(c) /\ UNCHANGED <<used, profiles, listed, selected, runtimes>>
  BY DEF PlacesInv, Gentle
<1>1. Workspaces!Published' = Workspaces!Published
  BY <1>0 DEF Workspaces!Published, Workspaces!ToSet
<1>2. Typed'
  BY <1>0, <1>1, TypedMove DEF Gentle, Typed, Workspaces!TypeOK
<1>3. \A d \in Callers \ {c} :
        /\ todo'[d] = todo[d] /\ arg'[d] = arg[d] /\ (Idles(d)' <=> Idles(d))
        /\ (Opens(d)' <=> Opens(d)) /\ (Removes(d)' <=> Removes(d))
  BY <1>0, OthersStay
<1>4. OneKind'
  <2>1. \A d \in Callers : ~Idles(d)' => profiles'[arg'[d].id] \in {NoKind, arg'[d].kind}
    BY <1>0, <1>3 DEF Gentle, OneKind
  <2>2. ASSUME NEW d \in Callers, NEW e \in Callers, About(d, arg[e].id)', ~Idles(e)'
        PROVE  arg'[d].kind = arg'[e].kind
    BY <1>0, <1>3, <2>2 DEF Gentle, OneKind, About
  <2> QED
    BY <2>1, <2>2 DEF OneKind
<1>5. OneOpener'
  BY <1>0, <1>3 DEF Gentle, OneOpener
<1>6. Listing'
  BY <1>0, <1>1, <1>3 DEF Gentle, Listing
<1>7. NoRuntime'
  <2>1. \A d \in Callers : todo'[d] \in OpenPlans \cup {Revokes,
          DrainsFirst} => arg'[d].id \notin runtimes
    BY <1>0, <1>3 DEF Gentle, NoRuntime
  <2>2. Revokes \notin OpenPlans
    BY Heads, Differ DEF OpenPlans
  <2>3. \A d, e \in Callers : todo'[d] \in OpenPlans /\ arg'[d].kind = "ssh" /\ todo'[e] = Revokes
                               => arg'[e].id # arg'[d].id
    BY <1>0, <1>3, <2>2 DEF Gentle, NoRuntime
  <2> QED
    BY <1>0, <2>1, <2>3 DEF NoRuntime
<1>8. RuntimesFollow'
  <2>1. ASSUME NEW id \in runtimes \ Workspaces!Published
        PROVE  \E d \in Callers : About(d, id)' /\ todo'[d] \in EndPlans
    <3>1. PICK d \in Callers : About(d, id) /\ todo[d] \in EndPlans
      BY <1>0 DEF RuntimesFollow
    <3> QED
      BY <1>2, <1>3, <3>1, EmptyPlan DEF Gentle, About, Idles
  <2>2. ASSUME NEW id \in Workspaces!Published \ runtimes
        PROVE  \E d \in Callers : About(d, id)' /\ (todo'[d] \in OpenPlans \/ Removes(d)')
    <3>1. PICK d \in Callers : About(d, id) /\ (todo[d] \in OpenPlans \/ Removes(d))
      BY <1>0 DEF RuntimesFollow
    <3> QED
      BY <1>2, <1>3, <3>1, EmptyPlan DEF Gentle, About, Idles, Removes
  <2> QED
    BY <1>0, <1>1, <2>1, <2>2 DEF RuntimesFollow
<1> QED
  BY <1>2, <1>4, <1>5, <1>6, <1>7, <1>8 DEF PlacesInv

LEMMA QuietSteps ==
  ASSUME PlacesInv, NEW c \in Callers, Quiet(c)
  PROVE  PlacesInv'
<1>0. /\ Typed /\ EventsFollow /\ Moves(c) /\ UNCHANGED <<listed, heard>> /\ Gentle(c)
  BY DEF PlacesInv, Quiet, Gentle
<1>1. Workspaces!Published' = Workspaces!Published
  BY <1>0 DEF Workspaces!Published, Workspaces!ToSet
<1>3. \A d \in Callers \ {c} : todo'[d] = todo[d] /\ arg'[d] = arg[d] /\ (Idles(d)' <=> Idles(d))
  BY <1>0, OthersStay
<1>4. EventsFollow'
  <2>1. ASSUME NEW id \in Workspaces!Published \ heard
        PROVE  \E d \in Callers : About(d, id)' /\ todo'[d] = Announces
    <3>1. PICK d \in Callers : About(d, id) /\ todo[d] = Announces
      BY <1>0 DEF EventsFollow
    <3> QED
      BY <1>3, <3>1 DEF Quiet, About
  <2>2. ASSUME NEW id \in heard \ Workspaces!Published
        PROVE  \E d \in Callers : /\ About(d, id)'
                                  /\ todo'[d] \in {Tells, TellsBoth, TellsThenEnds,
                                       TellsBothThenEnds}
    <3>1. PICK d \in Callers : /\ About(d, id)
                               /\ todo[d] \in {Tells, TellsBoth, TellsThenEnds, TellsBothThenEnds}
      BY <1>0 DEF EventsFollow
    <3> QED
      BY <1>3, <3>1 DEF Quiet, About
  <2> QED
    BY <1>0, <1>1, <2>1, <2>2 DEF EventsFollow
<1>5. heard' \subseteq used
  BY <1>0 DEF Typed, Workspaces!TypeOK
<1> QED
  BY <1>0, <1>4, <1>5, GentleSteps

-----------------------------------------------------------------------------
(* Workspace: the steps that leave the places alone                        *)

PlacesStay == UNCHANGED <<used, profiles, listed, selected, runtimes, heard>>

\* The end of an operation, or its failure.
LEMMA QuietReturn ==
  ASSUME PlacesInv, NEW c \in Callers, Moves(c), PlacesStay, WatchTypes,
         todo'[c] = <<>>, arg'[c] = Workspaces!NoArg,
         todo[c] \notin OpenPlans \cup EndPlans \cup {Tells, TellsBoth},
         Removes(c) => arg[c].id \notin Workspaces!Published
  PROVE  PlacesInv'
<1>1. <<>> \notin OpenPlans \cup TellPlans \cup EndPlans \cup WatchPlans \cup
         {SendsEnvironment, ListsLocal, Stops, StopsFirst, DrainsFirst, Revokes, RevokesFirst,
           Drains}
  BY EmptyPlan
<1>2. ~Undoes(c)' /\ arg'[c].watch = NoWatch
  BY DEF Undoes, Workspaces!NoArg
<1>3. Fits(c)'
  BY <1>1, <1>2 DEF Fits, Idles, Plans, WatchPlans
<1>4. Quiet(c)
  <2>1. Idles(c)' /\ ~Opens(c)' /\ todo'[c] \notin OpenPlans
    BY <1>1, <1>2 DEF Idles, Opens
  <2>2. Announces \notin {todo[c], todo'[c]}
    BY <1>1 DEF OpenPlans
  <2>3. todo[c] \notin EndPlans /\ todo[c] \notin {Tells, TellsBoth, TellsThenEnds,
          TellsBothThenEnds}
    BY DEF EndPlans
  <2> QED
    BY <1>1, <1>3, <2>1, <2>2, <2>3 DEF Quiet, Gentle, PlacesStay
<1> QED
  BY <1>4, QuietSteps

\* The beginning of a close, or of a change of a watch.
LEMMA QuietBegin ==
  ASSUME PlacesInv, NEW c \in Callers, Moves(c), PlacesStay, WatchTypes, Idles(c),
         arg'[c].undo = FALSE, arg'[c].watch = NoWatch,
         NEW id \in used, arg'[c].id = id, NEW kind \in Protocols, arg'[c].kind = kind,
         profiles[id] \in {NoKind, kind}, \A d \in Callers : About(d, id) => arg[d].kind = kind,
         \/ todo'[c] = Stops /\ kind = "ssh"
         \/ todo'[c] \in {RevokesFirst, StartsWatch, StopsWatch} /\ kind = "sftp"
         \/ todo'[c] = Revokes /\ kind = "database" /\ id \notin runtimes
  PROVE  PlacesInv'
<1> DEFINE Begun == {Stops, RevokesFirst, StartsWatch, StopsWatch, Revokes}
<1>1. /\ todo'[c] \in Begun \ {<<>>} /\ todo'[c] \notin {AddsWatch, InsertsWatch}
      /\ todo'[c] \notin OpenPlans \cup TellPlans \cup EndPlans
                          \cup {SendsEnvironment, ListsLocal, StopsFirst, DrainsFirst, Drains}
  <2>1. \A p \in {Stops, RevokesFirst, Revokes} :
          /\ p # <<>> /\ p \notin {AddsWatch, InsertsWatch}
          /\ p \notin OpenPlans \cup TellPlans \cup EndPlans
                          \cup {SendsEnvironment, ListsLocal, StopsFirst, DrainsFirst, Drains}
    BY Heads, Differ, EmptyPlan DEF OpenPlans, TellPlans, EndPlans
  <2>2. \A p \in {StartsWatch, StopsWatch} :
          /\ p # <<>> /\ p \notin {AddsWatch, InsertsWatch}
          /\ p \notin OpenPlans \cup TellPlans \cup EndPlans
                          \cup {SendsEnvironment, ListsLocal, StopsFirst, DrainsFirst, Drains}
    BY Heads, Differ, EmptyPlan DEF OpenPlans, TellPlans, EndPlans, WatchPlans
  <2> QED
    BY <2>1, <2>2
<1>2. ~Undoes(c)' /\ ~Idles(c)'
  BY <1>1 DEF Undoes, Idles
<1>3. Fits(c)'
  <2>1. todo'[c] \in Plans
    BY DEF Plans, WatchPlans
  <2>2. used' = used
    BY DEF PlacesStay
  <2>3. Stops \notin WatchPlans /\ Revokes \notin WatchPlans /\ Revokes # Stops
        /\ Revokes # RevokesFirst /\ RevokesFirst # Stops /\ Stops \notin {StartsWatch, StopsWatch}
        /\ Revokes \notin {StartsWatch, StopsWatch}
    BY Heads, Differ, EmptyPlan DEF WatchPlans
  <2>4. /\ todo'[c] \in WatchPlans \cup {RevokesFirst} => kind = "sftp"
        /\ todo'[c] = Stops => kind = "ssh"
        /\ todo'[c] = Revokes => kind = "database"
    BY <2>3 DEF WatchPlans
  <2> QED
    BY <1>1, <1>2, <2>1, <2>2, <2>4 DEF Fits
<1>4. Quiet(c)
  <2>1. <<>> \notin OpenPlans \cup TellPlans \cup EndPlans \cup {Stops, StopsFirst, DrainsFirst,
          Revokes}
    BY EmptyPlan
  <2>2. ~Opens(c)' /\ ~Removes(c) /\ todo[c] \notin OpenPlans \cup EndPlans
    BY <1>1, <1>2, <2>1 DEF Opens, Removes, Idles
  <2>3. Announces \notin {todo[c], todo'[c]}
    BY <1>1, <2>1 DEF Idles, OpenPlans
  <2>4. todo[c] \notin {Tells, TellsBoth, TellsThenEnds, TellsBothThenEnds}
    BY <2>1 DEF Idles, TellPlans, EndPlans
  <2>5. ASSUME todo'[c] = Revokes
        PROVE  id \notin runtimes /\ kind = "database"
    BY <2>5, Heads, Differ
  <2>6. \A d \in Callers \ {c} : todo[d] \in OpenPlans /\ arg[d].kind = "ssh" /\ todo'[c] = Revokes
                                   => arg[d].id # id
    <3>1. ASSUME NEW d \in Callers, todo[d] \in OpenPlans, arg[d].kind = "ssh", arg[d].id = id
          PROVE  kind = "ssh"
      BY <2>1, <3>1 DEF About, Idles
    <3> QED
      BY <2>5, <3>1
  <2> QED
    BY <1>1, <1>3, <2>2, <2>3, <2>4, <2>5, <2>6 DEF Quiet, Gentle, PlacesStay
<1> QED
  BY <1>4, QuietSteps

\* A step to the next of the same operation.
LEMMA QuietAdvance ==
  ASSUME PlacesInv, NEW c \in Callers, Moves(c), PlacesStay, WatchTypes,
         arg'[c].id = arg[c].id, arg'[c].kind = arg[c].kind, arg'[c].undo = arg[c].undo,
         \/ /\ \/ todo[c] = Selects /\ todo'[c] = Starts
               \/ todo[c] = TellsSelectedThenEnds /\ todo'[c] = Ends
               \/ todo[c] = DrainsFirst /\ todo'[c] = Revokes
               \/ todo[c] = StopsWatch /\ todo'[c] = RemovesWatch
            /\ arg'[c] = arg[c]
         \/ todo[c] = StartsWatch /\ todo'[c] = AddsWatch /\ arg'[c].watch # NoWatch
         \/ todo[c] = AddsWatch /\ todo'[c] = InsertsWatch /\ arg'[c].watch # NoWatch
  PROVE  PlacesInv'
<1>0. Fits(c) /\ used' = used
  BY DEF PlacesInv, Typed, PlacesStay
<1>1. CASE todo[c] = Selects /\ todo'[c] = Starts /\ arg'[c] = arg[c]
  <2>1. Starts \notin TellPlans \cup EndPlans \cup WatchPlans \cup {<<>>, SendsEnvironment,
          ListsLocal,
          Stops, StopsFirst, DrainsFirst, Revokes, RevokesFirst, Drains}
    <3>1. Starts \notin TellPlans \cup EndPlans \cup WatchPlans
      BY Heads DEF TellPlans, EndPlans, WatchPlans
    <3>2. Starts \notin {SendsEnvironment, ListsLocal, Stops, StopsFirst, DrainsFirst, Revokes,
            RevokesFirst,
                         Drains}
      BY Heads
    <3>3. Starts # <<>>
      BY EmptyPlan DEF OpenPlans
    <3> QED
      BY <3>1, <3>2, <3>3
  <2>2. /\ Selects \notin TellPlans \cup EndPlans \cup WatchPlans \cup {<<>>, Announces, Revokes,
             DrainsFirst}
        /\ Starts # Announces /\ {Starts, Selects} \subseteq OpenPlans
    BY Heads, Differ, EmptyPlan DEF OpenPlans, TellPlans, EndPlans, WatchPlans
  <2>3. Fits(c)'
    BY <1>0, <1>1, <2>1, <2>2 DEF Fits, Plans, Idles, Undoes, WatchPlans
  <2>4. Quiet(c)
    BY <1>1, <2>1, <2>2, <2>3 DEF Quiet, Gentle, PlacesStay, PlacesInv, OneKind, About, Idles,
      Opens, TellPlans,
      EndPlans
  <2> QED
    BY <2>4, QuietSteps
<1>2. CASE todo[c] = TellsSelectedThenEnds /\ todo'[c] = Ends /\ arg'[c] = arg[c]
  <2>1. /\ Ends \notin OpenPlans \cup TellPlans \cup WatchPlans \cup {<<>>, SendsEnvironment,
             ListsLocal,
             Stops, StopsFirst, DrainsFirst, Revokes, RevokesFirst, Drains}
        /\ TellsSelectedThenEnds \notin OpenPlans \cup {<<>>, Revokes, Stops, StopsFirst,
             DrainsFirst,
             Tells, TellsBoth, TellsThenEnds, TellsBothThenEnds, SendsEnvironment, ListsLocal}
             \cup WatchPlans
        /\ {Ends, TellsSelectedThenEnds} \subseteq EndPlans
    <3>1. Ends \notin OpenPlans \cup TellPlans \cup WatchPlans
      BY Heads DEF OpenPlans, TellPlans, WatchPlans
    <3>2. Ends \notin {SendsEnvironment, ListsLocal, Stops, StopsFirst, DrainsFirst, Revokes,
                       RevokesFirst, Drains}
      BY Heads, Differ
    <3>3. TellsSelectedThenEnds \notin OpenPlans \cup WatchPlans
      BY Heads DEF OpenPlans, WatchPlans
    <3>4. TellsSelectedThenEnds \notin {Revokes, Stops, StopsFirst, DrainsFirst, Tells, TellsBoth,
             TellsThenEnds, TellsBothThenEnds, SendsEnvironment, ListsLocal}
      BY Heads
    <3>5. {Ends, TellsSelectedThenEnds} \subseteq EndPlans
      BY DEF EndPlans
    <3> QED
      BY <3>1, <3>2, <3>3, <3>4, <3>5, EmptyPlan
  <2>2. Fits(c)'
    BY <1>0, <1>2, <2>1 DEF Fits, Plans, Idles, Undoes, WatchPlans
  <2>3. ~Idles(c) /\ ~Undoes(c) /\ arg[c].id \notin Workspaces!Published
    BY <1>0, <1>2, <2>1 DEF Fits, Idles, PlacesInv, Listing
  <2>4. Quiet(c)
    BY <1>2, <2>1, <2>2, <2>3 DEF Quiet, Gentle, PlacesStay, PlacesInv, OneKind, About, Opens,
      Undoes, OpenPlans
  <2> QED
    BY <2>4, QuietSteps
<1>3. CASE todo[c] = DrainsFirst /\ todo'[c] = Revokes /\ arg'[c] = arg[c]
  <2>1. /\ Revokes \notin OpenPlans \cup TellPlans \cup WatchPlans \cup EndPlans \cup {<<>>,
             SendsEnvironment,
             ListsLocal, Stops, StopsFirst, DrainsFirst, RevokesFirst, Drains}
        /\ DrainsFirst \notin OpenPlans \cup EndPlans \cup TellPlans \cup {<<>>} \cup WatchPlans
    BY Heads, Differ, EmptyPlan DEF OpenPlans, TellPlans, EndPlans, WatchPlans
  <2>2. Fits(c)'
    BY <1>0, <1>3, <2>1 DEF Fits, Plans, Idles, Undoes, WatchPlans
  <2>3. /\ ~Idles(c) /\ Undoes(c) /\ arg[c].kind = "sftp" /\ arg[c].id \notin runtimes
    BY <1>0, <1>3, <2>1 DEF Fits, Idles, PlacesInv, NoRuntime
  <2>4. \A d \in Callers \ {c} : todo[d] \in OpenPlans => arg[d].id # arg[c].id
    BY <2>3 DEF PlacesInv, OneOpener, Opens
  <2>5. Removes(c)' /\ Opens(c)
    BY <1>3, <2>3 DEF Removes, Opens
  <2>6. Announces \notin {todo[c], todo'[c]}
    BY <1>3, <2>1 DEF OpenPlans
  <2>7. todo[c] \notin {Tells, TellsBoth, TellsThenEnds, TellsBothThenEnds}
    BY <1>3, <2>1 DEF TellPlans, EndPlans
  <2>8. Quiet(c)
    BY <1>3, <2>1, <2>2, <2>3, <2>4, <2>5, <2>6, <2>7 DEF Quiet, Gentle, PlacesStay, PlacesInv,
      OneKind, About
  <2> QED
    BY <2>8, QuietSteps
<1>4. CASE \/ todo[c] = StopsWatch /\ todo'[c] = RemovesWatch /\ arg'[c] = arg[c]
           \/ todo[c] = StartsWatch /\ todo'[c] = AddsWatch /\ arg'[c].watch # NoWatch
           \/ todo[c] = AddsWatch /\ todo'[c] = InsertsWatch /\ arg'[c].watch # NoWatch
  <2>1. \A p \in WatchPlans : p \notin OpenPlans \cup TellPlans \cup EndPlans \cup {<<>>,
          SendsEnvironment,
           ListsLocal, Stops, StopsFirst, DrainsFirst, Revokes, RevokesFirst, Drains}
    BY Heads, Differ, EmptyPlan DEF OpenPlans, TellPlans, EndPlans, WatchPlans
  <2>2. {todo[c], todo'[c]} \subseteq WatchPlans
    BY <1>4 DEF WatchPlans
  <2>3. ~Idles(c) /\ ~Undoes(c) /\ arg[c].kind = "sftp" /\ ~Idles(c)' /\ ~Undoes(c)'
        /\ arg[c].id \in used /\ arg[c].kind \in Protocols
    BY <1>0, <2>1, <2>2 DEF Fits, Idles, Undoes
  <2>4. arg'[c].watch # NoWatch <=> todo'[c] \in {AddsWatch, InsertsWatch}
    <3>1. StopsWatch \notin {AddsWatch, InsertsWatch} /\ RemovesWatch \notin {AddsWatch,
            InsertsWatch}
      BY Heads, Differ
    <3> QED
      BY <1>0, <1>4, <3>1 DEF Fits
  <2>5. todo'[c] \in Plans
    BY <2>2 DEF Plans
  <2>6. Fits(c)'
    BY <1>0, <2>1, <2>2, <2>3, <2>4, <2>5 DEF Fits
  <2>7. ~Opens(c)' /\ ~Removes(c)
    BY <2>1, <2>2, <2>3 DEF Opens, Removes
  <2>8. Announces \notin {todo[c], todo'[c]}
    BY <2>1, <2>2 DEF OpenPlans
  <2>9. todo[c] \notin {Tells, TellsBoth, TellsThenEnds, TellsBothThenEnds}
    BY <2>1, <2>2 DEF TellPlans, EndPlans
  <2>10. Quiet(c)
    BY <2>1, <2>2, <2>3, <2>6, <2>7, <2>8, <2>9 DEF Quiet, Gentle, PlacesStay, PlacesInv, OneKind,
      About
  <2> QED
    BY <2>10, QuietSteps
<1> QED
  BY <1>1, <1>2, <1>3, <1>4

\* An opening that failed begins its rollback.
LEMMA QuietUndo ==
  ASSUME PlacesInv, NEW c \in Callers, Moves(c), PlacesStay, WatchTypes,
         todo[c] \in {Starts, SendsEnvironment, ListsLocal},
         arg'[c].undo = TRUE, arg'[c].watch = arg[c].watch,
         arg'[c].id = arg[c].id, arg'[c].kind = arg[c].kind,
         \/ todo'[c] = Stops /\ arg[c].kind = "ssh"
         \/ todo'[c] = StopsFirst /\ arg[c].kind = "sftp"
         \/ todo'[c] = Revokes /\ arg[c].kind = "database"
  PROVE  PlacesInv'
<1>0. Fits(c) /\ used' = used
  BY DEF PlacesInv, Typed, PlacesStay
<1>1. /\ todo'[c] \notin OpenPlans \cup TellPlans \cup EndPlans \cup WatchPlans
                       \cup {<<>>, SendsEnvironment, ListsLocal, DrainsFirst, RevokesFirst, Drains}
      /\ todo[c] \notin TellPlans \cup EndPlans \cup WatchPlans
                       \cup {<<>>, Stops, StopsFirst, DrainsFirst, Revokes, Announces}
  BY Heads, Differ, EmptyPlan DEF OpenPlans, TellPlans, EndPlans, WatchPlans
<1>2. ~Idles(c) /\ ~Idles(c)' /\ Opens(c) /\ Undoes(c)' /\ arg[c].id \in used
      /\ arg[c].kind \in Protocols /\ arg[c].watch = NoWatch
  BY <1>0, <1>1 DEF Fits, Idles, Opens, Undoes, OpenPlans, WatchPlans
<1>3. /\ todo'[c] = Stops => arg[c].kind = "ssh"
      /\ todo'[c] = StopsFirst => arg[c].kind = "sftp"
      /\ todo'[c] = Revokes => arg[c].kind = "database"
  BY Heads, Differ
<1>4. todo'[c] \in Plans \cap {Stops, StopsFirst, Revokes}
  BY DEF Plans
<1>5. Fits(c)'
  BY <1>0, <1>1, <1>2, <1>3, <1>4 DEF Fits, WatchPlans, Idles, Undoes
<1>6. todo'[c] = Revokes => arg[c].id \notin runtimes
  <2>1. todo[c] # Starts => arg[c].kind # "database"
    BY <1>0 DEF Fits
  <2>2. todo[c] = Starts => arg[c].id \notin runtimes
    BY DEF PlacesInv, NoRuntime, OpenPlans
  <2> QED
    BY <1>3, <2>1, <2>2
<1>7. \A d \in Callers \ {c} : todo[d] \in OpenPlans => arg[d].id # arg[c].id
  BY <1>2 DEF PlacesInv, OneOpener, Opens
<1>8. Removes(c)' /\ Opens(c)'
  BY <1>2, <1>4 DEF Removes, Opens
<1>9. Announces \notin {todo[c], todo'[c]}
  BY <1>1 DEF OpenPlans
<1>10. todo[c] \notin {Tells, TellsBoth, TellsThenEnds, TellsBothThenEnds}
  BY <1>1 DEF TellPlans, EndPlans
<1>11. Quiet(c)
  BY <1>1, <1>2, <1>5, <1>6, <1>7, <1>8, <1>9, <1>10 DEF Quiet, Gentle, PlacesStay, PlacesInv,
    OneKind, About
<1> QED
  BY <1>11, QuietSteps

-----------------------------------------------------------------------------
(* Workspace: the steps that change the places                             *)

LEMMA Occupied ==
  ASSUME Typed, NEW d \in Callers,
         \/ Opens(d) \/ Removes(d)
         \/ todo[d] \in OpenPlans \cup TellPlans \cup EndPlans \cup WatchPlans
                          \cup {Revokes, DrainsFirst, Drains, Stops, StopsFirst}
  PROVE  ~Idles(d) /\ arg[d].id \in used /\ arg[d].id \in Ids /\ arg[d].kind \in Protocols
<1>1. ~Idles(d)
  BY EmptyPlan DEF Typed, Fits, Idles, Undoes, Opens, Removes, Workspaces!NoArg
<1> QED
  BY <1>1 DEF Typed, Fits, Workspaces!TypeOK

LEMMA PlacesOpen ==
  ASSUME PlacesInv, NEW c \in Callers, NEW id \in Ids, NEW kind \in Protocols,
         Workspaces!Open(c, id, kind)
  PROVE  PlacesInv'
<1>0. /\ Typed /\ OneKind /\ OneOpener /\ Listing /\ NoRuntime /\ RuntimesFollow /\ EventsFollow
  BY DEF PlacesInv
<1>1. /\ id \notin used /\ used' = used \cup {id} /\ selected' = id /\ listed' = Append(listed, id)
      /\ profiles' = [profiles EXCEPT ![id] = kind]
      /\ UNCHANGED <<runtimes, heard, watch, alive, workspacesShown>> /\ Idles(c)
      /\ Workspaces!Continue(c, Announces)
      /\ arg' = [arg EXCEPT ![c] = [Workspaces!NoArg EXCEPT !.id = id, !.kind = kind]]
  BY DEF Workspaces!Open, Workspaces!watchVars, Workspaces!Busy, Idles, Announces
<1>2. /\ Moves(c) /\ todo'[c] = Announces /\ arg'[c].id = id /\ arg'[c].kind = kind
      /\ arg'[c].undo = FALSE /\ arg'[c].watch = NoWatch
  BY <1>0, <1>1, BeginMoves
<1>3. /\ Workspaces!Published \subseteq used /\ runtimes \subseteq used /\ heard \subseteq used
      /\ listed \in Seq(Ids) /\ Workspaces!IsInjective(listed)
      /\ profiles \in [Ids -> Protocols \cup {NoKind}] /\ used \subseteq Ids
  BY <1>0 DEF Typed, Workspaces!TypeOK
<1>4. /\ listed' \in Seq(Ids) /\ Workspaces!IsInjective(listed')
      /\ Workspaces!Published' = Workspaces!Published \cup {id}
  BY <1>1, <1>3, AppendPublishes
<1>5. /\ Announces \in OpenPlans /\ Announces \in Plans
      /\ Announces \notin WatchPlans \cup TellPlans \cup EndPlans \cup {SendsEnvironment,
           ListsLocal, Stops,
           StopsFirst, DrainsFirst, Revokes, RevokesFirst, Drains, <<>>}
  BY Heads, Differ, EmptyPlan DEF OpenPlans, TellPlans, EndPlans, WatchPlans, Plans
<1>6. Fits(c)'
  BY <1>1, <1>2, <1>5 DEF Fits, Idles, Undoes, WatchPlans
<1>7. WatchTypes
  BY <1>0, <1>1 DEF WatchTypes, Typed, Workspaces!TypeOK
<1>8. Typed'
  BY <1>0, <1>1, <1>2, <1>3, <1>4, <1>6, <1>7, TypedMove
<1>9. \A d \in Callers \ {c} :
        /\ todo'[d] = todo[d] /\ arg'[d] = arg[d] /\ (Idles(d)' <=> Idles(d))
        /\ (Opens(d)' <=> Opens(d)) /\ (Removes(d)' <=> Removes(d))
  BY <1>0, <1>2, OthersStay
<1>10. \A d \in Callers : ~Idles(d) => arg[d].id # id
  BY <1>0, <1>1 DEF Typed, Fits
<1>11. ~Idles(c)'
  BY <1>2, <1>5 DEF Idles
<1>12. \A i \in Ids \ {id} : profiles'[i] = profiles[i]
  BY <1>1, <1>3
<1>13. profiles'[id] = kind /\ kind # NoKind
  BY <1>1, <1>3, WorkspacesAssumption
<1>14. OneKind'
  <2>1. \A d \in Callers : ~Idles(d)' => profiles'[arg'[d].id] \in {NoKind, arg'[d].kind}
    BY <1>0, <1>2, <1>3, <1>9, <1>10, <1>12, <1>13 DEF OneKind, Typed, Fits
  <2>2. \A d, e \in Callers : About(d, arg[e].id)' /\ ~Idles(e)' => arg'[d].kind = arg'[e].kind
    BY <1>0, <1>2, <1>9, <1>10 DEF OneKind, About
  <2> QED
    BY <2>1, <2>2 DEF OneKind
<1>15. \A d \in Callers \ {c} : Opens(d) => arg[d].id # id
  BY <1>0, <1>10, Occupied
<1>16. OneOpener'
  BY <1>0, <1>2, <1>9, <1>15 DEF OneOpener
<1>17. \A d \in Callers : todo[d] \in OpenPlans \cup TellPlans \cup EndPlans \cup {Drains,
         Revokes, DrainsFirst}
                            => arg[d].id # id
  BY <1>0, <1>10, Occupied
<1>18. Listing'
  <2>1. \A i \in Ids : profiles'[i] # NoKind <=> i \in Workspaces!Published'
    BY <1>0, <1>4, <1>12, <1>13 DEF Listing
  <2>2. \A d \in Callers : todo'[d] = Announces => arg'[d].id \in Workspaces!Published'
    BY <1>0, <1>2, <1>4, <1>9 DEF Listing
  <2>3. \A d \in Callers : todo'[d] \in OpenPlans /\ arg'[d].kind = "ssh"
          => arg'[d].id \in Workspaces!Published'
    BY <1>0, <1>2, <1>4, <1>9 DEF Listing
  <2>4. \A d \in Callers : todo'[d] \in TellPlans \cup EndPlans \cup {Drains}
                             => arg'[d].id \notin Workspaces!Published'
    BY <1>0, <1>2, <1>4, <1>5, <1>9, <1>17 DEF Listing
  <2> QED
    BY <1>1, <1>4, <2>1, <2>2, <2>3, <2>4 DEF Listing
<1>19. NoRuntime'
  <2>1. \A d \in Callers : todo'[d] \in OpenPlans \cup {Revokes,
          DrainsFirst} => arg'[d].id \notin runtimes
    BY <1>0, <1>1, <1>2, <1>3, <1>9 DEF NoRuntime
  <2>2. \A d, e \in Callers : todo'[d] \in OpenPlans /\ arg'[d].kind = "ssh" /\ todo'[e] = Revokes
                               => arg'[e].id # arg'[d].id
    BY <1>0, <1>2, <1>5, <1>9, <1>17 DEF NoRuntime
  <2>3. \A i \in Ids : profiles'[i] = "database" => i \notin runtimes
    BY <1>0, <1>1, <1>3, <1>12 DEF NoRuntime
  <2> QED
    BY <1>1, <2>1, <2>2, <2>3 DEF NoRuntime
<1>20. \A d \in Callers, i \in used : About(d, i) => d # c /\ About(d, i)'
  BY <1>1, <1>9 DEF About
<1>21. RuntimesFollow'
  <2>1. ASSUME NEW i \in runtimes \ Workspaces!Published'
        PROVE  \E d \in Callers : About(d, i)' /\ todo'[d] \in EndPlans
    BY <1>0, <1>3, <1>4, <1>9, <1>20 DEF RuntimesFollow
  <2>2. ASSUME NEW i \in Workspaces!Published' \ runtimes
        PROVE  \E d \in Callers : About(d, i)' /\ (todo'[d] \in OpenPlans \/ Removes(d)')
    <3>1. CASE i = id
      BY <1>2, <1>5, <1>11, <3>1 DEF About
    <3>2. CASE i # id
      <4>1. PICK d \in Callers : About(d, i) /\ (todo[d] \in OpenPlans \/ Removes(d))
        BY <1>0, <1>4, <3>2 DEF RuntimesFollow
      <4>2. d # c /\ About(d, i)'
        BY <1>3, <1>4, <1>20, <3>2, <4>1
      <4> QED
        BY <1>9, <4>1, <4>2
    <3> QED
      BY <3>1, <3>2
  <2> QED
    BY <1>1, <2>1, <2>2 DEF RuntimesFollow
<1>22. EventsFollow'
  <2>1. ASSUME NEW i \in Workspaces!Published' \ heard
        PROVE  \E d \in Callers : About(d, i)' /\ todo'[d] = Announces
    <3>1. CASE i = id
      BY <1>2, <1>11, <3>1 DEF About
    <3>2. CASE i # id
      <4>1. PICK d \in Callers : About(d, i) /\ todo[d] = Announces
        BY <1>0, <1>4, <3>2 DEF EventsFollow
      <4>2. d # c /\ About(d, i)'
        BY <1>3, <1>4, <1>20, <3>2, <4>1
      <4> QED
        BY <1>9, <4>1, <4>2
    <3> QED
      BY <3>1, <3>2
  <2>2. ASSUME NEW i \in heard \ Workspaces!Published'
        PROVE  \E d \in Callers : /\ About(d, i)'
                                  /\ todo'[d] \in {Tells, TellsBoth, TellsThenEnds,
                                       TellsBothThenEnds}
    BY <1>0, <1>3, <1>4, <1>9, <1>20 DEF EventsFollow
  <2> QED
    BY <1>1, <2>1, <2>2 DEF EventsFollow
<1> QED
  BY <1>8, <1>14, <1>16, <1>18, <1>19, <1>21, <1>22 DEF PlacesInv

\* The events of an opening and of a close, under the lock of the profiles.
LEMMA PlacesTold ==
  ASSUME PlacesInv, NEW c \in Callers, Moves(c), WatchTypes,
         UNCHANGED <<used, profiles, listed, selected, runtimes>>,
         \/ /\ todo[c] = Announces /\ todo'[c] = Selects /\ arg'[c] = arg[c]
            /\ heard' = heard \cup {arg[c].id}
         \/ /\ todo[c] = TellsBoth /\ todo'[c] = TellsSelected /\ arg'[c] = arg[c]
            /\ heard' = heard \ {arg[c].id}
         \/ /\ todo[c] = TellsThenEnds /\ todo'[c] = Ends /\ arg'[c] = arg[c]
            /\ heard' = heard \ {arg[c].id}
         \/ /\ todo[c] = TellsBothThenEnds /\ todo'[c] = TellsSelectedThenEnds /\ arg'[c] = arg[c]
            /\ heard' = heard \ {arg[c].id}
         \/ /\ todo[c] = Tells /\ todo'[c] = <<>> /\ arg'[c] = Workspaces!NoArg
            /\ heard' = heard \ {arg[c].id}
  PROVE  PlacesInv'
<1>0. /\ Typed /\ OneKind /\ Listing /\ EventsFollow /\ Fits(c) /\ used' = used
  BY DEF PlacesInv, Typed
<1> DEFINE Ending == {Tells, TellsBoth, TellsThenEnds, TellsBothThenEnds}
           Ended == {TellsSelected, Ends, TellsSelectedThenEnds, <<>>}
<1>1. todo[c] \in Ending \cup {Announces} /\ todo'[c] \in Ended \cup {Selects}
  OBVIOUS
<1>2. \A p \in {Announces, Selects} :
        /\ p \in OpenPlans /\ p \in Plans /\ p \notin Ending
        /\ p \notin TellPlans \cup EndPlans \cup WatchPlans \cup {<<>>, SendsEnvironment,
             ListsLocal,
             Stops, StopsFirst, DrainsFirst, Revokes, RevokesFirst, Drains}
  BY Heads, Differ, EmptyPlan DEF OpenPlans, TellPlans, EndPlans, WatchPlans, Plans
<1>3. \A p \in Ending \cup {TellsSelected, TellsSelectedThenEnds, Ends} :
        /\ p \in TellPlans \cup EndPlans /\ p \in Plans
        /\ p \notin OpenPlans \cup WatchPlans
        /\ p \notin {<<>>, SendsEnvironment, ListsLocal}
        /\ p \notin {Stops, StopsFirst, DrainsFirst, Revokes, RevokesFirst, Drains}
  <2>1. \A p \in Ending \cup {TellsSelected, TellsSelectedThenEnds} :
          p \notin {Stops, StopsFirst, DrainsFirst, Revokes, RevokesFirst, Drains}
    BY Heads
  <2>2. Ends \notin {Stops, StopsFirst, DrainsFirst, Revokes, RevokesFirst, Drains}
    BY Heads, Differ
  <2>3. \A p \in Ending \cup {TellsSelected, TellsSelectedThenEnds, Ends} :
          p \notin OpenPlans \cup WatchPlans /\ p \notin {SendsEnvironment, ListsLocal}
    BY Heads DEF OpenPlans, WatchPlans
  <2>4. \A p \in Ending \cup {TellsSelected, TellsSelectedThenEnds, Ends} :
          p \in TellPlans \cup EndPlans /\ p \in Plans
    BY DEF TellPlans, EndPlans, Plans
  <2> QED
    BY <2>1, <2>2, <2>3, <2>4, EmptyPlan
<1>4. ~Idles(c) /\ arg[c].id \in used /\ arg[c].kind \in Protocols
  BY <1>0, <1>1, <1>2, <1>3 DEF Fits, Idles
<1>5. heard' \subseteq used
  BY <1>0, <1>4 DEF Typed, Workspaces!TypeOK
<1>6. Workspaces!Published' = Workspaces!Published
  BY DEF Workspaces!Published, Workspaces!ToSet
<1>7. \A d \in Callers \ {c} : todo'[d] = todo[d] /\ arg'[d] = arg[d] /\ (Idles(d)' <=> Idles(d))
  BY <1>0, OthersStay
<1>8. CASE todo[c] = Announces /\ todo'[c] = Selects /\ arg'[c] = arg[c]
             /\ heard' = heard \cup {arg[c].id}
  <2>1. Fits(c)'
    BY <1>0, <1>2, <1>4, <1>8 DEF Fits, Idles, Undoes, WatchPlans
  <2>2. Selects # Announces
    BY Heads
  <2>3. Gentle(c)
    BY <1>0, <1>2, <1>4, <1>8, <2>1, <2>2 DEF Gentle, OneKind, About, Opens, Undoes, Removes
  <2>4. arg[c].id \in Workspaces!Published
    BY <1>0, <1>8 DEF Listing
  <2>5. \A i \in Workspaces!Published \ heard' : \E d \in Callers : About(d,
          i)' /\ todo'[d] = Announces
    <3> SUFFICES ASSUME NEW i \in Workspaces!Published \ heard'
                 PROVE  \E d \in Callers : About(d, i)' /\ todo'[d] = Announces
      OBVIOUS
    <3>1. PICK d \in Callers : About(d, i) /\ todo[d] = Announces
      BY <1>0, <1>8 DEF EventsFollow
    <3>2. d # c
      BY <1>8, <3>1 DEF About
    <3> QED
      BY <1>7, <3>1, <3>2 DEF About
  <2>6. \A i \in heard' \ Workspaces!Published : \E d \in Callers : About(d,
          i)' /\ todo'[d] \in Ending
    <3> SUFFICES ASSUME NEW i \in heard' \ Workspaces!Published
                 PROVE  \E d \in Callers : About(d, i)' /\ todo'[d] \in Ending
      OBVIOUS
    <3>1. PICK d \in Callers : About(d, i) /\ todo[d] \in Ending
      BY <1>0, <1>8, <2>4 DEF EventsFollow
    <3>2. d # c
      BY <1>2, <1>8, <3>1
    <3> QED
      BY <1>7, <3>1, <3>2 DEF About
  <2> QED
    BY <1>5, <1>6, <2>3, <2>5, <2>6, GentleSteps DEF EventsFollow
<1>9. CASE todo[c] \in Ending /\ todo'[c] \in Ended /\ heard' = heard \ {arg[c].id}
  <2>1. arg[c].id \notin Workspaces!Published
    BY <1>0, <1>3, <1>9 DEF Listing
  <2>2. Gentle(c) /\ Fits(c)'
    <3>1. CASE todo[c] = Tells /\ todo'[c] = <<>> /\ arg'[c] = Workspaces!NoArg
      <4>1. Idles(c)' /\ ~Undoes(c)' /\ arg'[c].watch = NoWatch
        BY <3>1 DEF Idles, Undoes, Workspaces!NoArg
      <4>2. Fits(c)'
        BY <3>1, <4>1, EmptyPlan DEF Fits, Idles, Plans, WatchPlans
      <4>3. Tells \notin EndPlans /\ Announces # <<>>
        BY Heads, Differ, EmptyPlan DEF EndPlans, OpenPlans
      <4> QED
        BY <1>3, <2>1, <3>1, <4>1, <4>2, <4>3, EmptyPlan DEF Gentle, Opens, Removes
    <3>2. CASE todo[c] = TellsBoth /\ todo'[c] = TellsSelected /\ arg'[c] = arg[c]
      <4>1. /\ {TellsBoth, TellsSelected} \subseteq TellPlans /\ TellsBoth \notin EndPlans
            /\ TellsSelected \notin EndPlans
        BY Heads, Differ DEF TellPlans, EndPlans
      <4>2. Fits(c)'
        BY <1>0, <1>3, <1>4, <3>2, <4>1 DEF Fits, Idles, Undoes, WatchPlans
      <4> QED
        BY <1>0, <1>3, <1>4, <2>1, <3>2, <4>1, <4>2 DEF Gentle, OneKind, About, Opens, Undoes,
          Removes,
           OpenPlans
    <3>3. CASE /\ \/ todo[c] = TellsThenEnds /\ todo'[c] = Ends
                  \/ todo[c] = TellsBothThenEnds /\ todo'[c] = TellsSelectedThenEnds
               /\ arg'[c] = arg[c]
      <4>1. {todo[c], todo'[c]} \subseteq EndPlans
        BY <3>3 DEF EndPlans
      <4>2. \A p \in EndPlans : p \notin TellPlans
        BY Heads, Differ DEF TellPlans, EndPlans
      <4>3. Fits(c)'
        BY <1>0, <1>3, <1>4, <3>3, <4>1, <4>2 DEF Fits, Idles, Undoes, WatchPlans
      <4>4. ~Undoes(c)
        BY <1>0, <4>1 DEF Fits
      <4> QED
        BY <1>0, <1>3, <1>4, <2>1, <3>3, <4>1, <4>3, <4>4 DEF Gentle, OneKind, About, Opens, Undoes,
           Removes, OpenPlans
    <3> QED
      BY <1>2, <1>9, <3>1, <3>2, <3>3
  <2>3. \A i \in Workspaces!Published \ heard' : \E d \in Callers : About(d,
          i)' /\ todo'[d] = Announces
    <3> SUFFICES ASSUME NEW i \in Workspaces!Published \ heard'
                 PROVE  \E d \in Callers : About(d, i)' /\ todo'[d] = Announces
      OBVIOUS
    <3>1. PICK d \in Callers : About(d, i) /\ todo[d] = Announces
      BY <1>0, <1>9, <2>1 DEF EventsFollow
    <3>2. d # c
      BY <2>1, <3>1 DEF About
    <3> QED
      BY <1>7, <3>1, <3>2 DEF About
  <2>4. \A i \in heard' \ Workspaces!Published : \E d \in Callers : About(d,
          i)' /\ todo'[d] \in Ending
    <3> SUFFICES ASSUME NEW i \in heard' \ Workspaces!Published
                 PROVE  \E d \in Callers : About(d, i)' /\ todo'[d] \in Ending
      OBVIOUS
    <3>1. PICK d \in Callers : About(d, i) /\ todo[d] \in Ending
      BY <1>0, <1>9 DEF EventsFollow
    <3>2. d # c
      BY <1>9, <3>1 DEF About
    <3> QED
      BY <1>7, <3>1, <3>2 DEF About
  <2> QED
    BY <1>5, <1>6, <2>2, <2>3, <2>4, GentleSteps DEF EventsFollow
<1> QED
  BY <1>8, <1>9

\* A runtime begins while its workspace is published.
LEMMA PlacesRun ==
  ASSUME PlacesInv, NEW c \in Callers, Moves(c), WatchTypes,
         UNCHANGED <<used, profiles, listed, selected, heard>>,
         todo[c] = Starts, arg[c].id \in Workspaces!Published, arg[c].kind \in {"ssh", "sftp"},
         runtimes' = runtimes \cup {arg[c].id},
         \/ todo'[c] = <<>> /\ arg'[c] = Workspaces!NoArg
         \/ /\ \/ todo'[c] = SendsEnvironment /\ arg[c].kind = "ssh"
               \/ todo'[c] = ListsLocal /\ arg[c].kind = "sftp"
            /\ arg'[c] = arg[c]
  PROVE  PlacesInv'
<1>0. /\ Typed /\ OneKind /\ OneOpener /\ Listing /\ NoRuntime /\ RuntimesFollow /\ EventsFollow
      /\ Fits(c) /\ used' = used
  BY DEF PlacesInv, Typed
<1>1. /\ Starts \in OpenPlans /\ Starts # Announces
      /\ Starts \notin TellPlans \cup EndPlans \cup WatchPlans \cup {<<>>, SendsEnvironment,
           ListsLocal,
             Stops, StopsFirst, DrainsFirst, Revokes, RevokesFirst, Drains}
  BY Heads, Differ, EmptyPlan DEF OpenPlans, TellPlans, EndPlans, WatchPlans
<1>2. \A p \in {<<>>, SendsEnvironment, ListsLocal} :
        /\ p \in Plans
        /\ p \notin OpenPlans \cup TellPlans \cup EndPlans \cup WatchPlans
             \cup {Stops, StopsFirst, DrainsFirst, Revokes, RevokesFirst, Drains}
  BY Heads, Differ, EmptyPlan DEF OpenPlans, TellPlans, EndPlans, WatchPlans, Plans
<1>3. SendsEnvironment # ListsLocal /\ <<>> \notin {SendsEnvironment, ListsLocal}
  BY Heads, EmptyPlan
<1>4. todo'[c] \in {<<>>, SendsEnvironment, ListsLocal}
  OBVIOUS
<1>5. ~Idles(c) /\ Opens(c) /\ ~Undoes(c) /\ arg[c].id \in used /\ arg[c].kind \in Protocols
      /\ arg[c].watch = NoWatch /\ arg[c].id \in Ids
  BY <1>0, <1>1 DEF Fits, Idles, Opens, OpenPlans, WatchPlans, Typed, Workspaces!TypeOK
<1>6. /\ ~Undoes(c)' /\ arg'[c].watch = NoWatch
      /\ ~Idles(c)' => arg'[c] = arg[c]
  BY <1>3, <1>5 DEF Idles, Undoes, Workspaces!NoArg
<1>7. Fits(c)'
  BY <1>2, <1>3, <1>4, <1>5, <1>6 DEF Fits, Idles, WatchPlans
<1>8. Workspaces!Published' = Workspaces!Published
  BY DEF Workspaces!Published, Workspaces!ToSet
<1>9. Typed'
  BY <1>0, <1>5, <1>7, <1>8, TypedMove DEF Typed, Workspaces!TypeOK
<1>10. \A d \in Callers \ {c} :
         /\ todo'[d] = todo[d] /\ arg'[d] = arg[d] /\ (Idles(d)' <=> Idles(d))
         /\ (Opens(d)' <=> Opens(d)) /\ (Removes(d)' <=> Removes(d))
  BY <1>0, OthersStay
<1>11. OneKind'
  <2>1. \A d \in Callers : ~Idles(d)' => profiles'[arg'[d].id] \in {NoKind, arg'[d].kind}
    BY <1>0, <1>5, <1>6, <1>10 DEF OneKind
  <2>2. \A d, e \in Callers : About(d, arg[e].id)' /\ ~Idles(e)' => arg'[d].kind = arg'[e].kind
    BY <1>0, <1>5, <1>6, <1>10 DEF OneKind, About
  <2> QED
    BY <2>1, <2>2 DEF OneKind
<1>12. Opens(c)' => arg'[c].id = arg[c].id
  BY <1>2, <1>3, <1>4, <1>6 DEF Opens, Idles
<1>13. OneOpener'
  BY <1>0, <1>5, <1>10, <1>12 DEF OneOpener
<1>14. Listing'
  BY <1>0, <1>2, <1>4, <1>8, <1>10 DEF Listing, OpenPlans
<1>15. \A d \in Callers \ {c} : todo[d] \in OpenPlans \cup {Revokes,
         DrainsFirst} => arg[d].id # arg[c].id
  <2>1. \A d \in Callers \ {c} : Opens(d) => arg[d].id # arg[c].id
    BY <1>0, <1>5 DEF OneOpener
  <2>2. \A d \in Callers \ {c} : todo[d] \in OpenPlans \cup {DrainsFirst} => arg[d].id # arg[c].id
    BY <1>0, <2>1 DEF Opens, Typed, Fits
  <2>3. ASSUME NEW d \in Callers \ {c}, todo[d] = Revokes, arg[d].id = arg[c].id PROVE FALSE
    <3>1. arg[c].kind = "sftp"
      BY <1>0, <1>1, <2>3 DEF NoRuntime
    <3>2. ~Idles(d) /\ arg[d].kind = "sftp"
      BY <1>0, <1>5, <2>3, <3>1, Occupied DEF OneKind, About
    <3>3. Undoes(d)
      BY <1>0, <2>3, <3>2 DEF Typed, Fits
    <3> QED
      BY <2>1, <2>3, <3>3 DEF Opens
  <2> QED
    BY <2>2, <2>3
<1>16. NoRuntime'
  <2>1. \A d \in Callers : todo'[d] \in OpenPlans \cup {Revokes,
          DrainsFirst} => arg'[d].id \notin runtimes'
    BY <1>0, <1>2, <1>4, <1>10, <1>15 DEF NoRuntime
  <2>2. \A d, e \in Callers : todo'[d] \in OpenPlans /\ arg'[d].kind = "ssh" /\ todo'[e] = Revokes
                               => arg'[e].id # arg'[d].id
    BY <1>0, <1>2, <1>4, <1>10 DEF NoRuntime
  <2>3. \A i \in Ids : profiles'[i] = "database" => i \notin runtimes'
    <3>1. profiles[arg[c].id] # "database"
      BY <1>0, <1>5, WorkspacesAssumption DEF OneKind, Protocols
    <3> QED
      BY <1>0, <3>1 DEF NoRuntime
  <2> QED
    BY <2>1, <2>2, <2>3 DEF NoRuntime
<1>17. RuntimesFollow'
  <2>1. ASSUME NEW i \in runtimes' \ Workspaces!Published
        PROVE  \E d \in Callers : About(d, i)' /\ todo'[d] \in EndPlans
    <3>1. PICK d \in Callers : About(d, i) /\ todo[d] \in EndPlans
      BY <1>0 DEF RuntimesFollow
    <3> QED
      BY <1>1, <1>10, <3>1 DEF About
  <2>2. ASSUME NEW i \in Workspaces!Published \ runtimes'
        PROVE  \E d \in Callers : About(d, i)' /\ (todo'[d] \in OpenPlans \/ Removes(d)')
    <3>1. PICK d \in Callers : About(d, i) /\ (todo[d] \in OpenPlans \/ Removes(d))
      BY <1>0 DEF RuntimesFollow
    <3>2. d # c
      BY <3>1 DEF About
    <3> QED
      BY <1>10, <3>1, <3>2 DEF About
  <2> QED
    BY <1>8, <2>1, <2>2 DEF RuntimesFollow
<1>18. EventsFollow'
  BY <1>0, <1>1, <1>8, <1>10 DEF EventsFollow, About, TellPlans, EndPlans
<1> QED
  BY <1>9, <1>11, <1>13, <1>14, <1>16, <1>17, <1>18 DEF PlacesInv

\* A runtime ends.
LEMMA PlacesStop ==
  ASSUME PlacesInv, NEW c \in Callers, Moves(c), WatchTypes,
         UNCHANGED <<used, profiles, listed, selected, heard>>, arg'[c] = arg[c],
         runtimes' = runtimes \ {arg[c].id},
         \/ todo[c] = Stops /\ todo'[c] = Revokes /\ (arg[c].id \in runtimes \/ Undoes(c))
         \/ todo[c] = StopsFirst /\ todo'[c] = DrainsFirst
         \/ todo[c] = Ends /\ todo'[c] = Drains
  PROVE  PlacesInv'
<1>0. /\ Typed /\ OneKind /\ OneOpener /\ Listing /\ NoRuntime /\ RuntimesFollow /\ EventsFollow
      /\ Fits(c) /\ used' = used
  BY DEF PlacesInv, Typed
<1>1. \A p \in {Stops, StopsFirst, Revokes, DrainsFirst, Drains} :
        /\ p \in Plans
        /\ p \notin OpenPlans \cup TellPlans \cup EndPlans \cup WatchPlans
             \cup {<<>>, SendsEnvironment, ListsLocal, RevokesFirst}
  BY Heads, Differ, EmptyPlan DEF OpenPlans, TellPlans, EndPlans, WatchPlans, Plans
<1>2. /\ Ends \in EndPlans
      /\ Ends \notin OpenPlans \cup TellPlans \cup WatchPlans
           \cup {<<>>, SendsEnvironment, ListsLocal, RevokesFirst, Stops, StopsFirst, DrainsFirst,
             Revokes}
  <2>1. Ends \notin OpenPlans \cup TellPlans \cup WatchPlans
    BY Heads DEF OpenPlans, TellPlans, WatchPlans
  <2>2. Ends \notin {SendsEnvironment, ListsLocal, RevokesFirst, Stops, StopsFirst, DrainsFirst,
          Revokes}
    BY Heads, Differ
  <2> QED
    BY <2>1, <2>2, EmptyPlan DEF EndPlans
<1>3. /\ Revokes \notin {DrainsFirst, Drains, StopsFirst, Stops} /\ DrainsFirst \notin {Drains,
           Stops, StopsFirst}
      /\ Drains \notin {Stops, StopsFirst} /\ Stops # StopsFirst
  BY Heads, Differ
<1>4. todo[c] \in {Stops, StopsFirst, Ends} /\ todo'[c] \in {Revokes, DrainsFirst, Drains}
  OBVIOUS
<1>5. ~Idles(c) /\ arg[c].id \in used /\ arg[c].kind \in Protocols /\ arg[c].watch = NoWatch
  BY <1>0, <1>1, <1>2, <1>4 DEF Fits, Idles, WatchPlans
<1>6. /\ todo[c] = Stops => arg[c].kind = "ssh"
      /\ todo[c] = StopsFirst => arg[c].kind = "sftp" /\ Undoes(c)
      /\ todo[c] = Ends => arg[c].kind = "sftp" /\ ~Undoes(c)
           /\ arg[c].id \notin Workspaces!Published
  BY <1>0, <1>2 DEF Fits, Listing
<1>7. ~Idles(c)' /\ (Undoes(c)' <=> Undoes(c)) /\ todo'[c] \notin {AddsWatch, InsertsWatch}
  BY <1>1, <1>4 DEF Idles, Undoes, WatchPlans
<1>8. Fits(c)'
  BY <1>0, <1>1, <1>3, <1>4, <1>5, <1>6, <1>7 DEF Fits, Undoes
<1>9. Workspaces!Published' = Workspaces!Published
  BY DEF Workspaces!Published, Workspaces!ToSet
<1>10. Typed'
  BY <1>0, <1>8, <1>9, TypedMove DEF Typed, Workspaces!TypeOK
<1>11. \A d \in Callers \ {c} :
         /\ todo'[d] = todo[d] /\ arg'[d] = arg[d] /\ (Idles(d)' <=> Idles(d))
         /\ (Opens(d)' <=> Opens(d)) /\ (Removes(d)' <=> Removes(d))
  BY <1>0, OthersStay
<1>12. OneKind'
  <2>1. \A d \in Callers : ~Idles(d)' => profiles'[arg'[d].id] \in {NoKind, arg'[d].kind}
    BY <1>0, <1>5, <1>11 DEF OneKind
  <2>2. \A d, e \in Callers : About(d, arg[e].id)' /\ ~Idles(e)' => arg'[d].kind = arg'[e].kind
    BY <1>0, <1>5, <1>11 DEF OneKind, About
  <2> QED
    BY <2>1, <2>2 DEF OneKind
<1>13. Opens(c)' => Opens(c)
  BY <1>1, <1>4, <1>7 DEF Opens
<1>14. OneOpener'
  BY <1>0, <1>11, <1>13 DEF OneOpener
<1>15. Listing'
  <2>1. todo'[c] \in TellPlans \cup EndPlans \cup {Drains} => arg[c].id \notin Workspaces!Published
    BY <1>1, <1>3, <1>4, <1>6
  <2>2. todo'[c] \notin OpenPlans /\ todo'[c] # Announces
    BY <1>1, <1>4 DEF OpenPlans
  <2> QED
    BY <1>0, <1>9, <1>11, <2>1, <2>2 DEF Listing
<1>16. todo'[c] = Revokes =>
         \A d \in Callers \ {c} : todo[d] \in OpenPlans /\ arg[d].kind = "ssh"
           => arg[d].id # arg[c].id
  <2> SUFFICES ASSUME todo'[c] = Revokes, NEW d \in Callers \ {c}, todo[d] \in OpenPlans,
                      arg[d].id = arg[c].id
               PROVE  FALSE
    OBVIOUS
  <2>1. CASE arg[c].id \in runtimes
    BY <1>0, <2>1 DEF NoRuntime
  <2>2. CASE Undoes(c)
    BY <1>0, <2>2 DEF OneOpener, Opens
  <2> QED
    BY <1>3, <2>1, <2>2
<1>17. NoRuntime'
  <2>1. \A d \in Callers : todo'[d] \in OpenPlans \cup {Revokes,
          DrainsFirst} => arg'[d].id \notin runtimes'
    BY <1>0, <1>11 DEF NoRuntime
  <2>2. \A d, e \in Callers : todo'[d] \in OpenPlans /\ arg'[d].kind = "ssh" /\ todo'[e] = Revokes
                               => arg'[e].id # arg'[d].id
    BY <1>0, <1>1, <1>4, <1>11, <1>16 DEF NoRuntime
  <2>3. \A i \in Ids : profiles'[i] = "database" => i \notin runtimes'
    BY <1>0 DEF NoRuntime
  <2> QED
    BY <2>1, <2>2, <2>3 DEF NoRuntime
<1>18. RuntimesFollow'
  <2>1. ASSUME NEW i \in runtimes' \ Workspaces!Published
        PROVE  \E d \in Callers : About(d, i)' /\ todo'[d] \in EndPlans
    <3>1. PICK d \in Callers : About(d, i) /\ todo[d] \in EndPlans
      BY <1>0 DEF RuntimesFollow
    <3>2. d # c
      BY <3>1 DEF About
    <3> QED
      BY <1>11, <3>1, <3>2 DEF About
  <2>2. ASSUME NEW i \in Workspaces!Published \ runtimes'
        PROVE  \E d \in Callers : About(d, i)' /\ (todo'[d] \in OpenPlans \/ Removes(d)')
    <3>1. CASE i = arg[c].id
      <4>1. Removes(c)'
        BY <1>6, <1>7, <3>1 DEF Removes
      <4> QED
        BY <1>7, <3>1, <4>1 DEF About
    <3>2. CASE i # arg[c].id
      <4>1. PICK d \in Callers : About(d, i) /\ (todo[d] \in OpenPlans \/ Removes(d))
        BY <1>0, <3>2 DEF RuntimesFollow
      <4>2. d # c
        BY <3>2, <4>1 DEF About
      <4> QED
        BY <1>11, <4>1, <4>2 DEF About
    <3> QED
      BY <3>1, <3>2
  <2> QED
    BY <1>9, <2>1, <2>2 DEF RuntimesFollow
<1>19. EventsFollow'
  <2>1. todo[c] \notin {Announces, Tells, TellsBoth, TellsThenEnds, TellsBothThenEnds}
    BY Heads, <1>4
  <2> QED
    BY <1>0, <1>9, <1>11, <2>1 DEF EventsFollow, About
<1> QED
  BY <1>10, <1>12, <1>14, <1>15, <1>17, <1>18, <1>19 DEF PlacesInv

\* Another workspace is selected.
LEMMA PlacesSelect ==
  ASSUME PlacesInv, UNCHANGED <<used, profiles, listed, runtimes, heard, todo, arg, watch, alive,
           workspacesShown>>,
         selected' \in Workspaces!Published \cup {NoId}
  PROVE  PlacesInv'
<1>0. /\ Typed /\ OneKind /\ OneOpener /\ Listing /\ NoRuntime /\ RuntimesFollow /\ EventsFollow
  BY DEF PlacesInv
<1>1. Workspaces!Published' = Workspaces!Published
  BY DEF Workspaces!Published, Workspaces!ToSet
<1>2. Typed'
  BY <1>0, <1>1 DEF Typed, Workspaces!TypeOK, Fits, Idles, Undoes
<1>3. Listing'
  BY <1>0, <1>1 DEF Listing
<1>4. OneKind' /\ OneOpener' /\ NoRuntime'
  BY <1>0 DEF OneKind, OneOpener, NoRuntime, About, Idles, Opens, Undoes
<1>5. RuntimesFollow' /\ EventsFollow'
  BY <1>0, <1>1 DEF RuntimesFollow, EventsFollow, About, Idles, Removes, Undoes
<1> QED
  BY <1>2, <1>3, <1>4, <1>5 DEF PlacesInv

\* A workspace goes from the profiles and from the list.
LEMMA PlacesRevoked ==
  ASSUME PlacesInv, NEW c \in Callers, Workspaces!CloseSession(c)
  PROVE  PlacesInv'
<1> DEFINE id == arg[c].id
           Ending == {Tells, TellsBoth, TellsThenEnds, TellsBothThenEnds}
<1>0. /\ Typed /\ OneKind /\ OneOpener /\ Listing /\ NoRuntime /\ RuntimesFollow /\ EventsFollow
      /\ Fits(c)
  BY DEF PlacesInv, Typed
<1>1. /\ Workspaces!At(c, "closeSession") /\ Workspaces!ProfilesFree /\ profiles[id] # NoKind
      /\ profiles' = [profiles EXCEPT ![id] = NoKind]
      /\ listed' = Workspaces!RemoveAt(listed, Workspaces!Position(id))
      /\ selected' = IF selected = id THEN Workspaces!NeighbourOf(id) ELSE selected
      /\ workspacesShown' = workspacesShown \ {id}
      /\ UNCHANGED <<used, heard, runtimes, watch, alive, arg>>
      /\ todo' = [todo EXCEPT ![c] = (IF selected = id THEN TellsBoth ELSE Tells) \o Tail(todo[c])]
  BY DEF Workspaces!CloseSession, Workspaces!Continue, Tells, TellsBoth
<1>2. todo[c] \in {Revokes, RevokesFirst} /\ todo \in [Callers -> Plans]
        /\ arg \in [Callers -> Args]
  BY <1>0, <1>1, PlanOf DEF Typed, Workspaces!TypeOK, Args
<1>3. /\ todo[c] = Revokes => todo'[c] \in {Tells, TellsBoth}
      /\ todo[c] = RevokesFirst => todo'[c] \in {TellsThenEnds, TellsBothThenEnds}
  BY <1>1, <1>2, AfterRevoking
<1>4. Moves(c) /\ arg' = arg
  BY <1>1, <1>2 DEF Moves
<1>5. \A p \in {Revokes, RevokesFirst} :
        /\ p \in Plans
        /\ p \notin OpenPlans \cup TellPlans \cup EndPlans \cup WatchPlans
             \cup {<<>>, SendsEnvironment, ListsLocal, Stops, StopsFirst, DrainsFirst, Drains}
  BY Heads, Differ, EmptyPlan DEF OpenPlans, TellPlans, EndPlans, WatchPlans, Plans
<1>6. \A p \in Ending :
        /\ p \in Plans
        /\ p \notin OpenPlans \cup WatchPlans
             \cup {<<>>, SendsEnvironment, ListsLocal, Stops, StopsFirst, DrainsFirst, Drains,
               Revokes, RevokesFirst}
  <2>1. \A p \in Ending : p \notin OpenPlans \cup WatchPlans
    BY Heads DEF OpenPlans, WatchPlans
  <2>2. \A p \in Ending : p \notin {SendsEnvironment, ListsLocal, Stops, StopsFirst, DrainsFirst,
          Drains,
                                   Revokes, RevokesFirst}
    BY Heads
  <2> QED
    BY <2>1, <2>2, EmptyPlan DEF TellPlans, EndPlans, Plans
<1>7. /\ {Tells, TellsBoth} \subseteq TellPlans /\ Tells \notin EndPlans
           /\ TellsBoth \notin EndPlans
      /\ {TellsThenEnds, TellsBothThenEnds} \subseteq EndPlans
      /\ TellsThenEnds \notin TellPlans /\ TellsBothThenEnds \notin TellPlans
      /\ Revokes # RevokesFirst
  BY Heads, Differ DEF TellPlans, EndPlans
<1>8. todo'[c] \in Ending
  BY <1>2, <1>3
<1>9. /\ ~Idles(c) /\ id \in used /\ id \in Ids /\ arg[c].kind \in Protocols
           /\ arg[c].watch = NoWatch
      /\ todo[c] = RevokesFirst => arg[c].kind = "sftp" /\ ~Undoes(c)
      /\ todo[c] = Revokes /\ arg[c].kind = "sftp" => Undoes(c)
  BY <1>0, <1>2, <1>5 DEF Fits, Idles, Typed, Workspaces!TypeOK, WatchPlans
<1>10. ~Idles(c)' /\ (Undoes(c)' <=> Undoes(c)) /\ todo'[c] \notin {AddsWatch, InsertsWatch}
  BY <1>4, <1>6, <1>8 DEF Idles, Undoes, WatchPlans
<1>11. Fits(c)'
  <2>1. todo'[c] \in Plans
    BY <1>6, <1>8
  <2>2. todo'[c] \in TellPlans => todo[c] = Revokes
    BY <1>2, <1>3, <1>7
  <2>3. todo'[c] \in EndPlans => todo[c] = RevokesFirst
    BY <1>2, <1>3, <1>7
  <2>4. used' = used /\ arg'[c] = arg[c]
    BY <1>1
  <2> QED
    BY <1>6, <1>8, <1>9, <1>10, <2>1, <2>2, <2>3, <2>4 DEF Fits
<1>12. id \in Workspaces!Published /\ listed \in Seq(Ids) /\ Workspaces!IsInjective(listed)
  BY <1>0, <1>1, <1>9 DEF Listing, Typed, Workspaces!TypeOK
<1>13. /\ listed' \in Seq(Ids) /\ Workspaces!IsInjective(listed')
       /\ Workspaces!Published' = Workspaces!Published \ {id}
  <2>1. listed' = Workspaces!RemoveAt(listed, Workspaces!Position(id))
    BY <1>1
  <2> QED
    BY <1>12, <2>1, RemoveRevokes DEF Workspaces!Published
<1>14. selected' \in Workspaces!Published' \cup {NoId}
  BY <1>0, <1>1, <1>12, <1>13, NeighbourIsPublished DEF Listing
<1>15. /\ profiles' \in [Ids -> Protocols \cup {NoKind}] /\ profiles'[id] = NoKind
       /\ \A i \in Ids \ {id} : profiles'[i] = profiles[i]
  BY <1>0, <1>1, <1>9 DEF Typed, Workspaces!TypeOK
<1>16. /\ used \subseteq Ids /\ runtimes \subseteq used /\ heard \subseteq used
            /\ Workspaces!Published \subseteq used
       /\ watch \in [Ids -> Watches \cup {NoWatch}] /\ alive \subseteq Watches
            /\ workspacesShown \subseteq used
  BY <1>0 DEF Typed, Workspaces!TypeOK
<1>17. Typed'
  <2>1. WatchTypes
    BY <1>1, <1>16 DEF WatchTypes
  <2>2. selected' \in Ids \cup {NoId}
    BY <1>13, <1>14, <1>16
  <2> QED
    BY <1>0, <1>1, <1>4, <1>11, <1>13, <1>15, <1>16, <2>1, <2>2, TypedMove
<1>18. \A d \in Callers \ {c} :
         /\ todo'[d] = todo[d] /\ arg'[d] = arg[d] /\ (Idles(d)' <=> Idles(d))
         /\ (Opens(d)' <=> Opens(d)) /\ (Removes(d)' <=> Removes(d))
  BY <1>0, <1>4, OthersStay
<1>19. OneKind'
  <2>1. ASSUME NEW d \in Callers, ~Idles(d)'
        PROVE  profiles'[arg'[d].id] \in {NoKind, arg'[d].kind}
    <3>1. ~Idles(d) /\ arg[d].id \in Ids
      BY <1>0, <1>9, <1>16, <1>18, <2>1 DEF Typed, Fits
    <3> QED
      BY <1>0, <1>4, <1>15, <3>1 DEF OneKind
  <2>2. \A d, e \in Callers : About(d, arg[e].id)' /\ ~Idles(e)' => arg'[d].kind = arg'[e].kind
    BY <1>0, <1>4, <1>9, <1>18 DEF OneKind, About
  <2> QED
    BY <2>1, <2>2 DEF OneKind
<1>20. Opens(c)' => Opens(c)
  BY <1>6, <1>8, <1>10 DEF Opens
<1>21. OneOpener'
  BY <1>0, <1>4, <1>18, <1>20 DEF OneOpener
<1>22. \A d \in Callers : todo[d] # Announces
  BY <1>0, <1>1, PlanOf DEF Typed, Workspaces!ProfilesFree
<1>23. Listing'
  <2>1. \A i \in Ids : profiles'[i] # NoKind <=> i \in Workspaces!Published'
    BY <1>0, <1>13, <1>15 DEF Listing
  <2>2. \A d \in Callers : todo'[d] # Announces
    BY <1>6, <1>8, <1>18, <1>22 DEF OpenPlans
  <2>3. ASSUME NEW d \in Callers, todo'[d] \in OpenPlans, arg'[d].kind = "ssh"
        PROVE  arg'[d].id \in Workspaces!Published'
    <3>1. d # c /\ todo[d] \in OpenPlans /\ arg[d].kind = "ssh"
      BY <1>4, <1>6, <1>8, <1>18, <2>3
    <3>2. arg[d].id # id
      <4>1. CASE todo[c] = Revokes
        BY <1>0, <3>1, <4>1 DEF NoRuntime
      <4>2. CASE todo[c] = RevokesFirst
        BY <1>0, <1>9, <3>1, <4>2, Occupied DEF OneKind, About
      <4> QED
        BY <1>2, <4>1, <4>2
    <3> QED
      BY <1>0, <1>4, <1>13, <3>1, <3>2 DEF Listing
  <2>4. ASSUME NEW d \in Callers, todo'[d] \in TellPlans \cup EndPlans \cup {Drains}
        PROVE  arg'[d].id \notin Workspaces!Published'
    BY <1>0, <1>4, <1>13, <1>18, <2>4 DEF Listing
  <2> QED
    BY <1>14, <2>1, <2>2, <2>3, <2>4 DEF Listing
<1>24. NoRuntime'
  <2>1. \A d \in Callers : todo'[d] \in OpenPlans \cup {Revokes,
          DrainsFirst} => arg'[d].id \notin runtimes
    BY <1>0, <1>4, <1>6, <1>8, <1>18 DEF NoRuntime
  <2>2. \A d, e \in Callers : todo'[d] \in OpenPlans /\ arg'[d].kind = "ssh" /\ todo'[e] = Revokes
                               => arg'[e].id # arg'[d].id
    BY <1>0, <1>4, <1>6, <1>8, <1>18 DEF NoRuntime
  <2>3. \A i \in Ids : profiles'[i] = "database" => i \notin runtimes
    BY <1>0, <1>15, WorkspacesAssumption DEF NoRuntime, Protocols
  <2> QED
    BY <1>1, <2>1, <2>2, <2>3 DEF NoRuntime
<1>25. RuntimesFollow'
  <2>1. ASSUME NEW i \in runtimes \ Workspaces!Published'
        PROVE  \E d \in Callers : About(d, i)' /\ todo'[d] \in EndPlans
    <3>1. CASE i = id
      <4>1. todo[c] = RevokesFirst
        BY <1>0, <1>2, <3>1, <2>1 DEF NoRuntime
      <4>2. todo'[c] \in EndPlans
        BY <1>3, <1>7, <4>1
      <4> QED
        BY <1>4, <1>10, <3>1, <4>2 DEF About
    <3>2. CASE i # id
      <4>1. PICK d \in Callers : About(d, i) /\ todo[d] \in EndPlans
        BY <1>0, <1>13, <3>2, <2>1 DEF RuntimesFollow
      <4>2. d # c
        BY <3>2, <4>1 DEF About
      <4> QED
        BY <1>18, <4>1, <4>2 DEF About
    <3> QED
      BY <3>1, <3>2
  <2>2. ASSUME NEW i \in Workspaces!Published' \ runtimes
        PROVE  \E d \in Callers : About(d, i)' /\ (todo'[d] \in OpenPlans \/ Removes(d)')
    <3>1. i # id /\ i \in Workspaces!Published
      BY <1>13
    <3>2. PICK d \in Callers : About(d, i) /\ (todo[d] \in OpenPlans \/ Removes(d))
      BY <1>0, <3>1 DEF RuntimesFollow
    <3>3. d # c
      BY <3>1, <3>2 DEF About
    <3> QED
      BY <1>18, <3>2, <3>3 DEF About
  <2> QED
    BY <1>1, <2>1, <2>2 DEF RuntimesFollow
<1>26. EventsFollow'
  <2>1. ASSUME NEW i \in Workspaces!Published' \ heard
        PROVE  \E d \in Callers : About(d, i)' /\ todo'[d] = Announces
    BY <1>0, <1>13, <1>22 DEF EventsFollow
  <2>2. ASSUME NEW i \in heard \ Workspaces!Published'
        PROVE  \E d \in Callers : About(d, i)' /\ todo'[d] \in Ending
    <3>1. CASE i = id
      BY <1>4, <1>8, <1>10, <3>1 DEF About
    <3>2. CASE i # id
      <4>1. PICK d \in Callers : About(d, i) /\ todo[d] \in Ending
        BY <1>0, <1>13, <3>2, <2>2 DEF EventsFollow
      <4>2. d # c
        BY <3>2, <4>1 DEF About
      <4> QED
        BY <1>18, <4>1, <4>2 DEF About
    <3> QED
      BY <3>1, <3>2
  <2> QED
    BY <1>1, <2>1, <2>2 DEF EventsFollow
<1> QED
  BY <1>17, <1>19, <1>21, <1>23, <1>24, <1>25, <1>26 DEF PlacesInv

-----------------------------------------------------------------------------
(* Workspace: the steps and the watches                                    *)

\* A step that leaves the watches alone: it takes no runtime from a watch that is
\* not about to be drained, or being inserted.
LEMMA WatchesKept ==
  ASSUME PlacesInv, WatchesInv, NEW c \in Callers, Moves(c),
         UNCHANGED <<watch, alive, workspacesShown>>, arg'[c].watch = arg[c].watch,
         todo[c] \notin {Drains, DrainsFirst, InsertsWatch, RemovesWatch}, todo'[c] # InsertsWatch,
         \A id \in runtimes \ runtimes' :
            /\ watch[id] # NoWatch => About(c, id)' /\ todo'[c] \in {Drains, DrainsFirst}
            /\ \A d \in Callers : todo[d] = InsertsWatch => arg[d].id # id,
         Workspaces!Published \subseteq Workspaces!Published',
         \A id \in Ids : watch[id] # NoWatch =>
            profiles'[id] = profiles[id] /\ (About(c, id)' => arg'[c].kind = "sftp"),
         Removes(c) /\ arg[c].id \in Workspaces!Published => Removes(c)' /\ arg'[c].id = arg[c].id
  PROVE  WatchesInv'
<1>0. Typed /\ OneOwner /\ OfRuntimes /\ ListedRun
  BY DEF PlacesInv, WatchesInv
<1>1. \A d \in Callers \ {c} :
         /\ todo'[d] = todo[d] /\ arg'[d] = arg[d] /\ (Idles(d)' <=> Idles(d))
         /\ (Removes(d)' <=> Removes(d))
  BY <1>0, OthersStay
<1>2. \A d \in Callers : arg'[d].watch = arg[d].watch
  BY <1>1
<1>3. OneOwner'
  BY <1>0, <1>2 DEF OneOwner
<1>4. OfRuntimes'
  <2>1. \A d \in Callers : todo'[d] = InsertsWatch => arg'[d].id \in runtimes'
    BY <1>0, <1>1 DEF OfRuntimes
  <2>2. ASSUME NEW id \in Ids, watch'[id] # NoWatch
        PROVE  /\ id \in runtimes' \/ \E d \in Callers : About(d, id)' /\ todo'[d] \in {Drains,
                    DrainsFirst}
               /\ profiles'[id] \in {NoKind, "sftp"}
               /\ \A d \in Callers : About(d, id)' => arg'[d].kind = "sftp"
    <3>1. id \in runtimes' \/ \E d \in Callers : About(d, id)' /\ todo'[d] \in {Drains, DrainsFirst}
      <4>1. CASE id \in runtimes
        BY <2>2, <4>1
      <4>2. CASE \E d \in Callers : About(d, id) /\ todo[d] \in {Drains, DrainsFirst}
        BY <1>1, <4>2 DEF About
      <4> QED
        BY <1>0, <2>2, <4>1, <4>2 DEF OfRuntimes
    <3>2. profiles'[id] \in {NoKind, "sftp"}
      BY <1>0, <2>2 DEF OfRuntimes
    <3>3. \A d \in Callers : About(d, id)' => arg'[d].kind = "sftp"
      BY <1>0, <1>1, <2>2 DEF OfRuntimes, About
    <3> QED
      BY <3>1, <3>2, <3>3
  <2> QED
    BY <2>1, <2>2 DEF OfRuntimes
<1>5. ListedRun'
  <2>1. workspacesShown' \subseteq Workspaces!Published'
    BY <1>0 DEF ListedRun
  <2>2. ASSUME NEW id \in workspacesShown, watch[id] = NoWatch
        PROVE  \E d \in Callers :
                 About(d, id)' /\ (todo'[d] \in {InsertsWatch, RemovesWatch} \/ Removes(d)')
    <3>1. PICK d \in Callers : About(d, id) /\ (todo[d] \in {InsertsWatch,
            RemovesWatch} \/ Removes(d))
      BY <1>0, <2>2 DEF ListedRun
    <3>2. CASE d = c
      <4>1. Removes(c) /\ arg[c].id = id /\ id \in Workspaces!Published
        BY <1>0, <3>1, <3>2 DEF ListedRun, About
      <4>2. Removes(c)' /\ ~Idles(c)' /\ arg'[c].id = id
        BY <4>1, EmptyPlan DEF Removes, Idles
      <4> QED
        BY <4>2 DEF About
    <3>3. CASE d # c
      BY <1>1, <3>1, <3>3 DEF About
    <3> QED
      BY <3>2, <3>3
  <2> QED
    BY <2>1, <2>2 DEF ListedRun
<1> QED
  BY <1>3, <1>4, <1>5 DEF WatchesInv

\* A watch that leaves the map is stopped.
LEMMA WatchesStopped ==
  ASSUME PlacesInv, WatchesInv, NEW c \in Callers, Moves(c), PlacesStay,
         arg[c].watch = NoWatch, arg'[c].watch = NoWatch, arg[c].id \in Ids,
         alive' = alive \ {watch[arg[c].id]}, watch' = [watch EXCEPT ![arg[c].id] = NoWatch],
         workspacesShown' = workspacesShown, arg'[c] = arg[c] \/ Idles(c)',
         todo[c] \notin {InsertsWatch, RemovesWatch}, todo'[c] # InsertsWatch,
         Removes(c) => Removes(c)' /\ arg'[c].id = arg[c].id,
         arg[c].id \in workspacesShown =>
           \/ watch[arg[c].id] = NoWatch
           \/ ~Idles(c)' /\ (todo'[c] = RemovesWatch \/ Removes(c)')
  PROVE  WatchesInv'
<1> DEFINE id == arg[c].id
<1>0. Typed /\ OneOwner /\ OfRuntimes /\ ListedRun /\ watch \in [Ids -> Watches \cup {NoWatch}]
      /\ alive \subseteq Watches
  BY DEF PlacesInv, WatchesInv, Typed, Workspaces!TypeOK
<1>1. \A d \in Callers \ {c} :
         /\ todo'[d] = todo[d] /\ arg'[d] = arg[d] /\ (Idles(d)' <=> Idles(d))
         /\ (Removes(d)' <=> Removes(d))
  BY <1>0, OthersStay
<1>2. \A d \in Callers : arg'[d].watch = arg[d].watch
  BY <1>1
<1>3. watch'[id] = NoWatch /\ \A i \in Ids \ {id} : watch'[i] = watch[i]
  BY <1>0
<1>4. OneOwner'
  <2>1. ASSUME NEW w \in alive'
        PROVE  (\E d \in Callers : arg'[d].watch = w) \/ \E i \in Ids : watch'[i] = w
    BY <1>0, <1>2, <1>3, <2>1 DEF OneOwner
  <2>2. \A d \in Callers : arg'[d].watch # NoWatch => arg'[d].watch \in alive'
    BY <1>0, <1>2 DEF OneOwner
  <2>3. \A i \in Ids : watch'[i] # NoWatch => watch'[i] \in alive'
    BY <1>0, <1>3 DEF OneOwner
  <2>4. \A d, e \in Callers : arg'[d].watch = arg'[e].watch /\ arg'[d].watch # NoWatch => d = e
    BY <1>0, <1>2 DEF OneOwner
  <2>5. \A i, j \in Ids : watch'[i] = watch'[j] /\ watch'[i] # NoWatch => i = j
    BY <1>0, <1>3 DEF OneOwner
  <2>6. \A d \in Callers, i \in Ids : watch'[i] = arg'[d].watch => watch'[i] = NoWatch
    BY <1>0, <1>2, <1>3 DEF OneOwner
  <2> QED
    BY <2>1, <2>2, <2>3, <2>4, <2>5, <2>6 DEF OneOwner
<1>6. OfRuntimes'
  <2>1. \A d \in Callers : todo'[d] = InsertsWatch => arg'[d].id \in runtimes'
    BY <1>0, <1>1 DEF OfRuntimes, PlacesStay
  <2>2. ASSUME NEW i \in Ids, watch'[i] # NoWatch
        PROVE  /\ i \in runtimes' \/ \E d \in Callers : About(d, i)' /\ todo'[d] \in {Drains,
                    DrainsFirst}
               /\ profiles'[i] \in {NoKind, "sftp"}
               /\ \A d \in Callers : About(d, i)' => arg'[d].kind = "sftp"
    <3>1. i # id /\ watch[i] # NoWatch
      BY <1>3, <2>2
    <3>2. i \in runtimes' \/ \E d \in Callers : About(d, i)' /\ todo'[d] \in {Drains, DrainsFirst}
      <4>1. CASE i \in runtimes
        BY <4>1 DEF PlacesStay
      <4>2. CASE \E d \in Callers : About(d, i) /\ todo[d] \in {Drains, DrainsFirst}
        BY <1>1, <3>1, <4>2 DEF About
      <4> QED
        BY <1>0, <3>1, <4>1, <4>2 DEF OfRuntimes
    <3>3. profiles'[i] \in {NoKind, "sftp"}
      BY <1>0, <3>1 DEF OfRuntimes, PlacesStay
    <3>4. ASSUME NEW d \in Callers, About(d, i)' PROVE arg'[d].kind = "sftp"
      <4>1. d # c
        BY <3>1, <3>4 DEF About
      <4> QED
        BY <1>0, <1>1, <3>1, <3>4, <4>1 DEF OfRuntimes, About
    <3> QED
      BY <3>2, <3>3, <3>4
  <2> QED
    BY <2>1, <2>2 DEF OfRuntimes
<1>7. ListedRun'
  <2>1. workspacesShown' \subseteq Workspaces!Published'
    BY <1>0 DEF ListedRun, PlacesStay, Workspaces!Published, Workspaces!ToSet
  <2>2. ASSUME NEW i \in workspacesShown, watch'[i] = NoWatch
        PROVE  \E d \in Callers :
                 About(d, i)' /\ (todo'[d] \in {InsertsWatch, RemovesWatch} \/ Removes(d)')
    <3>1. CASE watch[i] = NoWatch
      <4>1. PICK d \in Callers : About(d, i) /\ (todo[d] \in {InsertsWatch,
              RemovesWatch} \/ Removes(d))
        BY <1>0, <3>1 DEF ListedRun
      <4>2. CASE d = c
        <5>1. Removes(c)' /\ arg'[c].id = i
          BY <4>1, <4>2 DEF About
        <5> QED
          BY <5>1, EmptyPlan DEF About, Removes, Idles
      <4>3. CASE d # c
        BY <1>1, <4>1, <4>3 DEF About
      <4> QED
        BY <4>2, <4>3
    <3>2. CASE watch[i] # NoWatch
      <4>1. i = id
        <5>1. i \in Ids
          BY DEF PlacesInv, Typed, Workspaces!TypeOK
        <5> QED
          BY <1>3, <2>2, <3>2, <5>1
      <4> QED
        BY <3>2, <4>1 DEF About
    <3> QED
      BY <3>1, <3>2
  <2> QED
    BY <2>1, <2>2 DEF ListedRun
<1> QED
  BY <1>4, <1>6, <1>7 DEF WatchesInv

\* A watch begins.
LEMMA WatchesBegin ==
  ASSUME PlacesInv, WatchesInv, NEW c \in Callers, Moves(c), PlacesStay,
         NEW w \in Watches, w \notin alive, alive' = alive \cup {w}, todo[c] = StartsWatch,
         todo'[c] = AddsWatch, arg'[c].id = arg[c].id, arg'[c].kind = arg[c].kind,
           arg'[c].watch = w,
         UNCHANGED <<watch, workspacesShown>>
  PROVE  WatchesInv'
<1>0. Typed /\ OneOwner /\ OfRuntimes /\ ListedRun /\ Fits(c)
      /\ watch \in [Ids -> Watches \cup {NoWatch}] /\ w # NoWatch
  BY WorkspacesAssumption DEF PlacesInv, WatchesInv, Typed, Workspaces!TypeOK
<1>1. \A d \in Callers \ {c} :
         /\ todo'[d] = todo[d] /\ arg'[d] = arg[d] /\ (Idles(d)' <=> Idles(d))
         /\ (Removes(d)' <=> Removes(d))
  BY <1>0, OthersStay
<1>2. /\ StartsWatch \notin {<<>>, Drains, DrainsFirst, InsertsWatch, RemovesWatch, AddsWatch,
           Revokes, Stops,
                            StopsFirst}
      /\ AddsWatch \notin {<<>>, InsertsWatch}
  BY Heads, EmptyPlan DEF WatchPlans
<1>3. ~Idles(c) /\ ~Idles(c)' /\ arg[c].watch = NoWatch /\ ~Removes(c)
  BY <1>0, <1>2, Differ, Heads DEF Fits, Idles, Removes
<1>4. \A d \in Callers : arg[d].watch # w
  BY <1>0 DEF OneOwner
<1>5. \A i \in Ids : watch[i] # w
  BY <1>0 DEF OneOwner
<1>6. OneOwner'
  <2>1. ASSUME NEW v \in alive'
        PROVE  (\E d \in Callers : arg'[d].watch = v) \/ \E i \in Ids : watch'[i] = v
    <3>1. CASE v = w
      BY <3>1
    <3>2. CASE v # w
      <4>1. v \in alive /\ v # NoWatch
        BY <2>1, <3>2, WorkspacesAssumption DEF PlacesInv, Typed, Workspaces!TypeOK
      <4>2. CASE \E d \in Callers : arg[d].watch = v
        BY <1>1, <1>3, <4>1, <4>2
      <4>3. CASE \E i \in Ids : watch[i] = v
        BY <4>3
      <4> QED
        BY <1>0, <4>1, <4>2, <4>3 DEF OneOwner
    <3> QED
      BY <3>1, <3>2
  <2>2. \A d \in Callers : arg'[d].watch # NoWatch => arg'[d].watch \in alive'
    BY <1>0, <1>1 DEF OneOwner
  <2>3. \A i \in Ids : watch'[i] # NoWatch => watch'[i] \in alive'
    BY <1>0 DEF OneOwner
  <2>4. \A d, e \in Callers : arg'[d].watch = arg'[e].watch /\ arg'[d].watch # NoWatch => d = e
    BY <1>0, <1>1, <1>4 DEF OneOwner
  <2>5. \A i, j \in Ids : watch'[i] = watch'[j] /\ watch'[i] # NoWatch => i = j
    BY <1>0 DEF OneOwner
  <2>6. \A d \in Callers, i \in Ids : watch'[i] = arg'[d].watch => watch'[i] = NoWatch
    BY <1>0, <1>1, <1>5 DEF OneOwner
  <2> QED
    BY <2>1, <2>2, <2>3, <2>4, <2>5, <2>6 DEF OneOwner
<1>7. OfRuntimes'
  <2>1. \A d \in Callers : todo'[d] = InsertsWatch => arg'[d].id \in runtimes'
    BY <1>0, <1>1, <1>2 DEF OfRuntimes, PlacesStay
  <2>2. ASSUME NEW i \in Ids, watch'[i] # NoWatch
        PROVE  /\ i \in runtimes' \/ \E d \in Callers : About(d, i)' /\ todo'[d] \in {Drains,
                    DrainsFirst}
               /\ profiles'[i] \in {NoKind, "sftp"}
               /\ \A d \in Callers : About(d, i)' => arg'[d].kind = "sftp"
    BY <1>0, <1>1, <1>2, <1>3, <2>2 DEF OfRuntimes, PlacesStay, About
  <2> QED
    BY <2>1, <2>2 DEF OfRuntimes
<1>8. ListedRun'
  <2>1. workspacesShown' \subseteq Workspaces!Published'
    BY <1>0 DEF ListedRun, PlacesStay, Workspaces!Published, Workspaces!ToSet
  <2>2. ASSUME NEW i \in workspacesShown, watch'[i] = NoWatch
        PROVE  \E d \in Callers :
                 About(d, i)' /\ (todo'[d] \in {InsertsWatch, RemovesWatch} \/ Removes(d)')
    BY <1>0, <1>1, <1>2, <1>3, <2>2 DEF ListedRun, About
  <2> QED
    BY <2>1, <2>2 DEF ListedRun
<1> QED
  BY <1>6, <1>7, <1>8 DEF WatchesInv

\* It is listed while its workspace has a runtime, or stopped.
LEMMA WatchesAdded ==
  ASSUME PlacesInv, WatchesInv, NEW c \in Callers, Moves(c), PlacesStay, todo[c] = AddsWatch,
         watch' = watch,
         \/ /\ arg[c].id \in runtimes \cap Workspaces!Published
            /\ workspacesShown' = workspacesShown \cup {arg[c].id} /\ alive' = alive
            /\ todo'[c] = InsertsWatch /\ arg'[c] = arg[c]
         \/ /\ alive' = alive \ {arg[c].watch} /\ workspacesShown' = workspacesShown
            /\ todo'[c] = <<>> /\ arg'[c] = Workspaces!NoArg
  PROVE  WatchesInv'
<1>0. Typed /\ OneOwner /\ OfRuntimes /\ ListedRun /\ Fits(c)
      /\ watch \in [Ids -> Watches \cup {NoWatch}]
  BY DEF PlacesInv, WatchesInv, Typed, Workspaces!TypeOK
<1>1. \A d \in Callers \ {c} :
         /\ todo'[d] = todo[d] /\ arg'[d] = arg[d] /\ (Idles(d)' <=> Idles(d))
         /\ (Removes(d)' <=> Removes(d))
  BY <1>0, OthersStay
<1>2. /\ AddsWatch \notin {Drains, DrainsFirst, InsertsWatch, RemovesWatch, Revokes, Stops,
           StopsFirst}
      /\ InsertsWatch \notin {Drains, DrainsFirst}
      /\ AddsWatch # <<>> /\ InsertsWatch # <<>>
  <2>1. AddsWatch # <<>> /\ InsertsWatch # <<>>
    BY EmptyPlan DEF WatchPlans
  <2> QED
    BY <2>1, Heads
<1>3. ~Idles(c) /\ arg[c].watch # NoWatch /\ ~Removes(c) /\ arg[c].kind = "sftp"
  BY <1>0, <1>2 DEF Fits, Idles, Removes, WatchPlans
<1>4. \/ Idles(c)' /\ arg'[c].watch = NoWatch
      \/ ~Idles(c)' /\ arg'[c] = arg[c] /\ alive' = alive
  BY <1>2 DEF Idles, Workspaces!NoArg
<1>5. OneOwner'
  <2>1. ASSUME NEW v \in alive'
        PROVE  (\E d \in Callers : arg'[d].watch = v) \/ \E i \in Ids : watch'[i] = v
    <3>1. CASE alive' = alive /\ arg'[c] = arg[c]
      BY <1>0, <1>1, <3>1 DEF OneOwner
    <3>2. CASE alive' = alive \ {arg[c].watch}
      BY <1>0, <1>1, <3>2 DEF OneOwner
    <3> QED
      BY <3>1, <3>2
  <2>2. \A d \in Callers : arg'[d].watch # NoWatch => arg'[d].watch \in alive'
    BY <1>0, <1>1, <1>4 DEF OneOwner
  <2>3. \A i \in Ids : watch'[i] # NoWatch => watch'[i] \in alive'
    BY <1>0 DEF OneOwner
  <2>4. \A d, e \in Callers : arg'[d].watch = arg'[e].watch /\ arg'[d].watch # NoWatch => d = e
    BY <1>0, <1>1, <1>4 DEF OneOwner
  <2>5. \A i, j \in Ids : watch'[i] = watch'[j] /\ watch'[i] # NoWatch => i = j
    BY <1>0 DEF OneOwner
  <2>6. \A d \in Callers, i \in Ids : watch'[i] = arg'[d].watch => watch'[i] = NoWatch
    BY <1>0, <1>1, <1>4 DEF OneOwner
  <2> QED
    BY <2>1, <2>2, <2>3, <2>4, <2>5, <2>6 DEF OneOwner
<1>6. OfRuntimes'
  <2>1. \A d \in Callers : todo'[d] = InsertsWatch => arg'[d].id \in runtimes'
    BY <1>0, <1>1, <1>2 DEF OfRuntimes, PlacesStay
  <2>2. ASSUME NEW i \in Ids, watch'[i] # NoWatch
        PROVE  /\ i \in runtimes' \/ \E d \in Callers : About(d, i)' /\ todo'[d] \in {Drains,
                    DrainsFirst}
               /\ profiles'[i] \in {NoKind, "sftp"}
               /\ \A d \in Callers : About(d, i)' => arg'[d].kind = "sftp"
    BY <1>0, <1>1, <1>2, <1>3, <1>4, <2>2 DEF OfRuntimes, PlacesStay, About
  <2> QED
    BY <2>1, <2>2 DEF OfRuntimes
<1>7. ListedRun'
  <2>1. workspacesShown' \subseteq Workspaces!Published'
    BY <1>0 DEF ListedRun, PlacesStay, Workspaces!Published, Workspaces!ToSet
  <2>2. ASSUME NEW i \in workspacesShown', watch'[i] = NoWatch
        PROVE  \E d \in Callers :
                 About(d, i)' /\ (todo'[d] \in {InsertsWatch, RemovesWatch} \/ Removes(d)')
    <3>1. CASE i \in workspacesShown
      BY <1>0, <1>1, <1>2, <1>3, <2>2, <3>1 DEF ListedRun, About
    <3>2. CASE i \notin workspacesShown
      BY <1>2, <2>2, <3>2 DEF About, Idles
    <3> QED
      BY <3>1, <3>2
  <2> QED
    BY <2>1, <2>2 DEF ListedRun
<1> QED
  BY <1>5, <1>6, <1>7 DEF WatchesInv

\* It goes into the map, and the one it replaces is stopped.
LEMMA WatchesInserted ==
  ASSUME PlacesInv, WatchesInv, NEW c \in Callers, Moves(c), PlacesStay, todo[c] = InsertsWatch,
         workspacesShown' = workspacesShown, alive' = alive \ {watch[arg[c].id]},
         watch' = [watch EXCEPT ![arg[c].id] = arg[c].watch],
         todo'[c] = <<>>, arg'[c] = Workspaces!NoArg
  PROVE  WatchesInv'
<1> DEFINE id == arg[c].id
<1>0. Typed /\ OneKind /\ OneOwner /\ OfRuntimes /\ ListedRun /\ Fits(c)
      /\ watch \in [Ids -> Watches \cup {NoWatch}]
  BY DEF PlacesInv, WatchesInv, Typed, Workspaces!TypeOK
<1>1. \A d \in Callers \ {c} :
         /\ todo'[d] = todo[d] /\ arg'[d] = arg[d] /\ (Idles(d)' <=> Idles(d))
         /\ (Removes(d)' <=> Removes(d))
  BY <1>0, OthersStay
<1>2. /\ InsertsWatch \notin {Drains, DrainsFirst, RemovesWatch, Revokes, Stops, StopsFirst}
      /\ InsertsWatch # <<>>
  <2>1. InsertsWatch # <<>>
    BY EmptyPlan DEF WatchPlans
  <2> QED
    BY <2>1, Heads
<1>3. ~Idles(c) /\ arg[c].watch # NoWatch /\ ~Removes(c) /\ arg[c].kind = "sftp" /\ id \in Ids
  BY <1>0, <1>2 DEF Fits, Idles, Removes, WatchPlans, Typed, Workspaces!TypeOK
<1>4. Idles(c)' /\ arg'[c].watch = NoWatch
  BY DEF Idles, Workspaces!NoArg
<1>5. watch'[id] = arg[c].watch /\ \A i \in Ids \ {id} : watch'[i] = watch[i]
  BY <1>0, <1>3
<1>6. OneOwner'
  <2>1. ASSUME NEW v \in alive'
        PROVE  (\E d \in Callers : arg'[d].watch = v) \/ \E i \in Ids : watch'[i] = v
    <3>1. CASE v = arg[c].watch
      BY <1>3, <1>5, <3>1
    <3>2. CASE \E d \in Callers \ {c} : arg[d].watch = v
      BY <1>1, <3>2
    <3>3. CASE \E i \in Ids : watch[i] = v
      BY <1>5, <2>1, <3>3
    <3> QED
      BY <1>0, <2>1, <3>1, <3>2, <3>3 DEF OneOwner
  <2>2. \A d \in Callers : arg'[d].watch # NoWatch => arg'[d].watch \in alive'
    BY <1>0, <1>1, <1>3, <1>4 DEF OneOwner
  <2>3. \A i \in Ids : watch'[i] # NoWatch => watch'[i] \in alive'
    BY <1>0, <1>3, <1>5 DEF OneOwner
  <2>4. \A d, e \in Callers : arg'[d].watch = arg'[e].watch /\ arg'[d].watch # NoWatch => d = e
    BY <1>0, <1>1, <1>4 DEF OneOwner
  <2>5. \A i, j \in Ids : watch'[i] = watch'[j] /\ watch'[i] # NoWatch => i = j
    BY <1>0, <1>3, <1>5 DEF OneOwner
  <2>6. ASSUME NEW d \in Callers, NEW i \in Ids, watch'[i] = arg'[d].watch
        PROVE  watch'[i] = NoWatch
    <3>1. CASE d = c
      BY <1>4, <2>6, <3>1
    <3>2. CASE d # c /\ i = id
      BY <1>0, <1>1, <1>3, <1>5, <2>6, <3>2 DEF OneOwner
    <3>3. CASE d # c /\ i # id
      BY <1>0, <1>1, <1>5, <2>6, <3>3 DEF OneOwner
    <3> QED
      BY <3>1, <3>2, <3>3
  <2> QED
    BY <2>1, <2>2, <2>3, <2>4, <2>5, <2>6 DEF OneOwner
<1>7. OfRuntimes'
  <2>1. \A d \in Callers : todo'[d] = InsertsWatch => arg'[d].id \in runtimes'
    BY <1>0, <1>1, <1>2 DEF OfRuntimes, PlacesStay
  <2>2. ASSUME NEW i \in Ids, watch'[i] # NoWatch
        PROVE  /\ i \in runtimes' \/ \E d \in Callers : About(d, i)' /\ todo'[d] \in {Drains,
                    DrainsFirst}
               /\ profiles'[i] \in {NoKind, "sftp"}
               /\ \A d \in Callers : About(d, i)' => arg'[d].kind = "sftp"
    <3>1. CASE i = id
      <4>1. i \in runtimes' /\ profiles'[i] \in {NoKind, "sftp"}
        BY <1>0, <1>3, <3>1 DEF OfRuntimes, OneKind, PlacesStay
      <4>2. ASSUME NEW d \in Callers, About(d, i)' PROVE arg'[d].kind = "sftp"
        BY <1>0, <1>1, <1>3, <1>4, <3>1, <4>2 DEF OneKind, About
      <4> QED
        BY <4>1, <4>2
    <3>2. CASE i # id
      BY <1>0, <1>1, <1>2, <1>4, <1>5, <2>2, <3>2 DEF OfRuntimes, PlacesStay, About
    <3> QED
      BY <3>1, <3>2
  <2> QED
    BY <2>1, <2>2 DEF OfRuntimes
<1>8. ListedRun'
  <2>1. workspacesShown' \subseteq Workspaces!Published'
    BY <1>0 DEF ListedRun, PlacesStay, Workspaces!Published, Workspaces!ToSet
  <2>2. ASSUME NEW i \in workspacesShown', watch'[i] = NoWatch
        PROVE  \E d \in Callers :
                 About(d, i)' /\ (todo'[d] \in {InsertsWatch, RemovesWatch} \/ Removes(d)')
    <3>1. i \in Ids /\ i # id
      BY <1>3, <1>5, <2>2 DEF PlacesInv, Typed, Workspaces!TypeOK
    <3> QED
      BY <1>0, <1>1, <1>5, <2>2, <3>1 DEF ListedRun, About
  <2> QED
    BY <2>1, <2>2 DEF ListedRun
<1> QED
  BY <1>6, <1>7, <1>8 DEF WatchesInv

\* A workspace is no more listed as watched, or is no more published.
LEMMA WatchesUnlisted ==
  ASSUME PlacesInv, WatchesInv, NEW c \in Callers, Moves(c), UNCHANGED <<runtimes, watch, alive>>,
         NEW id \in Ids, arg[c].id = id,
         \A i \in Ids : profiles'[i] \in {NoKind, profiles[i]},
         Workspaces!Published \ {id} \subseteq Workspaces!Published',
         workspacesShown' = workspacesShown \ {id},
         \/ todo[c] = RemovesWatch /\ todo'[c] = <<>> /\ arg'[c] = Workspaces!NoArg
         \/ /\ todo[c] \in {Revokes, RevokesFirst} /\ arg'[c] = arg[c]
            /\ todo'[c] \in {Tells, TellsBoth, TellsThenEnds, TellsBothThenEnds}
  PROVE  WatchesInv'
<1>0. Typed /\ OneOwner /\ OfRuntimes /\ ListedRun /\ Fits(c)
  BY DEF PlacesInv, WatchesInv, Typed
<1>1. \A d \in Callers \ {c} :
         /\ todo'[d] = todo[d] /\ arg'[d] = arg[d] /\ (Idles(d)' <=> Idles(d))
         /\ (Removes(d)' <=> Removes(d))
  BY <1>0, OthersStay
<1>2. \A p \in {RemovesWatch, Revokes, RevokesFirst} :
         p \notin {<<>>, Drains, DrainsFirst, AddsWatch, InsertsWatch}
  <2>1. \A p \in {RemovesWatch, Revokes, RevokesFirst} : p # <<>>
    BY EmptyPlan DEF WatchPlans
  <2> QED
    BY <2>1, Heads
<1>3. \A p \in {Tells, TellsBoth, TellsThenEnds, TellsBothThenEnds, <<>>} : p # InsertsWatch
  <2>1. InsertsWatch # <<>>
    BY EmptyPlan DEF WatchPlans
  <2> QED
    BY <2>1, Heads
<1>4. ~Idles(c) /\ arg[c].watch = NoWatch /\ arg'[c].watch = NoWatch
  BY <1>0, <1>2 DEF Fits, Idles, Workspaces!NoArg
<1>5. \A d \in Callers : arg'[d].watch = arg[d].watch
  BY <1>1, <1>4
<1>6. OneOwner'
  BY <1>0, <1>5 DEF OneOwner
<1>7. Idles(c)' \/ (arg'[c] = arg[c] /\ ~Idles(c))
  BY <1>4 DEF Idles
<1>8. OfRuntimes'
  <2>1. \A d \in Callers : todo'[d] = InsertsWatch => arg'[d].id \in runtimes'
    BY <1>0, <1>1, <1>3 DEF OfRuntimes
  <2>2. ASSUME NEW i \in Ids, watch'[i] # NoWatch
        PROVE  /\ i \in runtimes' \/ \E d \in Callers : About(d, i)' /\ todo'[d] \in {Drains,
                    DrainsFirst}
               /\ profiles'[i] \in {NoKind, "sftp"}
               /\ \A d \in Callers : About(d, i)' => arg'[d].kind = "sftp"
    <3>1. i \in runtimes' \/ \E d \in Callers : About(d, i)' /\ todo'[d] \in {Drains, DrainsFirst}
      <4>1. CASE i \in runtimes
        BY <4>1
      <4>2. CASE \E d \in Callers : About(d, i) /\ todo[d] \in {Drains, DrainsFirst}
        BY <1>1, <1>2, <4>2 DEF About
      <4> QED
        BY <1>0, <2>2, <4>1, <4>2 DEF OfRuntimes
    <3>2. profiles'[i] \in {NoKind, "sftp"}
      BY <1>0, <2>2 DEF OfRuntimes
    <3>3. \A d \in Callers : About(d, i)' => arg'[d].kind = "sftp"
      BY <1>0, <1>1, <1>7, <2>2 DEF OfRuntimes, About
    <3> QED
      BY <3>1, <3>2, <3>3
  <2> QED
    BY <2>1, <2>2 DEF OfRuntimes
<1>9. ListedRun'
  <2>1. workspacesShown' \subseteq Workspaces!Published'
    BY <1>0 DEF ListedRun
  <2>2. ASSUME NEW i \in workspacesShown', watch'[i] = NoWatch
        PROVE  \E d \in Callers :
                 About(d, i)' /\ (todo'[d] \in {InsertsWatch, RemovesWatch} \/ Removes(d)')
    BY <1>0, <1>1, <2>2 DEF ListedRun, About
  <2> QED
    BY <2>1, <2>2 DEF ListedRun
<1> QED
  BY <1>6, <1>8, <1>9 DEF WatchesInv

-----------------------------------------------------------------------------
(* Workspace: the actions                                                  *)

WatchesStay == UNCHANGED <<watch, alive, workspacesShown>>

LEMMA WatchesAlone ==
  ASSUME PlacesInv, PlacesInv', WatchesInv, NEW c \in Callers, Moves(c), WatchesStay,
         UNCHANGED <<profiles, listed>>, runtimes \subseteq runtimes',
         todo[c] \notin {AddsWatch, InsertsWatch, RemovesWatch, Drains, DrainsFirst},
         todo'[c] \notin {AddsWatch, InsertsWatch},
         \/ Idles(c)'
         \/ ~Idles(c) /\ arg'[c].id = arg[c].id /\ arg'[c].kind = arg[c].kind
         \/ arg'[c].kind \in {"sftp", profiles[arg'[c].id]},
         Removes(c) /\ arg[c].id \in Workspaces!Published => Removes(c)' /\ arg'[c].id = arg[c].id
  PROVE  WatchesInv'
<1>1. Fits(c) /\ Fits(c)' /\ OfRuntimes
  BY DEF PlacesInv, Typed, WatchesInv
<1>2. arg'[c].watch = arg[c].watch
  BY <1>1 DEF Fits
<1>3. Workspaces!Published' = Workspaces!Published
  BY DEF Workspaces!Published, Workspaces!ToSet
<1>4. ASSUME NEW id \in Ids, watch[id] # NoWatch, About(c, id)'
      PROVE  arg'[c].kind = "sftp"
  <2>1. CASE ~Idles(c) /\ arg'[c].id = arg[c].id /\ arg'[c].kind = arg[c].kind
    BY <1>1, <1>4, <2>1 DEF OfRuntimes, About
  <2>2. CASE arg'[c].kind \in {"sftp", profiles[arg'[c].id]}
    <3>1. arg'[c].kind # NoKind
      BY <1>1, <1>4, WorkspacesAssumption DEF Fits, About
    <3> QED
      BY <1>1, <1>4, <2>2, <3>1 DEF OfRuntimes, About
  <2> QED
    BY <1>4, <2>1, <2>2 DEF About
<1> QED
  BY <1>2, <1>3, <1>4, WatchesKept DEF WatchesStay

LEMMA OpensKeep ==
  ASSUME PlacesInv, WatchesInv, NEW c \in Callers, NEW id \in Ids, NEW kind \in Protocols,
         Workspaces!Open(c, id, kind)
  PROVE  PlacesInv' /\ WatchesInv'
<1>0. Typed /\ OfRuntimes
  BY DEF PlacesInv, WatchesInv
<1>1. PlacesInv'
  BY PlacesOpen
<1>2. /\ id \notin used /\ listed' = Append(listed,
           id) /\ profiles' = [profiles EXCEPT ![id] = kind]
      /\ UNCHANGED <<runtimes, watch, alive, workspacesShown>> /\ Idles(c)
      /\ Workspaces!Continue(c, Announces)
      /\ arg' = [arg EXCEPT ![c] = [Workspaces!NoArg EXCEPT !.id = id, !.kind = kind]]
  BY DEF Workspaces!Open, Workspaces!watchVars, Workspaces!Busy, Idles, Announces
<1>3. /\ Moves(c) /\ todo'[c] = Announces /\ arg'[c].id = id /\ arg'[c].watch = NoWatch
  BY <1>0, <1>2, BeginMoves
<1>4. /\ listed \in Seq(Ids) /\ Workspaces!IsInjective(listed) /\ id \notin Workspaces!Published
      /\ profiles \in [Ids -> Protocols \cup {NoKind}] /\ runtimes \subseteq used
  BY <1>0, <1>2 DEF Typed, Workspaces!TypeOK
<1>5. Workspaces!Published \subseteq Workspaces!Published'
  <2>1. listed' = Append(listed, id)
    BY <1>2
  <2> QED
    BY <1>4, <2>1, AppendPublishes
<1>6. watch[id] = NoWatch
  BY <1>0, <1>2, <1>4, Occupied DEF OfRuntimes, About
<1>7. /\ <<>> \notin {Drains, DrainsFirst, InsertsWatch, RemovesWatch, Revokes, Stops, StopsFirst}
      /\ Announces # InsertsWatch
  BY Heads, EmptyPlan DEF WatchPlans
<1>8. ~Removes(c) /\ arg[c].watch = NoWatch
  BY <1>0, <1>2, <1>7 DEF Removes, Idles, Typed, Fits, Workspaces!NoArg
<1>9. \A i \in Ids : watch[i] # NoWatch => profiles'[i] = profiles[i] /\ ~About(c, i)'
  BY <1>2, <1>3, <1>4, <1>6 DEF About
<1>10. WatchesInv'
  BY <1>2, <1>3, <1>5, <1>7, <1>8, <1>9, WatchesKept DEF Idles
<1> QED
  BY <1>1, <1>10

LEMMA ClosesBeginKeep ==
  ASSUME PlacesInv, WatchesInv, NEW c \in Callers, NEW id \in Ids,
         Workspaces!Close(c, id) \/ Workspaces!Listen(c, id) \/ Workspaces!Unlisten(c, id)
  PROVE  PlacesInv' /\ WatchesInv'
<1>0. Typed /\ OneKind /\ Listing /\ NoRuntime /\ OfRuntimes /\ runtimes \subseteq used
      /\ Workspaces!Published \subseteq used /\ profiles \in [Ids -> Protocols \cup {NoKind}]
  BY DEF PlacesInv, WatchesInv, Typed, Workspaces!TypeOK
<1>1. PlacesStay /\ WatchesStay /\ Idles(c)
  BY DEF Workspaces!Close, Workspaces!Listen, Workspaces!Unlisten, PlacesStay, WatchesStay, Idles,
     Workspaces!sessionVars, Workspaces!watchVars, Workspaces!Busy
<1>2. WatchTypes
  BY <1>0, <1>1 DEF WatchTypes, WatchesStay, PlacesStay, Typed, Workspaces!TypeOK
<1>3. /\ <<>> \notin {AddsWatch, InsertsWatch, RemovesWatch, Drains, DrainsFirst, Revokes, Stops,
           StopsFirst}
      /\ \A p \in {Stops, RevokesFirst, Revokes, StartsWatch, StopsWatch} : p \notin {AddsWatch,
           InsertsWatch}
  BY Heads, EmptyPlan DEF WatchPlans
<1>4. ~Removes(c)
  BY <1>1, <1>3 DEF Removes, Idles
<1>5. ASSUME NEW kind \in Protocols, NEW p \in {Stops, RevokesFirst, Revokes, StartsWatch,
               StopsWatch},
             id \in used, kind \in {"sftp", profiles[id]},
             profiles[id] \in {NoKind, kind}, \A d \in Callers : About(d, id) => arg[d].kind = kind,
             \/ p = Stops /\ kind = "ssh"
             \/ p \in {RevokesFirst, StartsWatch, StopsWatch} /\ kind = "sftp"
             \/ p = Revokes /\ kind = "database" /\ id \notin runtimes,
             Workspaces!Continue(c, p),
             arg' = [arg EXCEPT ![c] = [Workspaces!NoArg EXCEPT !.id = id, !.kind = kind]]
      PROVE  PlacesInv' /\ WatchesInv'
  <2>1. /\ Moves(c) /\ todo'[c] = p /\ arg'[c].id = id /\ arg'[c].kind = kind
        /\ arg'[c].undo = FALSE /\ arg'[c].watch = NoWatch
    BY <1>0, <1>5, BeginMoves
  <2>2. PlacesInv'
    BY <1>1, <1>2, <1>5, <2>1, QuietBegin
  <2>3. WatchesInv'
    <3>1. todo[c] \notin {AddsWatch, InsertsWatch, RemovesWatch, Drains, DrainsFirst}
      BY <1>1, <1>3 DEF Idles
    <3>2. todo'[c] \notin {AddsWatch, InsertsWatch}
      BY <1>3, <2>1
    <3>3. arg'[c].kind \in {"sftp", profiles[arg'[c].id]}
      BY <1>5, <2>1
    <3>4. UNCHANGED <<profiles, listed>> /\ runtimes \subseteq runtimes'
      BY <1>1 DEF PlacesStay
    <3> QED
      BY <1>1, <1>4, <2>1, <2>2, <3>1, <3>2, <3>3, <3>4, WatchesAlone
  <2> QED
    BY <2>2, <2>3
<1>6. CASE Workspaces!Close(c, id)
  <2>1. /\ profiles[id] \in Protocols /\ id \in Workspaces!Published
        /\ Workspaces!Continue(c, Workspaces!Closing(profiles[id]))
        /\ arg' = [arg EXCEPT ![c] = [Workspaces!NoArg EXCEPT !.id = id, !.kind = profiles[id]]]
    BY <1>0, <1>6 DEF Workspaces!Close, Listing
  <2>2. /\ profiles[id] = "ssh" => Workspaces!Closing(profiles[id]) = Stops
        /\ profiles[id] = "sftp" => Workspaces!Closing(profiles[id]) = RevokesFirst
        /\ profiles[id] = "database" => Workspaces!Closing(profiles[id]) = Revokes
    BY DEF Workspaces!Closing, Stops, RevokesFirst, Revokes
  <2>3. \A d \in Callers : About(d, id) => arg[d].kind = profiles[id]
    BY <1>0, <2>1, WorkspacesAssumption DEF OneKind, About
  <2>4. profiles[id] = "database" => id \notin runtimes
    BY <1>0 DEF NoRuntime
  <2>5. profiles[id] \in {"ssh", "sftp", "database"} /\ id \in used
    BY <1>0, <2>1 DEF Protocols
  <2>6. Workspaces!Closing(profiles[id]) \in {Stops, RevokesFirst, Revokes}
    BY <2>2, <2>5
  <2> QED
    BY <1>5, <2>1, <2>2, <2>3, <2>4, <2>5, <2>6
<1>7. CASE Workspaces!Listen(c, id)
  <2>1. /\ id \in used /\ profiles[id] = "sftp" /\ Workspaces!Continue(c, StartsWatch)
        /\ arg' = [arg EXCEPT ![c] = [Workspaces!NoArg EXCEPT !.id = id, !.kind = "sftp"]]
    BY <1>0, <1>7 DEF Workspaces!Listen, StartsWatch
  <2>2. \A d \in Callers : About(d, id) => arg[d].kind = "sftp"
    BY <1>0, <2>1, WorkspacesAssumption DEF OneKind, About, Protocols
  <2>3. "sftp" \in Protocols
    BY DEF Protocols
  <2> QED
    BY <1>5, <2>1, <2>2, <2>3
<1>8. CASE Workspaces!Unlisten(c, id)
  <2>1. /\ id \in used /\ watch[id] # NoWatch /\ Workspaces!Continue(c, StopsWatch)
        /\ arg' = [arg EXCEPT ![c] = [Workspaces!NoArg EXCEPT !.id = id, !.kind = "sftp"]]
    BY <1>0, <1>8 DEF Workspaces!Unlisten, StopsWatch
  <2>2. /\ profiles[id] \in {NoKind, "sftp"}
        /\ \A d \in Callers : About(d, id) => arg[d].kind = "sftp"
    BY <1>0, <2>1 DEF OfRuntimes
  <2>3. "sftp" \in Protocols
    BY DEF Protocols
  <2> QED
    BY <1>5, <2>1, <2>2, <2>3
<1> QED
  BY <1>6, <1>7, <1>8

LEMMA OpeningKeeps ==
  ASSUME PlacesInv, WatchesInv, NEW c \in Callers, Workspaces!Opening(c)
  PROVE  PlacesInv' /\ WatchesInv'
<1>0. Typed /\ Listing /\ Fits(c)
  BY DEF PlacesInv, Typed
<1> DEFINE Before == {Announces, Selects, TellsSelected, TellsSelectedThenEnds, Starts,
      SendsEnvironment, ListsLocal}
<1>1. /\ Workspaces!At(c, "opened") <=> todo[c] = Announces
      /\ Workspaces!At(c, "openedSelected") <=> todo[c] = Selects
      /\ Workspaces!At(c, "closedSelected") <=> todo[c] \in {TellsSelected, TellsSelectedThenEnds}
      /\ Workspaces!At(c, "runtime") <=> todo[c] = Starts
      /\ Workspaces!At(c, "environment") <=> todo[c] = SendsEnvironment
      /\ Workspaces!At(c, "local") <=> todo[c] = ListsLocal
  BY <1>0, PlanOf DEF Typed
<1>2. todo[c] \in Before
  BY <1>1 DEF Workspaces!Opening, Workspaces!NotifyOpened, Workspaces!NotifySelected,
     Workspaces!OpenSsh, Workspaces!EnvironmentSent, Workspaces!EnvironmentFails,
       Workspaces!OpenSftp,
     Workspaces!OpenSftpFails, Workspaces!OpenedSftp, Workspaces!OpenDatabase
<1>3. \A p \in Before : p \notin {<<>>, AddsWatch, InsertsWatch, RemovesWatch, Drains,
        DrainsFirst, Revokes,
                                 Stops, StopsFirst}
  <2>1. \A p \in Before : p # <<>>
    BY EmptyPlan DEF OpenPlans, TellPlans, EndPlans
  <2> QED
    BY <2>1, Heads
<1>4. ~Idles(c) /\ ~Removes(c) /\ arg[c].watch = NoWatch /\ arg[c].id \in used
        /\ arg[c].kind \in Protocols
  BY <1>0, <1>2, <1>3 DEF Idles, Removes, Fits
<1>5. WatchesStay /\ UNCHANGED <<used, profiles, listed, selected>>
  BY DEF Workspaces!Opening, Workspaces!NotifyOpened, Workspaces!NotifySelected,
     Workspaces!OpenSsh, Workspaces!EnvironmentSent, Workspaces!EnvironmentFails,
       Workspaces!OpenSftp,
     Workspaces!OpenSftpFails, Workspaces!OpenedSftp, Workspaces!OpenDatabase, WatchesStay,
     Workspaces!sessionVars, Workspaces!watchVars
<1>6. WatchTypes
  BY <1>0, <1>5 DEF WatchTypes, WatchesStay, Typed, Workspaces!TypeOK
<1>7. ASSUME PlacesInv', Moves(c), runtimes \subseteq runtimes',
             Idles(c)' \/ (arg'[c].id = arg[c].id /\ arg'[c].kind = arg[c].kind),
             arg'[c].watch = NoWatch
      PROVE  WatchesInv'
  <2>1. Fits(c)'
    BY <1>7 DEF PlacesInv, Typed
  <2>2. todo'[c] \notin {AddsWatch, InsertsWatch}
    BY <1>7, <2>1 DEF Fits
  <2>3. UNCHANGED <<profiles, listed>>
    BY <1>5
  <2> QED
    BY <1>2, <1>3, <1>4, <1>5, <1>7, <2>2, <2>3, WatchesAlone
<1>8. ASSUME Workspaces!NotifyOpened(c)
      PROVE  PlacesInv' /\ WatchesInv'
  <2>1. todo[c] = Announces /\ Workspaces!GoOn(c) /\ heard' = heard \cup {arg[c].id}
          /\ runtimes' = runtimes
    BY <1>1, <1>8 DEF Workspaces!NotifyOpened
  <2>2. Moves(c) /\ todo'[c] = Selects /\ arg'[c] = arg[c]
    <3>1. Len(todo[c]) # 1 /\ Tail(todo[c]) = Selects
      BY <2>1, Lengths, Tails
    <3> QED
      BY <1>0, <2>1, <3>1, GoOnMoves
  <2>3. PlacesInv'
    BY <1>5, <1>6, <2>1, <2>2, PlacesTold
  <2> QED
    BY <1>4, <1>7, <2>1, <2>2, <2>3
<1>9. ASSUME Workspaces!NotifySelected(c)
      PROVE  PlacesInv' /\ WatchesInv'
  <2>1. /\ todo[c] \in {Selects, TellsSelected, TellsSelectedThenEnds} /\ Workspaces!GoOn(c)
        /\ heard' = heard /\ runtimes' = runtimes
    BY <1>1, <1>9 DEF Workspaces!NotifySelected, Workspaces!sessionVars
  <2>2. PlacesStay
    BY <1>5, <2>1 DEF PlacesStay
  <2>3. /\ Moves(c)
        /\ todo[c] = Selects => todo'[c] = Starts /\ arg'[c] = arg[c]
        /\ todo[c] = TellsSelectedThenEnds => todo'[c] = Ends /\ arg'[c] = arg[c]
        /\ todo[c] = TellsSelected => todo'[c] = <<>> /\ arg'[c] = Workspaces!NoArg
    <3>1. todo[c] = Selects => Len(todo[c]) # 1 /\ Tail(todo[c]) = Starts
      BY Lengths, Tails
    <3>2. todo[c] = TellsSelectedThenEnds => Len(todo[c]) # 1 /\ Tail(todo[c]) = Ends
      BY Lengths, Tails
    <3>3. todo[c] = TellsSelected => Len(todo[c]) = 1
      BY Lengths
    <3> QED
      BY <1>0, <2>1, <3>1, <3>2, <3>3, GoOnMoves
  <2>4. CASE todo[c] = TellsSelected
    <3>1. TellsSelected \notin OpenPlans \cup EndPlans \cup {Tells, TellsBoth}
      BY Heads, Differ DEF OpenPlans, EndPlans
    <3>2. PlacesInv'
      BY <1>4, <1>6, <2>2, <2>3, <2>4, <3>1, QuietReturn
    <3> QED
      BY <1>7, <2>1, <2>3, <2>4, <3>2 DEF Idles, Workspaces!NoArg
  <2>5. CASE todo[c] # TellsSelected
    <3>1. PlacesInv'
      BY <1>6, <2>1, <2>2, <2>3, <2>5, QuietAdvance
    <3> QED
      BY <1>4, <1>7, <2>1, <2>3, <2>5, <3>1
  <2> QED
    BY <2>4, <2>5
<1>10. ASSUME Workspaces!OpenSsh(c) \/ Workspaces!OpenSftp(c)
       PROVE  PlacesInv' /\ WatchesInv'
  <2>1. /\ todo[c] = Starts /\ arg[c].kind \in {"ssh",
             "sftp"} /\ runtimes' = runtimes \cup {arg[c].id}
        /\ heard' = heard
        /\ \/ Workspaces!Return(c)
           \/ /\ UNCHANGED arg
              /\ \/ arg[c].kind = "ssh" /\ Workspaces!Continue(c, SendsEnvironment)
                 \/ arg[c].kind = "sftp" /\ Workspaces!Continue(c, ListsLocal)
    BY <1>1, <1>10 DEF Workspaces!OpenSsh, Workspaces!OpenSftp, Workspaces!sessionVars,
       SendsEnvironment, ListsLocal
  <2>2. arg[c].id \in Workspaces!Published
    <3>1. CASE arg[c].kind = "ssh"
      BY <1>0, <2>1, <3>1 DEF Listing, OpenPlans
    <3>2. CASE Workspaces!OpenSftp(c)
      BY <3>2 DEF Workspaces!OpenSftp
    <3> QED
      BY <1>10, <3>1, <3>2 DEF Workspaces!OpenSsh
  <2>3. CASE Workspaces!Return(c)
    <3>1. Moves(c) /\ todo'[c] = <<>> /\ arg'[c] = Workspaces!NoArg
      BY <1>0, <2>3, ReturnMoves
    <3>2. PlacesInv'
      BY <1>5, <1>6, <2>1, <2>2, <3>1, PlacesRun
    <3> QED
      BY <1>7, <2>1, <3>1, <3>2 DEF Idles, Workspaces!NoArg
  <2>4. CASE /\ UNCHANGED arg
             /\ \/ arg[c].kind = "ssh" /\ Workspaces!Continue(c, SendsEnvironment)
                \/ arg[c].kind = "sftp" /\ Workspaces!Continue(c, ListsLocal)
    <3>1. /\ Moves(c) /\ arg'[c] = arg[c]
          /\ \/ arg[c].kind = "ssh" /\ todo'[c] = SendsEnvironment
             \/ arg[c].kind = "sftp" /\ todo'[c] = ListsLocal
      BY <1>0, <2>4 DEF Moves, Workspaces!Continue, Typed, Workspaces!TypeOK, Args
    <3>2. PlacesInv'
      BY <1>5, <1>6, <2>1, <2>2, <3>1, PlacesRun
    <3> QED
      BY <1>4, <1>7, <2>1, <3>1, <3>2
  <2> QED
    BY <2>1, <2>3, <2>4
<1>11. ASSUME \/ Workspaces!EnvironmentSent(c)
              \/ Workspaces!OpenedSftp(c) /\ arg[c].id \in Workspaces!Published
       PROVE  PlacesInv' /\ WatchesInv'
  <2>1. todo[c] \in {SendsEnvironment,
          ListsLocal} /\ Workspaces!Return(c) /\ UNCHANGED <<runtimes, heard>>
    BY <1>1, <1>11 DEF Workspaces!EnvironmentSent, Workspaces!OpenedSftp, Workspaces!sessionVars
  <2>2. Moves(c) /\ todo'[c] = <<>> /\ arg'[c] = Workspaces!NoArg
    BY <1>0, <2>1, ReturnMoves
  <2>3. \A p \in {SendsEnvironment, ListsLocal} : p \notin OpenPlans \cup EndPlans \cup {Tells,
          TellsBoth}
    BY Heads DEF OpenPlans, EndPlans
  <2>4. PlacesInv'
    BY <1>4, <1>5, <1>6, <2>1, <2>2, <2>3, QuietReturn DEF PlacesStay
  <2> QED
    BY <1>7, <2>1, <2>2, <2>4 DEF Idles, Workspaces!NoArg
<1>12. ASSUME \/ Workspaces!EnvironmentFails(c) \/ Workspaces!OpenSftpFails(c)
              \/ Workspaces!OpenDatabase(c)
              \/ Workspaces!OpenedSftp(c) /\ arg[c].id \notin Workspaces!Published
       PROVE  PlacesInv' /\ WatchesInv'
  <2>1. /\ todo[c] \in {Starts, SendsEnvironment, ListsLocal} /\ Workspaces!Undo(c)
        /\ UNCHANGED <<runtimes, heard>>
    BY <1>1, <1>12 DEF Workspaces!EnvironmentFails, Workspaces!OpenSftpFails,
      Workspaces!OpenDatabase,
       Workspaces!OpenedSftp, Workspaces!sessionVars
  <2>2. /\ Moves(c) /\ arg'[c].undo = TRUE
        /\ arg'[c].id = arg[c].id /\ arg'[c].kind = arg[c].kind /\ arg'[c].watch = arg[c].watch
        /\ \/ todo'[c] = Stops /\ arg[c].kind = "ssh"
           \/ todo'[c] = StopsFirst /\ arg[c].kind = "sftp"
           \/ todo'[c] = Revokes /\ arg[c].kind = "database"
    BY <1>0, <1>4, <2>1, UndoMoves DEF Protocols
  <2>3. PlacesInv'
    BY <1>5, <1>6, <2>1, <2>2, QuietUndo DEF PlacesStay
  <2> QED
    BY <1>4, <1>7, <2>1, <2>2, <2>3
<1> QED
  BY <1>8, <1>9, <1>10, <1>11, <1>12 DEF Workspaces!Opening

LEMMA ClosesKeep ==
  ASSUME PlacesInv, WatchesInv, NEW c \in Callers, Workspaces!Closes(c)
  PROVE  PlacesInv' /\ WatchesInv'
<1>0. Typed /\ OneKind /\ Listing /\ OfRuntimes /\ ListedRun /\ Fits(c)
      /\ watch \in [Ids -> Watches \cup {NoWatch}] /\ alive \subseteq Watches
           /\ workspacesShown \subseteq used
  BY DEF PlacesInv, WatchesInv, Typed, Workspaces!TypeOK
<1> DEFINE Ending == {Tells, TellsBoth, TellsThenEnds, TellsBothThenEnds}
<1>1. /\ Workspaces!At(c, "closeRuntime") <=> todo[c] \in {Stops, StopsFirst, Ends}
      /\ Workspaces!At(c, "drain") <=> todo[c] \in {DrainsFirst, Drains}
      /\ Workspaces!At(c, "closeSession") <=> todo[c] \in {Revokes, RevokesFirst}
      /\ Workspaces!At(c, "closed") <=> todo[c] \in Ending
  BY <1>0, PlanOf DEF Typed
<1>2. todo[c] \in {Stops, StopsFirst, Ends, DrainsFirst, Drains, Revokes, RevokesFirst} \cup Ending
  BY <1>1 DEF Workspaces!Closes, Workspaces!CloseSsh, Workspaces!CloseSftp, Workspaces!Drain,
     Workspaces!CloseSession, Workspaces!CloseSessionFails, Workspaces!NotifyClosed
<1>3. \A p \in {Stops, StopsFirst, Ends, DrainsFirst, Drains, Revokes, RevokesFirst} \cup Ending :
        /\ p # <<>>
        /\ p \notin {AddsWatch, InsertsWatch, RemovesWatch}
        /\ p \notin OpenPlans \cup WatchPlans
  <2>1. \A p \in {Stops, StopsFirst, Ends, DrainsFirst, Drains, Revokes,
          RevokesFirst} \cup Ending : p # <<>>
    BY EmptyPlan DEF TellPlans, EndPlans
  <2>2. \A p \in {Stops, StopsFirst, Ends, DrainsFirst, Drains, Revokes, RevokesFirst} \cup Ending :
          p \notin OpenPlans \cup WatchPlans
    BY Heads DEF OpenPlans, WatchPlans
  <2> QED
    BY <2>1, <2>2 DEF WatchPlans
<1>4. ~Idles(c) /\ arg[c].watch = NoWatch /\ arg[c].id \in used /\ arg[c].kind \in Protocols
      /\ arg[c].id \in Ids
  BY <1>0, <1>2, <1>3 DEF Idles, Fits, Typed, Workspaces!TypeOK
<1>5. \A p \in {Stops, StopsFirst, DrainsFirst, Drains, Revokes, RevokesFirst} :
        p \notin OpenPlans \cup EndPlans \cup {Tells, TellsBoth}
  BY Heads, Differ DEF OpenPlans, EndPlans
<1>6. ASSUME Workspaces!CloseSsh(c)
      PROVE  PlacesInv' /\ WatchesInv'
  <2>1. /\ todo[c] \in {Stops, StopsFirst,
             Ends} /\ arg[c].kind = "ssh" /\ runtimes' = runtimes \ {arg[c].id}
        /\ IF arg[c].id \in runtimes THEN Workspaces!GoOn(c) ELSE Workspaces!GiveUp(c)
        /\ UNCHANGED <<used, profiles, listed, selected, heard>> /\ WatchesStay
    BY <1>1, <1>6 DEF Workspaces!CloseSsh, Workspaces!sessionVars, Workspaces!watchVars, WatchesStay
  <2>2. todo[c] = Stops
    BY <1>0, <2>1 DEF Fits, EndPlans
  <2>3. WatchTypes
    BY <1>0, <2>1 DEF WatchTypes, WatchesStay
  <2>4. CASE Workspaces!GoOn(c) /\ (arg[c].id \in runtimes \/ Undoes(c))
    <3>1. Moves(c) /\ todo'[c] = Revokes /\ arg'[c] = arg[c]
      <4>1. Len(todo[c]) # 1 /\ Tail(todo[c]) = Revokes
        BY <2>2, Lengths, Tails
      <4> QED
        BY <1>0, <2>4, <4>1, GoOnMoves
    <3>2. PlacesInv'
      BY <2>1, <2>2, <2>3, <2>4, <3>1, PlacesStop
    <3>3. watch[arg[c].id] = NoWatch
      BY <1>0, <1>4, <2>1 DEF OfRuntimes, About
    <3>4. ASSUME NEW d \in Callers, todo[d] = InsertsWatch PROVE arg[d].id # arg[c].id
      <4>1. ~Idles(d) /\ arg[d].kind = "sftp"
        BY <1>0, <3>4, EmptyPlan DEF Typed, Fits, Idles, WatchPlans
      <4> QED
        BY <1>0, <1>4, <2>1, <4>1 DEF OneKind, About
    <3>5. \A id \in runtimes \ runtimes' :
            /\ watch[id] # NoWatch => About(c, id)' /\ todo'[c] \in {Drains, DrainsFirst}
            /\ \A d \in Callers : todo[d] = InsertsWatch => arg[d].id # id
      BY <2>1, <3>3, <3>4
    <3>6. Workspaces!Published' = Workspaces!Published
      BY <2>1 DEF Workspaces!Published, Workspaces!ToSet
    <3>7. \A id \in Ids : watch[id] # NoWatch => profiles'[id] = profiles[id] /\ ~About(c, id)'
      BY <2>1, <3>1, <3>3 DEF About
    <3>8. Removes(c)' /\ todo'[c] # InsertsWatch
      BY <1>3, <3>1 DEF Removes
    <3>9. todo[c] \notin {Drains, DrainsFirst, InsertsWatch, RemovesWatch}
      BY <2>2, Heads
    <3>10. WatchesInv'
      BY <2>1, <3>1, <3>5, <3>6, <3>7, <3>8, <3>9, WatchesKept DEF WatchesStay
    <3> QED
      BY <3>2, <3>10
  <2>5. CASE Workspaces!Return(c) /\ ~Undoes(c) /\ arg[c].id \notin runtimes
    <3>1. Moves(c) /\ todo'[c] = <<>> /\ arg'[c] = Workspaces!NoArg
      BY <1>0, <2>5, ReturnMoves
    <3>2. PlacesStay /\ UNCHANGED <<profiles, listed>> /\ runtimes \subseteq runtimes'
      BY <2>1, <2>5 DEF PlacesStay
    <3>3. ~Removes(c)
      BY <2>2, <2>5, Heads DEF Removes
    <3>4. PlacesInv'
      BY <1>5, <2>2, <2>3, <3>1, <3>2, <3>3, QuietReturn
    <3>5. /\ todo[c] \notin {AddsWatch, InsertsWatch, RemovesWatch, Drains, DrainsFirst}
          /\ <<>> \notin {AddsWatch, InsertsWatch}
      BY <2>2, Heads, EmptyPlan DEF WatchPlans
    <3>6. WatchesInv'
      BY <2>1, <3>1, <3>2, <3>3, <3>4, <3>5, WatchesAlone DEF Idles
    <3> QED
      BY <3>4, <3>6
  <2> QED
    BY <2>1, <2>4, <2>5 DEF Workspaces!GiveUp, Undoes, Typed, Workspaces!TypeOK
<1>7. ASSUME Workspaces!CloseSftp(c)
      PROVE  PlacesInv' /\ WatchesInv'
  <2>1. /\ todo[c] \in {Stops, StopsFirst,
             Ends} /\ arg[c].kind = "sftp" /\ runtimes' = runtimes \ {arg[c].id}
        /\ Workspaces!GoOn(c) /\ Workspaces!RuntimesFree
        /\ UNCHANGED <<used, profiles, listed, selected, heard>> /\ WatchesStay
    BY <1>1, <1>7 DEF Workspaces!CloseSftp, Workspaces!sessionVars, Workspaces!watchVars,
      WatchesStay
  <2>2. todo[c] \in {StopsFirst, Ends}
    BY <1>0, <2>1 DEF Fits
  <2>3. WatchTypes
    BY <1>0, <2>1 DEF WatchTypes, WatchesStay
  <2>4. /\ Moves(c) /\ arg'[c] = arg[c]
        /\ \/ todo[c] = StopsFirst /\ todo'[c] = DrainsFirst
           \/ todo[c] = Ends /\ todo'[c] = Drains
    <3>1. todo[c] = StopsFirst => Len(todo[c]) # 1 /\ Tail(todo[c]) = DrainsFirst
      BY Lengths, Tails
    <3>2. todo[c] = Ends => Len(todo[c]) # 1 /\ Tail(todo[c]) = Drains
      BY Lengths, Tails
    <3> QED
      BY <1>0, <2>1, <2>2, <3>1, <3>2, GoOnMoves
  <2>5. PlacesInv'
    BY <2>1, <2>3, <2>4, PlacesStop
  <2>6. \A d \in Callers : todo[d] # InsertsWatch
    BY <1>0, <2>1, PlanOf DEF Typed, Workspaces!RuntimesFree
  <2>7. Workspaces!Published' = Workspaces!Published
    BY <2>1 DEF Workspaces!Published, Workspaces!ToSet
  <2>8. ~Idles(c)' /\ todo'[c] \in {Drains, DrainsFirst} /\ todo'[c] # InsertsWatch
    BY <1>3, <2>4 DEF Idles
  <2>9. todo[c] \notin {Drains, DrainsFirst, InsertsWatch, RemovesWatch}
    BY <2>2, Heads
  <2>10. ASSUME NEW id \in Ids, watch[id] # NoWatch
         PROVE  profiles'[id] = profiles[id] /\ (About(c, id)' => arg'[c].kind = "sftp")
    BY <2>1, <2>4
  <2>11. ASSUME Removes(c)
         PROVE  Removes(c)'
    <3>1. Ends \notin {Revokes, Stops, StopsFirst, DrainsFirst}
      BY Heads, Differ
    <3>2. todo[c] = StopsFirst /\ Undoes(c)
      <4>1. StopsFirst # Revokes
        BY Heads
      <4> QED
        BY <2>2, <2>11, <3>1, <4>1 DEF Removes
    <3>3. todo'[c] = DrainsFirst
      BY <2>4, <3>1, <3>2
    <3> QED
      BY <2>4, <3>2, <3>3 DEF Removes, Undoes
  <2>12. \A id \in runtimes \ runtimes' : About(c, id)'
    BY <2>1, <2>4, <2>8 DEF About
  <2>13. WatchesInv'
    BY <2>1, <2>4, <2>6, <2>7, <2>8, <2>9, <2>10, <2>11, <2>12, WatchesKept DEF WatchesStay
  <2> QED
    BY <2>5, <2>13
<1>8. ASSUME Workspaces!Drain(c)
      PROVE  PlacesInv' /\ WatchesInv'
  <2>1. /\ todo[c] \in {DrainsFirst, Drains} /\ Workspaces!GoOn(c) /\ PlacesStay
        /\ alive' = alive \ {watch[arg[c].id]} /\ watch' = [watch EXCEPT ![arg[c].id] = NoWatch]
        /\ workspacesShown' = workspacesShown /\ used' = used
    BY <1>1, <1>8 DEF Workspaces!Drain, Workspaces!sessionVars, PlacesStay
  <2>2. WatchTypes
    BY <1>0, <2>1 DEF WatchTypes
  <2>3. /\ Moves(c)
        /\ todo[c] = DrainsFirst => todo'[c] = Revokes /\ arg'[c] = arg[c]
        /\ todo[c] = Drains => todo'[c] = <<>> /\ arg'[c] = Workspaces!NoArg
    <3>1. todo[c] = DrainsFirst => Len(todo[c]) # 1 /\ Tail(todo[c]) = Revokes
      BY Lengths, Tails
    <3>2. todo[c] = Drains => Len(todo[c]) = 1
      BY Lengths
    <3> QED
      BY <1>0, <2>1, <3>1, <3>2, GoOnMoves
  <2>4. /\ \A p \in {Drains, DrainsFirst} : p \notin {InsertsWatch, RemovesWatch}
        /\ InsertsWatch \notin {<<>>, Revokes}
        /\ Drains \notin {Revokes, Stops, StopsFirst, DrainsFirst} /\ Revokes # <<>>
    BY Heads, Differ, EmptyPlan DEF WatchPlans
  <2>5. CASE todo[c] = DrainsFirst
    <3>1. PlacesInv'
      BY <2>1, <2>2, <2>3, <2>5, QuietAdvance
    <3>2. Removes(c)' /\ ~Idles(c)'
      BY <2>3, <2>4, <2>5 DEF Removes, Idles
    <3>3. WatchesInv'
      BY <1>4, <2>1, <2>3, <2>4, <2>5, <3>2, WatchesStopped
    <3> QED
      BY <3>1, <3>3
  <2>6. CASE todo[c] = Drains
    <3>1. ~Removes(c) /\ Idles(c)' /\ arg'[c].watch = NoWatch
      BY <2>3, <2>4, <2>6 DEF Removes, Idles, Workspaces!NoArg
    <3>2. PlacesInv'
      BY <1>5, <2>1, <2>2, <2>3, <2>6, <3>1, QuietReturn
    <3>3. arg[c].id \notin workspacesShown
      BY <1>0, <2>6 DEF Listing, ListedRun
    <3>4. WatchesInv'
      BY <1>4, <2>1, <2>3, <2>4, <2>6, <3>1, <3>3, WatchesStopped
    <3> QED
      BY <3>2, <3>4
  <2> QED
    BY <2>1, <2>5, <2>6
<1>9. ASSUME Workspaces!CloseSession(c)
      PROVE  PlacesInv' /\ WatchesInv'
  <2> DEFINE id == arg[c].id
  <2>1. PlacesInv'
    BY <1>9, PlacesRevoked
  <2>2. /\ todo[c] \in {Revokes, RevokesFirst} /\ profiles[id] # NoKind
        /\ profiles' = [profiles EXCEPT ![id] = NoKind]
        /\ listed' = Workspaces!RemoveAt(listed, Workspaces!Position(id))
        /\ workspacesShown' = workspacesShown \ {id}
        /\ UNCHANGED <<runtimes, watch, alive>> /\ arg' = arg
        /\ todo' = [todo EXCEPT ![c] = (IF selected = id THEN TellsBoth ELSE Tells) \o
             Tail(todo[c])]
    BY <1>1, <1>9 DEF Workspaces!CloseSession, Workspaces!Continue, Tells, TellsBoth
  <2>3. Moves(c) /\ todo'[c] \in Ending
    <3>1. todo'[c] = (IF selected = id THEN TellsBoth ELSE Tells) \o Tail(todo[c])
      BY <1>0, <2>2 DEF Typed
    <3>2. todo'[c] \in Ending
      BY <2>2, <3>1, AfterRevoking
    <3> QED
      BY <1>0, <2>2, <3>1, <3>2 DEF Moves, Typed, Workspaces!TypeOK, Args
  <2>4. Workspaces!Published' = Workspaces!Published \ {id}
    <3>1. listed \in Seq(Ids) /\ Workspaces!IsInjective(listed) /\ id \in Workspaces!Published
      BY <1>0, <1>4, <2>2 DEF Listing, Typed, Workspaces!TypeOK
    <3>2. listed' = Workspaces!RemoveAt(listed, Workspaces!Position(id))
      BY <2>2
    <3> QED
      BY <3>1, <3>2, RemoveRevokes DEF Workspaces!Published
  <2>5. \A i \in Ids : profiles'[i] \in {NoKind, profiles[i]}
    BY <1>0, <1>4, <2>2 DEF Typed, Workspaces!TypeOK
  <2>6. WatchesInv'
    BY <1>4, <2>2, <2>3, <2>4, <2>5, WatchesUnlisted
  <2> QED
    BY <2>1, <2>6
<1>10. ASSUME Workspaces!CloseSessionFails(c)
       PROVE  PlacesInv' /\ WatchesInv'
  <2>1. /\ todo[c] \in {Revokes, RevokesFirst} /\ profiles[arg[c].id] = NoKind
        /\ Workspaces!GiveUp(c) /\ PlacesStay /\ WatchesStay
        /\ UNCHANGED <<used, profiles, listed, runtimes>>
    BY <1>1, <1>10 DEF Workspaces!CloseSessionFails, Workspaces!sessionVars, Workspaces!watchVars,
       PlacesStay, WatchesStay
  <2>2. Moves(c) /\ todo'[c] = <<>> /\ arg'[c] = Workspaces!NoArg
    <3>1. CASE Workspaces!GoOn(c) /\ Undoes(c)
      <4>1. todo[c] = Revokes
        BY <1>0, <2>1, <3>1 DEF Fits
      <4>2. Len(todo[c]) = 1
        BY <4>1, Lengths
      <4> QED
        BY <1>0, <3>1, <4>2, GoOnMoves
    <3>2. CASE Workspaces!Return(c)
      BY <1>0, <3>2, ReturnMoves
    <3> QED
      BY <2>1, <3>1, <3>2 DEF Workspaces!GiveUp, Undoes, Typed, Workspaces!TypeOK
  <2>3. arg[c].id \notin Workspaces!Published
    BY <1>0, <1>4, <2>1 DEF Listing
  <2>4. WatchTypes
    BY <1>0, <2>1 DEF WatchTypes, WatchesStay
  <2>5. PlacesInv'
    BY <1>5, <2>1, <2>2, <2>3, <2>4, QuietReturn
  <2>6. /\ todo[c] \notin {AddsWatch, InsertsWatch, RemovesWatch, Drains, DrainsFirst}
        /\ <<>> \notin {AddsWatch, InsertsWatch}
    BY <2>1, Heads, EmptyPlan DEF WatchPlans
  <2>7. WatchesInv'
    BY <2>1, <2>2, <2>3, <2>5, <2>6, WatchesAlone DEF Idles
  <2> QED
    BY <2>5, <2>7
<1>11. ASSUME Workspaces!NotifyClosed(c)
       PROVE  PlacesInv' /\ WatchesInv'
  <2>1. /\ todo[c] \in Ending /\ Workspaces!GoOn(c) /\ heard' = heard \ {arg[c].id} /\ WatchesStay
        /\ UNCHANGED <<used, profiles, listed, selected, runtimes>>
    BY <1>1, <1>11 DEF Workspaces!NotifyClosed, Workspaces!watchVars, WatchesStay
  <2>2. /\ Moves(c)
        /\ \/ todo[c] = TellsBoth /\ todo'[c] = TellsSelected /\ arg'[c] = arg[c]
           \/ todo[c] = TellsThenEnds /\ todo'[c] = Ends /\ arg'[c] = arg[c]
           \/ todo[c] = TellsBothThenEnds /\ todo'[c] = TellsSelectedThenEnds /\ arg'[c] = arg[c]
           \/ todo[c] = Tells /\ todo'[c] = <<>> /\ arg'[c] = Workspaces!NoArg
    <3>1. todo[c] = TellsBoth => Len(todo[c]) # 1 /\ Tail(todo[c]) = TellsSelected
      BY Lengths, Tails
    <3>2. todo[c] = TellsThenEnds => Len(todo[c]) # 1 /\ Tail(todo[c]) = Ends
      BY Lengths, Tails
    <3>3. todo[c] = TellsBothThenEnds => Len(todo[c]) # 1 /\ Tail(todo[c]) = TellsSelectedThenEnds
      BY Lengths, Tails
    <3>4. todo[c] = Tells => Len(todo[c]) = 1
      BY Lengths
    <3> QED
      BY <1>0, <2>1, <3>1, <3>2, <3>3, <3>4, GoOnMoves
  <2>3. WatchTypes
    BY <1>0, <2>1 DEF WatchTypes, WatchesStay
  <2>4. PlacesInv'
    BY <2>1, <2>2, <2>3, PlacesTold
  <2>5. /\ todo[c] \notin {AddsWatch, InsertsWatch, RemovesWatch, Drains, DrainsFirst, Revokes,
             Stops, StopsFirst}
        /\ \A p \in {TellsSelected, Ends, TellsSelectedThenEnds} : p \notin {AddsWatch,
             InsertsWatch}
        /\ <<>> \notin {AddsWatch, InsertsWatch}
    BY <2>1, Heads, EmptyPlan DEF WatchPlans
  <2>6. ~Removes(c) /\ todo'[c] \notin {AddsWatch, InsertsWatch}
    BY <2>2, <2>5 DEF Removes
  <2>7. Idles(c)' \/ (arg'[c].id = arg[c].id /\ arg'[c].kind = arg[c].kind)
    BY <2>2 DEF Idles
  <2>8. WatchesInv'
    BY <1>4, <2>1, <2>2, <2>4, <2>5, <2>6, <2>7, WatchesAlone
  <2> QED
    BY <2>4, <2>8
<1> QED
  BY <1>6, <1>7, <1>8, <1>9, <1>10, <1>11 DEF Workspaces!Closes

LEMMA WatchingKeeps ==
  ASSUME PlacesInv, WatchesInv, NEW c \in Callers, Workspaces!Watching(c)
  PROVE  PlacesInv' /\ WatchesInv'
<1>0. Typed /\ Fits(c)
      /\ watch \in [Ids -> Watches \cup {NoWatch}] /\ alive \subseteq Watches
           /\ workspacesShown \subseteq used
  BY DEF PlacesInv, Typed, Workspaces!TypeOK
<1>1. /\ Workspaces!At(c, "watchPath") <=> todo[c] = StartsWatch
      /\ Workspaces!At(c, "addWatch") <=> todo[c] = AddsWatch
      /\ Workspaces!At(c, "insertWatch") <=> todo[c] = InsertsWatch
      /\ Workspaces!At(c, "unwatch") <=> todo[c] = StopsWatch
      /\ Workspaces!At(c, "removeWatch") <=> todo[c] = RemovesWatch
  BY <1>0, PlanOf DEF Typed
<1>2. todo[c] \in WatchPlans
  BY <1>1 DEF Workspaces!Watching, Workspaces!WatchPath, Workspaces!WatchPathFails,
    Workspaces!AddWatch,
     Workspaces!AddWatchFails, Workspaces!InsertWatch, Workspaces!Unwatch, Workspaces!RemoveWatch,
     WatchPlans
<1>3. \A p \in WatchPlans :
        p \notin OpenPlans \cup EndPlans \cup
             {<<>>, Tells, TellsBoth, Drains, DrainsFirst, Revokes, Stops, StopsFirst}
  <2>1. \A p \in WatchPlans : p \notin OpenPlans \cup EndPlans
    BY Heads DEF OpenPlans, EndPlans, WatchPlans
  <2>2. \A p \in WatchPlans : p \notin {Tells, TellsBoth, Drains, DrainsFirst, Revokes, Stops,
          StopsFirst}
    BY Heads DEF WatchPlans
  <2> QED
    BY <2>1, <2>2, EmptyPlan
<1>4. /\ ~Idles(c) /\ ~Removes(c) /\ arg[c].id \in used /\ arg[c].id \in Ids
      /\ arg[c].watch \in Watches \cup {NoWatch}
      /\ arg[c].watch # NoWatch <=> todo[c] \in {AddsWatch, InsertsWatch}
  BY <1>0, <1>2, <1>3 DEF Idles, Removes, Fits, Typed, Workspaces!TypeOK
<1>5. PlacesStay /\ used' = used
  BY DEF Workspaces!Watching, Workspaces!WatchPath, Workspaces!WatchPathFails, Workspaces!AddWatch,
     Workspaces!AddWatchFails, Workspaces!InsertWatch, Workspaces!Unwatch, Workspaces!RemoveWatch,
     PlacesStay, Workspaces!sessionVars, Workspaces!watchVars
<1>6. /\ StartsWatch \notin {AddsWatch, InsertsWatch, RemovesWatch}
      /\ StopsWatch \notin {AddsWatch, InsertsWatch, RemovesWatch}
      /\ RemovesWatch \notin {AddsWatch, InsertsWatch} /\ AddsWatch # InsertsWatch
  BY Heads
<1>7. ASSUME Moves(c), todo'[c] = <<>>, arg'[c] = Workspaces!NoArg, WatchTypes
      PROVE  PlacesInv'
  BY <1>2, <1>3, <1>4, <1>5, <1>7, QuietReturn
<1>8. <<>> # InsertsWatch /\ <<>> # AddsWatch /\ <<>> # RemovesWatch
  BY <1>3 DEF WatchPlans
<1>9. ASSUME NEW w \in Watches, Workspaces!WatchPath(c, w)
      PROVE  PlacesInv' /\ WatchesInv'
  <2>1. /\ todo[c] = StartsWatch /\ w \notin alive /\ alive' = alive \cup {w}
        /\ Workspaces!Continue(c, Tail(todo[c])) /\ arg' = [arg EXCEPT ![c].watch = w]
        /\ UNCHANGED <<watch, workspacesShown>>
    BY <1>1, <1>9 DEF Workspaces!WatchPath
  <2>2. /\ Moves(c) /\ todo'[c] = AddsWatch /\ arg'[c].id = arg[c].id /\ arg'[c].kind = arg[c].kind
        /\ arg'[c].undo = arg[c].undo /\ arg'[c].watch = w
    <3>1. arg \in [Callers -> Args] /\ todo \in [Callers -> Plans]
      BY <1>0 DEF Typed, Workspaces!TypeOK, Args
    <3>2. /\ todo' = [todo EXCEPT ![c] = AddsWatch]
          /\ arg' = [arg EXCEPT ![c] = [arg[c] EXCEPT !.watch = w]]
      BY <2>1, <3>1, Tails DEF Workspaces!Continue
    <3>3. /\ [arg[c] EXCEPT !.watch = w] \in Args
          /\ [arg[c] EXCEPT !.watch = w].id = arg[c].id
               /\ [arg[c] EXCEPT !.watch = w].kind = arg[c].kind
          /\ [arg[c] EXCEPT !.watch = w].undo = arg[c].undo /\ [arg[c] EXCEPT !.watch = w].watch = w
      BY <3>1 DEF Args
    <3> QED
      BY <3>1, <3>2, <3>3 DEF Moves
  <2>3. WatchTypes
    BY <1>0, <1>5, <2>1 DEF WatchTypes
  <2>4. w # NoWatch
    BY WorkspacesAssumption
  <2>5. PlacesInv'
    BY <1>5, <2>1, <2>2, <2>3, <2>4, QuietAdvance
  <2>6. WatchesInv'
    BY <1>5, <2>1, <2>2, WatchesBegin
  <2> QED
    BY <2>5, <2>6
<1>10. ASSUME Workspaces!WatchPathFails(c)
       PROVE  PlacesInv' /\ WatchesInv'
  <2>1. todo[c] = StartsWatch /\ Workspaces!Return(c) /\ WatchesStay
    BY <1>1, <1>10 DEF Workspaces!WatchPathFails, Workspaces!watchVars, WatchesStay
  <2>2. Moves(c) /\ todo'[c] = <<>> /\ arg'[c] = Workspaces!NoArg
    BY <1>0, <2>1, ReturnMoves
  <2>3. WatchTypes
    BY <1>0, <1>5, <2>1 DEF WatchTypes, WatchesStay
  <2>4. PlacesInv'
    BY <1>7, <2>2, <2>3
  <2>5. /\ UNCHANGED <<profiles, listed>> /\ runtimes \subseteq runtimes'
        /\ todo[c] \notin {AddsWatch, InsertsWatch, RemovesWatch, Drains, DrainsFirst}
    BY <1>2, <1>3, <1>5, <1>6, <2>1 DEF PlacesStay
  <2>6. WatchesInv'
    BY <1>4, <1>8, <2>1, <2>2, <2>4, <2>5, WatchesAlone DEF Idles
  <2> QED
    BY <2>4, <2>6
<1>11. ASSUME Workspaces!AddWatch(c)
       PROVE  PlacesInv' /\ WatchesInv'
  <2>1. /\ todo[c] = AddsWatch /\ arg[c].id \in runtimes \cap Workspaces!Published
        /\ workspacesShown' = workspacesShown \cup {arg[c].id} /\ UNCHANGED <<watch, alive>>
        /\ Workspaces!GoOn(c)
    BY <1>1, <1>11 DEF Workspaces!AddWatch
  <2>2. Moves(c) /\ todo'[c] = InsertsWatch /\ arg'[c] = arg[c]
    <3>1. Len(todo[c]) # 1 /\ Tail(todo[c]) = InsertsWatch
      BY <2>1, Lengths, Tails
    <3> QED
      BY <1>0, <2>1, <3>1, GoOnMoves
  <2>3. WatchTypes
    BY <1>0, <1>4, <1>5, <2>1 DEF WatchTypes
  <2>4. arg'[c].watch # NoWatch
    BY <1>4, <2>1, <2>2
  <2>5. PlacesInv'
    BY <1>5, <2>1, <2>2, <2>3, <2>4, QuietAdvance
  <2>6. WatchesInv'
    BY <1>5, <2>1, <2>2, WatchesAdded
  <2> QED
    BY <2>5, <2>6
<1>12. ASSUME Workspaces!AddWatchFails(c)
       PROVE  PlacesInv' /\ WatchesInv'
  <2>1. /\ todo[c] = AddsWatch /\ alive' = alive \ {arg[c].watch}
        /\ UNCHANGED <<watch, workspacesShown>> /\ Workspaces!Return(c)
    BY <1>1, <1>12 DEF Workspaces!AddWatchFails
  <2>2. Moves(c) /\ todo'[c] = <<>> /\ arg'[c] = Workspaces!NoArg
    BY <1>0, <2>1, ReturnMoves
  <2>3. WatchTypes
    BY <1>0, <1>5, <2>1 DEF WatchTypes
  <2>4. PlacesInv'
    BY <1>7, <2>2, <2>3
  <2>5. WatchesInv'
    BY <1>5, <2>1, <2>2, WatchesAdded
  <2> QED
    BY <2>4, <2>5
<1>13. ASSUME Workspaces!InsertWatch(c)
       PROVE  PlacesInv' /\ WatchesInv'
  <2>1. /\ todo[c] = InsertsWatch /\ alive' = alive \ {watch[arg[c].id]}
        /\ watch' = [watch EXCEPT ![arg[c].id] = arg[c].watch]
        /\ workspacesShown' = workspacesShown /\ Workspaces!Return(c)
    BY <1>1, <1>13 DEF Workspaces!InsertWatch
  <2>2. Moves(c) /\ todo'[c] = <<>> /\ arg'[c] = Workspaces!NoArg
    BY <1>0, <2>1, ReturnMoves
  <2>3. WatchTypes
    BY <1>0, <1>4, <1>5, <2>1 DEF WatchTypes
  <2>4. PlacesInv'
    BY <1>7, <2>2, <2>3
  <2>5. WatchesInv'
    BY <1>5, <2>1, <2>2, WatchesInserted
  <2> QED
    BY <2>4, <2>5
<1>14. ASSUME Workspaces!Unwatch(c)
       PROVE  PlacesInv' /\ WatchesInv'
  <2>1. /\ todo[c] = StopsWatch /\ alive' = alive \ {watch[arg[c].id]}
        /\ watch' = [watch EXCEPT ![arg[c].id] = NoWatch] /\ workspacesShown' = workspacesShown
        /\ IF watch[arg[c].id] # NoWatch THEN Workspaces!GoOn(c) ELSE Workspaces!Return(c)
    BY <1>1, <1>14 DEF Workspaces!Unwatch
  <2>2. WatchTypes
    BY <1>0, <1>4, <1>5, <2>1 DEF WatchTypes
  <2>3. arg[c].watch = NoWatch /\ todo[c] \notin {InsertsWatch, RemovesWatch}
    BY <1>4, <1>6, <2>1
  <2>4. CASE watch[arg[c].id] # NoWatch
    <3>1. Moves(c) /\ todo'[c] = RemovesWatch /\ arg'[c] = arg[c]
      <4>1. Len(todo[c]) # 1 /\ Tail(todo[c]) = RemovesWatch
        BY <2>1, Lengths, Tails
      <4> QED
        BY <1>0, <2>1, <2>4, <4>1, GoOnMoves
    <3>2. PlacesInv'
      BY <1>5, <2>1, <2>2, <3>1, QuietAdvance
    <3>3. ~Idles(c)' /\ todo'[c] # InsertsWatch
      BY <1>6, <1>8, <3>1 DEF Idles
    <3>4. WatchesInv'
      BY <1>4, <1>5, <2>1, <2>3, <3>1, <3>3, WatchesStopped
    <3> QED
      BY <3>2, <3>4
  <2>5. CASE watch[arg[c].id] = NoWatch
    <3>1. Moves(c) /\ todo'[c] = <<>> /\ arg'[c] = Workspaces!NoArg
      BY <1>0, <2>1, <2>5, ReturnMoves
    <3>2. PlacesInv'
      BY <1>7, <2>2, <3>1
    <3>3. Idles(c)' /\ todo'[c] # InsertsWatch /\ arg'[c].watch = NoWatch
      BY <1>8, <3>1 DEF Idles, Workspaces!NoArg
    <3>4. WatchesInv'
      BY <1>4, <1>5, <2>1, <2>3, <2>5, <3>1, <3>3, WatchesStopped
    <3> QED
      BY <3>2, <3>4
  <2> QED
    BY <2>4, <2>5
<1>15. ASSUME Workspaces!RemoveWatch(c)
       PROVE  PlacesInv' /\ WatchesInv'
  <2>1. /\ todo[c] = RemovesWatch /\ workspacesShown' = workspacesShown \ {arg[c].id}
        /\ UNCHANGED <<watch, alive>> /\ Workspaces!Return(c)
    BY <1>1, <1>15 DEF Workspaces!RemoveWatch
  <2>2. Moves(c) /\ todo'[c] = <<>> /\ arg'[c] = Workspaces!NoArg
    BY <1>0, <2>1, ReturnMoves
  <2>3. WatchTypes
    BY <1>0, <1>5, <2>1 DEF WatchTypes
  <2>4. PlacesInv'
    BY <1>7, <2>2, <2>3
  <2>5. /\ Workspaces!Published' = Workspaces!Published /\ profiles' = profiles
             /\ runtimes' = runtimes
    BY <1>5 DEF PlacesStay, Workspaces!Published, Workspaces!ToSet
  <2>6. WatchesInv'
    BY <1>4, <2>1, <2>2, <2>5, WatchesUnlisted
  <2> QED
    BY <2>4, <2>6
<1> QED
  BY <1>9, <1>10, <1>11, <1>12, <1>13, <1>14, <1>15 DEF Workspaces!Watching

LEMMA InitWorkspaces == Workspaces!Init => PlacesInv /\ WatchesInv
<1> SUFFICES ASSUME Workspaces!Init PROVE PlacesInv /\ WatchesInv
  OBVIOUS
<1> USE DEF Workspaces!Init
<1>1. Workspaces!Published = {} /\ Workspaces!IsInjective(listed) /\ listed \in Seq(Ids)
  BY DEF Workspaces!Published, Workspaces!ToSet, Workspaces!IsInjective
<1>2. \A c \in Callers : todo[c] = <<>> /\ arg[c] = Workspaces!NoArg
  OBVIOUS
<1>3. \A c \in Callers : Idles(c) /\ ~Undoes(c) /\ arg[c].watch = NoWatch
  BY <1>2 DEF Idles, Undoes, Workspaces!NoArg
<1>4. <<>> \notin OpenPlans \cup TellPlans \cup EndPlans \cup WatchPlans \cup
         {SendsEnvironment, ListsLocal, Stops, StopsFirst, DrainsFirst, Revokes, RevokesFirst,
           Drains}
  BY EmptyPlan
<1>5. AddsWatch # <<>> /\ InsertsWatch # <<>> /\ Announces # <<>>
  BY <1>4 DEF WatchPlans, OpenPlans
<1>6. \A c \in Callers : Fits(c)
  BY <1>2, <1>3, <1>4, <1>5 DEF Fits, Plans
<1>7. Typed
  <2>1. todo \in [Callers -> Plans]
    BY DEF Plans
  <2>2. arg \in [Callers -> Args]
    BY DEF Args, Workspaces!NoArg
  <2>3. \A c \in Callers : Workspaces!ToSet(todo[c]) \subseteq Workspaces!Steps
    BY <2>1, PlansAreSteps
  <2>4. profiles \in [Ids -> Protocols \cup {NoKind}] /\ watch \in [Ids -> Watches \cup {NoWatch}]
    OBVIOUS
  <2>5. Workspaces!TypeOK
    BY <1>1, <2>2, <2>3, <2>4 DEF Workspaces!TypeOK, Args
  <2> QED
    BY <1>1, <1>6, <2>1, <2>5 DEF Typed
<1>8. OneKind /\ OneOpener
  BY <1>2, <1>3, <1>4 DEF OneKind, OneOpener, About, Opens
<1>9. Listing
  BY <1>1, <1>2, <1>4, <1>5 DEF Listing
<1>10. NoRuntime /\ RuntimesFollow /\ EventsFollow
  <2>1. NoRuntime
    BY <1>2, <1>4 DEF NoRuntime
  <2>2. RuntimesFollow
    BY <1>1 DEF RuntimesFollow
  <2>3. EventsFollow
    BY <1>1 DEF EventsFollow
  <2> QED
    BY <2>1, <2>2, <2>3
<1>11. OneOwner /\ OfRuntimes /\ ListedRun
  BY <1>2, <1>3, <1>5 DEF OneOwner, OfRuntimes, ListedRun
<1> QED
  BY <1>7, <1>8, <1>9, <1>10, <1>11 DEF PlacesInv, WatchesInv

LEMMA NextWorkspaces ==
  ASSUME PlacesInv, WatchesInv, [Workspaces!Next]_workspacesState
  PROVE  PlacesInv' /\ WatchesInv'
<1>1. CASE UNCHANGED workspacesState
  <2>1. /\ UNCHANGED <<used, profiles, listed, runtimes, heard, todo, arg, watch, alive,
             workspacesShown>>
        /\ selected' = selected
    BY <1>1 DEF workspacesState
  <2>2. PlacesInv'
    BY <2>1, PlacesSelect DEF PlacesInv, Listing
  <2>3. WatchesInv'
    BY <2>1 DEF WatchesInv, OneOwner, OfRuntimes, ListedRun, About, Idles, Removes, Undoes,
       Workspaces!Published, Workspaces!ToSet
  <2> QED
    BY <2>2, <2>3
<1>2. ASSUME NEW id \in Ids \cup {NoId}, Workspaces!Select(id)
      PROVE  PlacesInv' /\ WatchesInv'
  <2>1. /\ UNCHANGED <<used, profiles, listed, runtimes, heard, todo, arg, watch, alive,
             workspacesShown>>
        /\ selected' \in Workspaces!Published \cup {NoId}
    BY <1>2 DEF Workspaces!Select, Workspaces!watchVars
  <2>2. PlacesInv'
    BY <2>1, PlacesSelect
  <2>3. WatchesInv'
    BY <2>1 DEF WatchesInv, OneOwner, OfRuntimes, ListedRun, About, Idles, Removes, Undoes,
       Workspaces!Published, Workspaces!ToSet
  <2> QED
    BY <2>2, <2>3
<1> QED
  BY <1>1, <1>2, OpensKeep, ClosesBeginKeep, OpeningKeeps, ClosesKeep, WatchingKeeps
  DEF Workspaces!Next

LEMMA WorkspacesHold == Spec => [](PlacesInv /\ WatchesInv)
<1>1. Init => PlacesInv /\ WatchesInv
  BY InitWorkspaces DEF Init
<1>2. (PlacesInv /\ WatchesInv) /\ [Next]_all => (PlacesInv /\ WatchesInv)'
  BY NextWorkspaces, PartSteps
<1> QED
  BY <1>1, <1>2, PTL DEF Spec

\* For any number of workspaces and operations, whoever opens, closes and selects
\* at the same time: the profiles and the list agree always, the runtimes and the
\* events as soon as nothing is on its way to them.
THEOREM PlacesComeTogether == Spec => []PlacesAgree
<1>1. PlacesInv => PlacesAgree
  <2> SUFFICES ASSUME PlacesInv PROVE PlacesAgree
    OBVIOUS
  <2>0. /\ Typed /\ Listing /\ RuntimesFollow /\ EventsFollow
        /\ runtimes \subseteq used /\ heard \subseteq used /\ Workspaces!Published \subseteq used
    BY DEF PlacesInv, Typed, Workspaces!TypeOK
  <2>1. (\A c \in Callers : ~Workspaces!Busy(c)) => runtimes = Workspaces!Published
    <3> SUFFICES ASSUME \A c \in Callers : ~Workspaces!Busy(c)
                 PROVE  runtimes = Workspaces!Published
      OBVIOUS
    <3>1. \A c \in Callers : \A id : ~About(c, id)
      BY DEF About, Idles, Workspaces!Busy
    <3> QED
      BY <2>0, <3>1 DEF RuntimesFollow
  <2>2. Workspaces!EventsAgree
    <3> SUFFICES ASSUME \A c \in Callers : ~Workspaces!At(c, "opened") /\ ~Workspaces!At(c,
                          "closed")
                 PROVE  heard = Workspaces!Published
      BY DEF Workspaces!EventsAgree
    <3>1. \A c \in Callers : todo[c] \notin {Announces, Tells, TellsBoth, TellsThenEnds,
            TellsBothThenEnds}
      BY <2>0, PlanOf DEF Typed
    <3> QED
      BY <2>0, <3>1 DEF EventsFollow
  <2> QED
    BY <2>0, <2>1, <2>2 DEF PlacesAgree, Workspaces!PlacesAgree, Typed, Listing
<1> QED
  BY <1>1, WorkspacesHold, PTL

\* No watch of a local directory outlives its workspace, and one that is listed
\* runs, for any number of watches and of operations that start and stop them.
THEOREM NoWatchIsOrphaned == Spec => []WatchesOwned
<1>1. PlacesInv /\ WatchesInv => WatchesOwned
  <2> SUFFICES ASSUME PlacesInv, WatchesInv PROVE Workspaces!WatchesOwned
    BY DEF WatchesOwned
  <2>0. Typed /\ OneOwner /\ OfRuntimes /\ ListedRun
    BY DEF PlacesInv, WatchesInv
  <2>1. ASSUME NEW w \in alive
        PROVE  \/ \E c \in Callers : arg[c].watch = w
               \/ \E id \in Ids : /\ watch[id] = w
                                  /\ id \in runtimes \/ \E c \in Callers :
                                       arg[c].id = id /\ Workspaces!At(c, "drain")
    <3>1. CASE \E c \in Callers : arg[c].watch = w
      BY <3>1
    <3>2. CASE \E id \in Ids : watch[id] = w
      <4>1. PICK id \in Ids : watch[id] = w
        BY <3>2
      <4>2. watch[id] # NoWatch
        BY <4>1, WorkspacesAssumption DEF PlacesInv, Typed, Workspaces!TypeOK
      <4>3. \A c \in Callers : todo[c] \in {Drains, DrainsFirst} => Workspaces!At(c, "drain")
        BY <2>0, PlanOf DEF Typed
      <4>4. id \in runtimes \/ \E c \in Callers : arg[c].id = id /\ Workspaces!At(c, "drain")
        BY <2>0, <4>2, <4>3 DEF OfRuntimes, About
      <4> QED
        BY <4>1, <4>4
    <3> QED
      BY <2>0, <3>1, <3>2 DEF OneOwner
  <2>2. ASSUME \A c \in Callers : ~Workspaces!Busy(c), NEW id \in workspacesShown
        PROVE  watch[id] \in alive
    <3>1. \A c \in Callers : ~About(c, id)
      BY <2>2 DEF About, Idles, Workspaces!Busy
    <3>2. id \in Ids
      BY DEF PlacesInv, Typed, Workspaces!TypeOK
    <3> QED
      BY <2>0, <3>1, <3>2 DEF ListedRun, OneOwner
  <2> QED
    BY <2>1, <2>2 DEF Workspaces!WatchesOwned
<1> QED
  BY <1>1, WorkspacesHold, PTL

=============================================================================
