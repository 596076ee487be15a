------------------------------- MODULE SftpPanel -------------------------------
(***************************************************************************)
(* One of the two directory panels of the SFTP view (gui/workspace/sftp/): *)
(* Side is "local" or "remote".  The data context holds a directory for    *)
(* each workspace; the view keeps a projection of it for each open         *)
(* workspace and, of the local side, a copy for the selected one, which a  *)
(* navigation changes before it is answered.  Navigations of a workspace   *)
(* are chained: each waits for the completion of the one before.           *)
(*                                                                         *)
(* The view runs on one thread; the data context changes between its steps *)
(* and within apply_snapshot, which reads the workspaces first and their   *)
(* directories later.  The back history is left out: a navigation back is  *)
(* a navigation.  So is the selection of the local panel, which is handed  *)
(* to its operations as it is.                                             *)
(***************************************************************************)
EXTENDS Integers, Sequences, FiniteSets, Functions

CONSTANTS
  Side,
  Workspaces,           \* numbered in the order of opening
  NoWorkspace,
  Directories,          \* a directory lists the paths <<directory, name>>
  Names,
  Start,                \* the directory a workspace is opened at
  MaxTrips              \* BOUND: navigations in flight

VARIABLES
  context,      \* the data context: open, selected, dir
  issued,       \* the workspaces opened so far
  news,         \* the refresh channel holds an unseen revision
  unseen,       \* whose sftp_revision differs from the observed one
  phase,        \* of the subscription: "idle" or "read"
  snapshot,     \* what it has read of the workspaces
  known,        \* projections: the workspaces the view knows
  projected,    \* their snapshots: of the remote side
  selected,     \* selected_workspace_id
  local,        \* the local panel's directory
  marked,       \* the selected rows' paths
  menu,         \* the context menu that is open: its batch and its listing
  trips,        \* the chained navigations
  deletions,    \* the directories in which local deletions run
  asked, wished \* the last directory asked of the context, and by the user

panelVars == <<context, issued, news, unseen, phase, snapshot, known, projected, selected,
               local, marked, menu, trips, deletions, asked, wished>>

view    == <<known, projected, selected, local>>
journal == <<asked, wished>>

Nil == <<>>

At(directory, loading) == [path |-> directory, loading |-> loading]

PanelDirs == [path : Directories, loading : BOOLEAN]

Listing(directory) == {directory} \X Names

Init ==
  /\ context = [open |-> {}, selected |-> NoWorkspace,
                dir |-> [w \in Workspaces |-> At(Start, FALSE)]]
  /\ issued = {} /\ news = FALSE /\ unseen = {}
  /\ phase = "idle" /\ snapshot = Nil
  /\ known = {} /\ selected = NoWorkspace
  /\ projected = [w \in Workspaces |-> At(Start, FALSE)]
  /\ local = At(Start, FALSE)
  /\ marked = {} /\ menu = Nil
  /\ trips = [w \in Workspaces |-> <<>>]
  /\ deletions = {}
  /\ asked = [w \in Workspaces |-> Start] /\ wished = asked

-----------------------------------------------------------------------------
(* The data context: workspaces come, go and are selected, and directories *)
(* change, for the navigations of this view and for other reasons.         *)

Published(new, changed) ==
  /\ context' = new
  /\ news' = TRUE
  /\ unseen' = unseen \cup changed

OpenWorkspace(w) ==
  /\ w = Cardinality(issued) + 1 /\ issued' = issued \cup {w}
  /\ Published([context EXCEPT !.open = @ \cup {w}, !.selected = w], {w})
  /\ UNCHANGED <<phase, snapshot, view, marked, menu, trips, deletions, journal>>

\* Another workspace, or none of this protocol, is selected.
SelectWorkspace(w) ==
  /\ w \in context.open \cup {NoWorkspace} /\ w # context.selected
  /\ Published([context EXCEPT !.selected = w], {})
  /\ UNCHANGED <<issued, phase, snapshot, view, marked, menu, trips, deletions, journal>>

CloseWorkspace(w) ==
  /\ w \in context.open
  /\ Published([context EXCEPT !.open = @ \ {w}, !.dir[w] = At(Start, FALSE),
                  !.selected = IF @ = w THEN NoWorkspace ELSE @], {})
  /\ UNCHANGED <<issued, phase, snapshot, view, marked, menu, trips, deletions, journal>>

\* An agent's navigation, a refresh after a transfer, a deletion.
DirectoryChanges(w, dir) ==
  /\ w \in context.open /\ dir # context.dir[w]
  /\ Published([context EXCEPT !.dir[w] = dir], {w})
  /\ UNCHANGED <<issued, phase, snapshot, view, marked, menu, trips, deletions, journal>>

-----------------------------------------------------------------------------
(* The subscription.                                                       *)

ReadWorkspaces ==
  /\ phase = "idle" /\ news
  /\ news' = FALSE
  /\ phase' = "read"
  /\ snapshot' = [open |-> context.open, selected |-> context.selected,
                  changed |-> (unseen \cap context.open)]
  /\ unseen' = unseen \ context.open
  /\ UNCHANGED <<context, issued, view, marked, menu, trips, deletions, journal>>

\* refresh_from_context, for the workspaces of `which` the context still holds.
Refreshed(which, now, copy) ==
  LET these == which \cap now \cap context.open
  IN /\ projected' = [w \in Workspaces |->
                        IF Side = "remote" /\ w \in these THEN context.dir[w]
                        ELSE IF w \in now THEN projected[w] ELSE At(Start, FALSE)]
     /\ local' = IF Side = "local" /\ selected' \in these THEN context.dir[selected'] ELSE copy

\* Mutant: the panel is refreshed when a directory has changed, not for a selection.
RestoredIfChanged(now, changed) == changed

\* restore_local_path refreshes every projection.
Restored(now, changed) == now

(* The projections of closed workspaces go and those of new ones come; a   *)
(* new selection is restored, which refreshes every projection; then those *)
(* whose revision has changed.  A remote selection outlives the change of  *)
(* the workspace, unless a projection is new.                              *)
ApplySnapshot ==
  LET now   == snapshot.open
      new   == now \ known
      to    == IF snapshot.selected \in now THEN snapshot.selected ELSE NoWorkspace
      moves == to # selected
      which == IF moves /\ to # NoWorkspace
               THEN Restored(now, snapshot.changed \cup new) ELSE snapshot.changed \cup new
  IN /\ phase = "read" /\ phase' = "idle" /\ snapshot' = Nil
     /\ known' = now
     /\ selected' = to
     /\ Refreshed(which, now, local)
     /\ marked' = IF new # {} THEN {} ELSE marked
     /\ UNCHANGED <<context, issued, news, unseen, menu, trips, deletions>>
     /\ asked' = [w \in Workspaces |-> IF w \in now THEN asked[w] ELSE Start]
     /\ wished' = [w \in Workspaces |-> IF w \in now THEN wished[w] ELSE Start]

-----------------------------------------------------------------------------
(* Navigation.                                                             *)

Calm == phase = "idle"

Shown == IF Side = "local" THEN local ELSE projected[selected]

\* Double click, parent, back, refresh and the path dialog.
Navigate(directory) ==
  /\ Calm /\ selected # NoWorkspace
  /\ FoldFunction(LAMBDA trip, n : Len(trip) + n, 0, trips) < MaxTrips
  /\ trips' = [trips EXCEPT ![selected] = Append(@, [to |-> directory, begun |-> FALSE])]
  /\ wished' = [wished EXCEPT ![selected] = directory]
  /\ marked' = {}
  /\ local' = IF Side = "local" THEN At(directory, TRUE) ELSE local
  /\ UNCHANGED <<context, issued, news, unseen, phase, snapshot, known, projected, selected,
                 menu, deletions, asked>>

\* Mutant: a navigation does not wait for the one before.
FreeAtOnce(w) == {i \in DOMAIN trips[w] : ~trips[w][i].begun}

\* The chain: the first one, once it is there.
Free(w) == IF trips[w] # <<>> /\ ~Head(trips[w]).begun THEN {1} ELSE {}

\* The request enters the application, which shows the directory as loading.
Begin(w) ==
  \E i \in Free(w) :
    /\ trips' = [trips EXCEPT ![w][i].begun = TRUE]
    /\ asked' = IF w \in known THEN [asked EXCEPT ![w] = trips[w][i].to] ELSE asked
    /\ IF w \in context.open
       THEN Published([context EXCEPT !.dir[w].loading = TRUE], {w})
       ELSE UNCHANGED <<context, news, unseen>>
    /\ UNCHANGED <<issued, phase, snapshot, view, marked, menu, deletions, wished>>

\* The application answers; the context holds the new directory or the old one.
Answered(w, arrives) ==
  LET done == {i \in DOMAIN trips[w] : trips[w][i].begun}
  IN /\ Calm
     /\ \E i \in done :
          /\ trips' = [trips EXCEPT ![w] = SubSeq(@, 1, i - 1) \o SubSeq(@, i + 1, Len(@))]
          /\ LET path == IF arrives THEN trips[w][i].to ELSE context.dir[w].path
                 new  == [context EXCEPT !.dir[w] = At(path, FALSE)]
             IN IF w \in context.open
                THEN /\ Published(new, {w})
                     /\ IF Side = "local" /\ selected = w
                        THEN /\ local' = new.dir[w]
                        ELSE local' = local
                ELSE UNCHANGED <<context, news, unseen, local>>
     /\ UNCHANGED <<issued, phase, snapshot, known, projected, selected, marked, menu, deletions,
                    journal>>

-----------------------------------------------------------------------------
(* Selection, and what is done with it.                                    *)

\* A click on a row drawn: toggle, alone or added with Control.
Mark(path, additive) ==
  /\ Calm /\ Side = "remote" /\ selected # NoWorkspace /\ path \in Listing(Shown.path)
  /\ LET kept == IF additive THEN marked ELSE {}
     IN marked' = IF path \in kept THEN kept \ {path} ELSE kept \cup {path}
  /\ UNCHANGED <<context, issued, news, unseen, phase, snapshot, view, menu, trips, deletions,
                 journal>>

\* Mutant: all that is selected, shown or not.
BatchOfSelection(path) == IF path \in marked THEN marked ELSE {path}

(* What the menu on a row offers to delete or to transfer: the row, or     *)
(* what of the selection is listed when the row is selected.               *)
Batch(path) ==
  IF path \in marked THEN marked \cap Listing(Shown.path) ELSE {path}

OpenMenu(path) ==
  /\ Calm /\ Side = "remote" /\ selected # NoWorkspace /\ path \in Listing(Shown.path)
  /\ menu' = [batch |-> Batch(path), listing |-> Shown.path]
  /\ UNCHANGED <<context, issued, news, unseen, phase, snapshot, view, marked, trips,
                 deletions, journal>>

\* Upload or download, or a menu closed: the selection stays.
Transfer ==
  /\ Calm /\ menu # Nil
  /\ menu' = Nil
  /\ UNCHANGED <<context, issued, news, unseen, phase, snapshot, view, marked, trips,
                 deletions, journal>>

\* The batch of the menu is deleted in the workspace selected by now.
Delete ==
  /\ Calm /\ selected # NoWorkspace
  /\ (Side = "remote" => menu # Nil)
  /\ menu' = Nil
  /\ marked' = {}
  /\ IF Side = "local"
     THEN /\ local' = [local EXCEPT !.loading = TRUE]
          /\ deletions' = deletions \cup {local.path}
     ELSE UNCHANGED <<local, deletions>>
  /\ UNCHANGED <<context, issued, news, unseen, phase, snapshot, known, projected, selected,
                 trips, journal>>

\* Dropped when another directory is shown by now.
DeletionEnds(directory) ==
  /\ Calm /\ directory \in deletions
  /\ deletions' = deletions \ {directory}
  /\ UNCHANGED <<known, selected>>
  /\ IF local.path = directory
     THEN Refreshed(known, known, [local EXCEPT !.loading = FALSE])
     ELSE UNCHANGED <<projected, local>>
  /\ UNCHANGED <<context, issued, news, unseen, phase, snapshot, marked, menu, trips, journal>>

\* The answer to an upload, a download, a cancellation, a retry or a watch.
CommandEnds ==
  /\ Calm
  /\ UNCHANGED <<known, selected>>
  /\ Refreshed(known, known, local)
  /\ UNCHANGED <<context, issued, news, unseen, phase, snapshot, marked, menu, trips,
                 deletions, journal>>

-----------------------------------------------------------------------------
Next ==
  \/ \E w \in Workspaces :
       \/ OpenWorkspace(w) \/ CloseWorkspace(w) \/ Begin(w)
       \/ \E d \in Directories : DirectoryChanges(w, At(d, FALSE))
       \/ \E arrives \in BOOLEAN : Answered(w, arrives)
  \/ \E w \in Workspaces \cup {NoWorkspace} : SelectWorkspace(w)
  \/ ReadWorkspaces \/ ApplySnapshot
  \/ \E d \in Directories : Navigate(d) \/ DeletionEnds(d)
  \/ \E path \in Directories \X Names :
       OpenMenu(path) \/ \E additive \in BOOLEAN : Mark(path, additive)
  \/ Transfer \/ Delete \/ CommandEnds

Spec == Init /\ [][Next]_panelVars

-----------------------------------------------------------------------------
\* Types.
Contexts == [open : SUBSET Workspaces, selected : Workspaces \cup {NoWorkspace},
             dir : [Workspaces -> PanelDirs]]
Trips == Seq([to : Directories, begun : BOOLEAN])
TypeOK ==
  /\ context \in Contexts /\ issued \subseteq Workspaces /\ news \in BOOLEAN
  /\ unseen \subseteq Workspaces /\ known \subseteq Workspaces
  /\ phase \in {"idle", "read"}
  /\ phase = "read" =>
       snapshot \in [open : SUBSET Workspaces, selected : Workspaces \cup {NoWorkspace},
                     changed : SUBSET Workspaces]
  /\ selected \in known \cup {NoWorkspace}
  /\ local \in PanelDirs /\ projected \in [Workspaces -> PanelDirs]
  /\ marked \subseteq Directories \X Names /\ deletions \subseteq Directories
  /\ trips \in [Workspaces -> Trips]
  /\ asked \in [Workspaces -> Directories] /\ wished \in [Workspaces -> Directories]

(* Once there is nothing to see and no navigation or deletion to be        *)
(* answered, the panel shows the directory that the data context holds for *)
(* the selected workspace, loading or not: whatever the view had shown     *)
(* ahead of an answer, for this workspace or for the one before.           *)
PanelShowsTheContext ==
  /\ phase = "idle" /\ ~news /\ selected # NoWorkspace
  /\ \A w \in known : trips[w] = <<>>
  /\ deletions = {}
  => Shown = context.dir[selected]

(* Navigations reach the application in the order the user made them: the  *)
(* last directory asked for is the last one wished for.                    *)
LastWishIsAskedLast ==
  \A w \in known : trips[w] = <<>> => asked[w] = wished[w]

(* What the menu of the remote panel deletes or transfers are entries of   *)
(* the directory the user saw when it was opened, although a selection is  *)
(* kept while a directory loads and when another workspace is selected.    *)
RemoteBatchIsShown ==
  Side = "remote" /\ menu # Nil => menu.batch \subseteq Listing(menu.listing)
=============================================================================
