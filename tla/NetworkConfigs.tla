--------------------------- MODULE NetworkConfigs ---------------------------
(***************************************************************************)
(* The named proxies and tunnels that sessions choose from (application/   *)
(* network_config, its editor in the settings window, the choices of the   *)
(* session form).  One row of the database holds them all; it is made from *)
(* the profiles when it is missing.  A save reads the list that is shown,  *)
(* changes one entry, writes the row and publishes the list, all under one *)
(* mutex.  Sessions keep the parameters they chose, not the entry.         *)
(*                                                                         *)
(* Proxies and tunnels take the same path: one list stands for both.  The  *)
(* place of an entry (host and port, or the forwarded ports) is its name;  *)
(* the rest of it (the credentials) does not show in the name.             *)
(***************************************************************************)
EXTENDS Integers, FiniteSets

CONSTANTS
    Editors,     \* editors in settings windows
    NoEditor,
    Configs,     \* parameters: [place |-> ..., credentials |-> ...]
    None,        \* no proxy, and the entry of an editor that adds one
    Absent,      \* the row is missing
    MaxEntries   \* bound: entries that are ever made

VARIABLES
    stored,      \* the row: Absent or the entries
    shown,       \* the entries in the data context
    ready,       \* the entries were loaded
    write,       \* who holds CONFIG_WRITE
    editor,
    session,     \* the parameters of one saved session
    form,        \* its form: what is selected and what may be
    made,        \* ids that were used
    confirmed,   \* history: the entries whose saves were reported
    picked       \* history: what the user chose for the session last

vars == <<stored, shown, ready, write, editor, session, form, made, confirmed, picked>>

EntryIds == 1..MaxEntries
Entries == [id : EntryIds, config : Configs]
Name(entry) == entry.config.place

Closed == [at |-> "list", id |-> 0, draft |-> None, base |-> {}]
NoForm == [open |-> FALSE, selected |-> None, choices |-> {None}]

TypeOK ==
    /\ stored = Absent \/ stored \subseteq Entries
    /\ shown \subseteq Entries /\ confirmed \subseteq Entries
    /\ ready \in BOOLEAN /\ write \in Editors \cup {NoEditor} /\ made \in 0..MaxEntries
    /\ editor \in [Editors -> [at : {"list", "edit", "wait", "persist", "publish"},
                               id : 0..MaxEntries, draft : Configs \cup {None},
                               base : SUBSET Entries]]
    /\ {session, picked} \subseteq Configs \cup {None}
    /\ form \in [open : BOOLEAN, selected : Configs \cup {None},
                 choices : SUBSET (Configs \cup {None})]
    /\ form.selected \in form.choices

Init ==
    /\ stored = Absent /\ shown = {} /\ ready = FALSE /\ write = NoEditor
    /\ editor = [e \in Editors |-> Closed]
    /\ session \in Configs \cup {None} /\ form = NoForm /\ made = 0
    /\ confirmed = {} /\ picked = session

-----------------------------------------------------------------------------
(* Loading                                                                 *)

\* The profiles' parameters, each once, become entries with names of their
\* own; update_names then gives entries of one place one name.
Migrate(profiles) ==
    /\ Cardinality(profiles) <= MaxEntries
    /\ \E entries \in SUBSET Entries :
        /\ {entry.config : entry \in entries} = profiles
        /\ Cardinality(entries) = Cardinality(profiles)
        /\ {entry.id : entry \in entries} = 1..Cardinality(profiles)
        /\ stored' = entries /\ shown' = entries /\ confirmed' = entries
    /\ made' = Cardinality(profiles)

Initialize ==
    /\ ~ready /\ ready' = TRUE
    /\ \/ /\ stored = Absent
          /\ \E others \in SUBSET Configs : Migrate(others \cup ({session} \ {None}))
       \/ /\ stored # Absent /\ shown' = stored /\ UNCHANGED <<stored, confirmed, made>>
    /\ UNCHANGED <<write, editor, session, form, picked>>

\* The program ends between the operations; what it shows is gone.
Restart ==
    /\ ready /\ write = NoEditor /\ ready' = FALSE /\ shown' = {}
    /\ editor' = [e \in Editors |-> Closed] /\ form' = NoForm /\ picked' = session
    /\ UNCHANGED <<stored, write, session, made, confirmed>>

-----------------------------------------------------------------------------
(* An editor: edit, draft, save and delete                                 *)

Editing(e, record) == editor' = [editor EXCEPT ![e] = record]

\* The editor copies the entry when it opens; an entry that is deleted
\* afterwards is made again when it is saved.
Edit(e) ==
    /\ ready /\ editor[e].at = "list"
    /\ \/ \E entry \in shown :
            Editing(e, [Closed EXCEPT !.at = "edit", !.id = entry.id, !.draft = entry.config])
       \/ Editing(e, [Closed EXCEPT !.at = "edit"])
    /\ UNCHANGED <<stored, shown, ready, write, session, form, made, confirmed, picked>>

CancelEdit(e) ==
    /\ editor[e].at = "edit" /\ Editing(e, Closed)
    /\ UNCHANGED <<stored, shown, ready, write, session, form, made, confirmed, picked>>

\* A draft that does not parse stays in the editor with a message.
Save(e, config) ==
    /\ editor[e].at = "edit"
    /\ editor[e].id = 0 => made < MaxEntries
    /\ made' = IF editor[e].id = 0 THEN made + 1 ELSE made
    /\ Editing(e, [Closed EXCEPT !.at = "wait", !.draft = config,
                                 !.id = IF editor[e].id = 0 THEN made + 1 ELSE editor[e].id])
    /\ UNCHANGED <<stored, shown, ready, write, session, form, confirmed, picked>>

Delete(e) ==
    /\ ready /\ editor[e].at \in {"list", "edit"}
    /\ \E entry \in shown : Editing(e, [Closed EXCEPT !.at = "wait", !.id = entry.id])
    /\ UNCHANGED <<stored, shown, ready, write, session, form, made, confirmed, picked>>

-----------------------------------------------------------------------------
(* The operation                                                           *)

Others(e) == {entry \in shown : entry.id # editor[e].id}
Changed(e) ==
    IF editor[e].draft = None THEN Others(e)
    ELSE Others(e) \cup {[id |-> editor[e].id, config |-> editor[e].draft]}

\* Mutant: entries clash when nothing tells them apart.
ClashesWhole(e) ==
    /\ editor[e].draft # None
    /\ \E entry \in Others(e) : entry.config = editor[e].draft

Clashes(e) ==
    /\ editor[e].draft # None
    /\ \E entry \in Others(e) : Name(entry) = editor[e].draft.place

\* Mutant: the list is read without the mutex.
BeginUnlocked(e) ==
    /\ editor[e].at = "wait" /\ ~Clashes(e)
    /\ Editing(e, [editor[e] EXCEPT !.at = "persist", !.base = Changed(e)])
    /\ UNCHANGED <<stored, shown, ready, write, session, form, made, confirmed, picked>>

Begin(e) ==
    /\ editor[e].at = "wait" /\ write = NoEditor /\ ~Clashes(e)
    /\ write' = e
    /\ Editing(e, [editor[e] EXCEPT !.at = "persist", !.base = Changed(e)])
    /\ UNCHANGED <<stored, shown, ready, session, form, made, confirmed, picked>>

\* The error stays in the editor, whose draft is kept.
Fails(e) ==
    /\ \/ editor[e].at = "wait" /\ write = NoEditor /\ Clashes(e)
       \/ editor[e].at = "persist"
    /\ write' = IF write = e THEN NoEditor ELSE write
    /\ Editing(e, IF editor[e].draft = None THEN Closed
                  ELSE [editor[e] EXCEPT !.at = "edit", !.base = {}])
    /\ UNCHANGED <<stored, shown, ready, session, form, made, confirmed, picked>>

Persist(e) ==
    /\ editor[e].at = "persist" /\ stored' = editor[e].base
    /\ Editing(e, [editor[e] EXCEPT !.at = "publish"])
    /\ UNCHANGED <<shown, ready, write, session, form, made, confirmed, picked>>

Publish(e) ==
    /\ editor[e].at = "publish" /\ shown' = editor[e].base
    /\ write' = IF write = e THEN NoEditor ELSE write
    /\ confirmed' = {entry \in confirmed : entry.id # editor[e].id}
                    \cup {entry \in editor[e].base : entry.id = editor[e].id}
    /\ Editing(e, Closed)
    /\ UNCHANGED <<stored, ready, session, form, made, picked>>

-----------------------------------------------------------------------------
(* The form of the session                                                 *)

Offered == {None} \cup {entry.config : entry \in shown}

\* Mutant: a selection that is no entry any more falls back to the first choice.
KeptIfOffered(selected) == IF selected \in Offered THEN selected ELSE None

\* It is offered as the session's own.
Kept(selected) == selected

Select(selected) ==
    form' = [open |-> TRUE, selected |-> Kept(selected), choices |-> Offered \cup {Kept(selected)}]

OpenForm ==
    /\ ready /\ ~form.open /\ Select(session) /\ picked' = session
    /\ UNCHANGED <<stored, shown, ready, write, editor, session, made, confirmed>>

Pick(config) ==
    /\ form.open /\ config \in form.choices
    /\ form' = [form EXCEPT !.selected = config] /\ picked' = config
    /\ UNCHANGED <<stored, shown, ready, write, editor, session, made, confirmed>>

\* Every render compares the choices with the entries.
SyncNetworkChoices ==
    /\ form.open /\ Select(form.selected)
    /\ UNCHANGED <<stored, shown, ready, write, editor, session, made, confirmed, picked>>

\* The window stays open when the session cannot be saved.
Submit ==
    /\ form.open /\ session' = form.selected /\ form' = NoForm
    /\ UNCHANGED <<stored, shown, ready, write, editor, made, confirmed, picked>>

CancelForm ==
    /\ form.open /\ form' = NoForm /\ picked' = session
    /\ UNCHANGED <<stored, shown, ready, write, editor, session, made, confirmed>>

Next ==
    \/ Initialize \/ Restart
    \/ \E e \in Editors :
        \/ Edit(e) \/ CancelEdit(e) \/ Delete(e) \/ Begin(e) \/ Fails(e) \/ Persist(e) \/ Publish(e)
        \/ \E config \in Configs : Save(e, config)
    \/ OpenForm \/ SyncNetworkChoices \/ Submit \/ CancelForm
    \/ \E config \in Configs \cup {None} : Pick(config)

Spec == Init /\ [][Next]_vars

-----------------------------------------------------------------------------
\* Between the operations the row, the list that is shown and the saves that
\* were reported agree, whatever several editors do at the same time.
SavesAgree == ready /\ write = NoEditor => stored = shown /\ stored = confirmed

\* Two entries of one place exist only when the profiles had them; no save
\* adds another.
ClashesAreMigrated ==
    [][\A x, y \in shown' : x # y /\ Name(x) = Name(y) => {x, y} \subseteq shown \/ ~ready]_vars

\* A session keeps the parameters the user chose, also when the entry is
\* edited or deleted while its form is open.
SessionKeepsItsChoice == IF form.open THEN form.selected = picked ELSE session = picked
=============================================================================
