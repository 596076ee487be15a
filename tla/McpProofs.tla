------------------------------ MODULE McpProofs -----------------------------
(***************************************************************************)
(* That the MCP server runs with what is shown and saved, that a client    *)
(* that has caught up knows the open sessions, and that the tools act on   *)
(* the session they are given, for any settings, sessions, clients and     *)
(* capacities of the channels.                                             *)
(*                                                                         *)
(* An invariant of a part is proved from the steps of that part and        *)
(* carried to the specification by PartSteps.                              *)
(***************************************************************************)
EXTENDS MCMcp, TLAPS

-----------------------------------------------------------------------------
(* The parts: a step of the whole is a step of one, and the others stutter *)

LEMMA PartSteps == [Next]_all => /\ [Manager!Next]_managerState
                                 /\ [Notes!Next]_notesState
BY DEF Next, all, RouterSteps, NotesSteps, ManagerSteps

-----------------------------------------------------------------------------
(* McpServerManager                                                        *)

\* The program has no manager before it starts and after a crash.
NothingRuns ==
  pc = "off" => /\ manager = "none" /\ server = Manager!NoServer
                /\ ~open /\ ~unseen /\ ~applied

\* The channel is open exactly as long as the manager is needed.
OpenMeansManaged ==
  /\ open => channel = shown /\ manager \in {"top", "wait", "run"}
             /\ pc \in {"idle", "save", "publish"}
  /\ ~open /\ pc \notin {"await", "ended"} => manager = "none" /\ ~unseen
                /\ (applied => ~shown.settings.enabled)

\* A server belongs to the manager that waits for it, and was started with the
\* channel's value unless a newer one has not been seen.
ServerManaged ==
  /\ server.at # "none" <=> manager = "run"
  /\ manager = "run" /\ ~unseen => server.keyed = channel /\ channel.settings.enabled

\* The file is written before anything else changes.
SavedFirst ==
  /\ pc = "publish" => file = want
  /\ pc \in {"save", "idle", "await", "ended"} /\ applied => file \in {shown.settings, Torn}

\* A shutdown that has ended found no manager.
EndedQuiet == pc = "ended" => manager \in {"none", "ended"}

ManagerInv == /\ Manager!TypeOK /\ NothingRuns /\ OpenMeansManaged
              /\ ServerManaged /\ SavedFirst /\ EndedQuiet

LEMMA ManagerValues ==
  /\ Manager!Default \in Manager!Settings
  /\ Manager!With(Manager!Default, 0) \in Manager!Keyed
  /\ Manager!NoServer \in [at : {"none", "starting", "serving", "failed"},
                           keyed : Manager!Keyed]
  /\ Manager!NoServer.at = "none"
  /\ 0 \in 0..MaxTokens /\ 0 \in 0..MaxCrashes
BY ManagerAssumption DEF Manager!Default, Manager!Settings, Manager!With, Manager!Keyed,
                         Manager!NoServer

LEMMA InitManager == Manager!Init => ManagerInv
BY ManagerValues
DEF Manager!Init, Manager!Start, ManagerInv, Manager!TypeOK, NothingRuns, OpenMeansManaged,
    ServerManaged, SavedFirst, EndedQuiet

LEMMA ManagerTypes ==
  ASSUME Manager!TypeOK, Manager!Next
  PROVE  Manager!TypeOK'
<1>t. /\ token \in 0..MaxTokens /\ token < MaxTokens => token + 1 \in 0..MaxTokens
      /\ crashes \in 0..MaxCrashes /\ crashes < MaxCrashes => crashes + 1 \in 0..MaxCrashes
  BY ManagerAssumption
<1> USE <1>t, ManagerValues DEF Manager!TypeOK, Manager!Operate
<1>1. CASE Manager!Initialize
  <2>1. Manager!Loaded \subseteq Manager!Settings
    BY DEF Manager!Loaded, Manager!Default, Manager!Settings
  <2> QED
    BY <1>1, <2>1 DEF Manager!Initialize
<1>2. ASSUME NEW s \in Manager!Settings, Manager!Apply(s)
      PROVE  Manager!TypeOK'
  BY <1>2 DEF Manager!Apply
<1>3. CASE Manager!Save \/ Manager!SaveFails \/ Manager!ShutdownEnds \/ Manager!Shutdown
  BY <1>3 DEF Manager!Save, Manager!SaveFails, Manager!ShutdownEnds, Manager!Shutdown
<1>4. CASE Manager!Publish \/ Manager!SpawnManager
  <2>1. Manager!With(want, token) \in Manager!Keyed
    BY DEF Manager!With, Manager!Keyed
  <2> QED
    BY <1>4, <2>1 DEF Manager!Publish, Manager!SpawnManager
<1>5. CASE Manager!StartServer
  <2>1. server' \in [at : {"none", "starting", "serving", "failed"}, keyed : Manager!Keyed]
    BY <1>5 DEF Manager!StartServer
  <2> QED
    BY <1>5, <2>1 DEF Manager!StartServer, Manager!Manage
<1>6. CASE Manager!ReadDisabled \/ Manager!WaitEnds \/ Manager!ReplaceServer \/ Manager!ServerEnded
  BY <1>6 DEF Manager!Manage, Manager!ReadDisabled,
              Manager!WaitEnds, Manager!ReplaceServer, Manager!ServerEnded, Manager!Changed
<1>7. CASE Manager!Bind \/ Manager!Fail
  BY <1>7 DEF Manager!Bind, Manager!Fail, Manager!Serve
<1>8. CASE Manager!Crash
  BY <1>8 DEF Manager!Crash
<1> QED
  BY <1>1, <1>2, <1>3, <1>4, <1>5, <1>6, <1>7, <1>8
  DEF Manager!Next, Manager!Operation, Manager!Manager

LEMMA NextManager ==
  ASSUME ManagerInv, [Manager!Next]_managerState
  PROVE  ManagerInv'
<1> USE DEF Manager!Operate, NothingRuns, OpenMeansManaged, ServerManaged, SavedFirst,
            EndedQuiet
<1>0. ManagerInv /\ Manager!TypeOK
  BY DEF ManagerInv
<1>1. CASE UNCHANGED managerState
  BY <1>0, <1>1 DEF managerState, ManagerInv, Manager!TypeOK
<1>2. CASE Manager!Next
  <2>0. Manager!TypeOK'
    BY <1>0, <1>2, ManagerTypes
  <2> SUFFICES NothingRuns' /\ OpenMeansManaged' /\ ServerManaged' /\ SavedFirst' /\ EndedQuiet'
    BY <2>0 DEF ManagerInv
  <2> USE <1>0 DEF ManagerInv
  <2>1. CASE Manager!Initialize \/ \E s \in Manager!Settings : Manager!Apply(s)
    BY <2>1 DEF Manager!Initialize, Manager!Apply
  <2>2. CASE Manager!Save \/ Manager!SaveFails \/ Manager!ShutdownEnds \/ Manager!Shutdown
    BY <2>2 DEF Manager!Save, Manager!SaveFails, Manager!ShutdownEnds, Manager!Shutdown
  <2>3. CASE Manager!Publish \/ Manager!SpawnManager
    BY <2>3 DEF Manager!Publish, Manager!SpawnManager, Manager!With
  <2>4. CASE Manager!ReadDisabled \/ Manager!StartServer
    BY <2>4 DEF Manager!ReadDisabled, Manager!StartServer, Manager!Manage
  <2>5. CASE Manager!WaitEnds \/ Manager!ReplaceServer \/ Manager!ServerEnded
    BY <2>5, ManagerValues DEF Manager!WaitEnds, Manager!ReplaceServer, Manager!ServerEnded,
        Manager!Manage, Manager!Changed
  <2>6. CASE Manager!Bind \/ Manager!Fail
    BY <2>6 DEF Manager!Bind, Manager!Fail, Manager!Serve, Manager!TypeOK
  <2>7. CASE Manager!Crash
    BY <2>7, ManagerValues DEF Manager!Crash
  <2> QED
    BY <1>2, <2>1, <2>2, <2>3, <2>4, <2>5, <2>6, <2>7
    DEF Manager!Next, Manager!Operation, Manager!Manager
<1> QED
  BY <1>1, <1>2

LEMMA ManagerHolds == Spec => []ManagerInv
<1>1. Init => ManagerInv
  BY InitManager DEF Init
<1>2. ManagerInv /\ [Next]_all => ManagerInv'
  BY NextManager, PartSteps
<1> QED
  BY <1>1, <1>2, PTL DEF Spec

\* The server runs with the settings and the token that are shown and saved, after
\* any overlap of changes with its starts and stops, and nothing is left of it after
\* a shutdown: for any ports and any number of changes and crashes.
THEOREM ServerFollowsSettings == Spec => []ServedIsShown
<1>1. ManagerInv => ServedIsShown
  BY DEF ManagerInv, ServedIsShown, Manager!ServedIsShown, Manager!AtRest,
         Manager!SavedIsShown, Manager!StoppedMeansQuiet, OpenMeansManaged, ServerManaged,
         SavedFirst, EndedQuiet, Manager!TypeOK
<1> QED
  BY <1>1, ManagerHolds, PTL

-----------------------------------------------------------------------------
(* McpNotifications                                                        *)

Event(what, s) == <<what, s>>
Unsent(m) == \E i \in read + 1..Len(bus) : bus[i] = m
Unread(c, m) == \E i \in position[c] + 1..Len(sent) : sent[i] = m
Behind == Notes!Lagged(bus, read, BusCapacity)

\* A client lists the sessions sooner or later: it has to, or a message that says
\* so is on its way to it, or will be because something was overwritten.
WillList(c) ==
  \/ known[c].list
  \/ Unread(c, Notes!Resync)
  \/ Behind
  \/ Notes!Lagged(sent, position[c], SentCapacity)

\* An event is not sent before it is true.
EventsTrue ==
  /\ \A i \in 1..Len(bus), s \in Sessions :
        /\ bus[i] = Event("opened", s) => session[s] \notin {"new", "opening"}
        /\ bus[i] = Event("closed", s) => session[s] = "closed"
  /\ \A i \in 1..Len(sent), s \in Sessions :
        /\ sent[i] = Event("opened", s) => session[s] \notin {"new", "opening"}
        /\ sent[i] = Event("closed", s) => session[s] = "closed"

\* In both channels, the opening of a session that is closed is followed by its
\* closing, or by the message that there was something that is lost.
ClosingFollows ==
  \A s \in Sessions : session[s] = "closed" =>
    /\ \A i \in 1..Len(bus) : bus[i] = Event("opened", s) =>
          \E k \in i + 1..Len(bus) : bus[k] = Event("closed", s)
    /\ \A i \in 1..Len(sent) : sent[i] = Event("opened", s) =>
          \/ \E k \in i + 1..Len(sent) : sent[k] \in {Event("closed", s), Notes!Resync}
          \/ Unsent(Event("closed", s)) \/ Behind

\* A client that will not list again knows of a session what it is, or what is
\* still on its way to it says so.
KnowsOrWill(c) ==
  \A s \in Sessions :
    /\ session[s] = "new" => s \notin known[c].open
    /\ session[s] = "open" =>
          \/ s \in known[c].open
          \/ Unread(c, Event("opened", s)) \/ Unsent(Event("opened", s))
    /\ session[s] = "closed" =>
          \/ s \notin known[c].open
          \/ Unread(c, Event("closed", s)) \/ Unsent(Event("closed", s))
ClientsFollow ==
  \A c \in Clients : client[c].at = "up" /\ ~WillList(c) => KnowsOrWill(c)

NotesInv == Notes!TypeOK /\ EventsTrue /\ ClosingFollows /\ ClientsFollow

LEMMA InitNotes == Notes!Init => NotesInv
<1> SUFFICES ASSUME Notes!Init PROVE NotesInv
  OBVIOUS
<1> USE DEF Notes!Init
<1>1. Notes!TypeOK
  BY DEF Notes!TypeOK
<1>2. EventsTrue /\ ClosingFollows
  BY DEF EventsTrue, ClosingFollows
<1>3. ClientsFollow
  BY DEF ClientsFollow
<1> QED
  BY <1>1, <1>2, <1>3 DEF NotesInv

\* What a sequence is after one more element.
LEMMA Appended ==
  ASSUME NEW S, NEW q \in Seq(S), NEW e \in S
  PROVE  /\ Append(q, e) \in Seq(S)
         /\ Len(q) \in Nat /\ Len(Append(q, e)) = Len(q) + 1
         /\ \A i \in 1..Len(q) : Append(q, e)[i] = q[i]
         /\ Append(q, e)[Len(q) + 1] = e
OBVIOUS

LEMMA NotesTypes ==
  ASSUME Notes!TypeOK, Notes!Next
  PROVE  Notes!TypeOK'
<1> USE NotesAssumption DEF Notes!TypeOK
<1>1. ASSUME NEW s \in Sessions, Notes!Open(s) \/ Notes!Close(s)
      PROVE  Notes!TypeOK'
  BY <1>1 DEF Notes!Open, Notes!Close, Notes!Change
<1>2. ASSUME NEW s \in Sessions, NEW from, NEW to1 \in {"open", "closed"},
             NEW event \in {"opened", "closed", "selected"}, Notes!Notify(s, from, to1, event)
      PROVE  Notes!TypeOK'
  <2>1. <<event, s>> \in {"opened", "closed", "selected"} \X Sessions
    OBVIOUS
  <2>2. bus' \in Seq({"opened", "closed", "selected"} \X Sessions) /\ Len(bus') = Len(bus) + 1
        /\ Len(bus) \in Nat
    BY <1>2, <2>1, Appended DEF Notes!Notify
  <2>3. read' \in 0..Len(bus')
    BY <1>2, <2>2 DEF Notes!Notify
  <2> QED
    BY <1>2, <2>2, <2>3 DEF Notes!Notify
<1>3. ASSUME NEW at, at \in 0..Len(bus), NEW m, Notes!Forwarded(at, m),
             m \in {Notes!Resync} \cup ({"opened", "closed", "selected"} \X Sessions)
      PROVE  Notes!TypeOK'
  <2>1. /\ sent' \in Seq({Notes!Resync} \cup ({"opened", "closed", "selected"} \X Sessions))
        /\ Len(sent') = Len(sent) + 1 /\ Len(sent) \in Nat
    BY <1>3, Appended DEF Notes!Forwarded
  <2>2. \A c \in Clients : position'[c] \in 0..Len(sent')
    BY <1>3, <2>1 DEF Notes!Forwarded
  <2> QED
    BY <1>3, <2>1, <2>2 DEF Notes!Forwarded
<1>4. CASE Notes!Forward \/ Notes!ForwardLagged
  <2>1. Len(bus) \in Nat /\ (read < Len(bus) => read + 1 \in 1..Len(bus))
    OBVIOUS
  <2>2. CASE Notes!Forward
    <3>1. /\ read + 1 \in 0..Len(bus)
          /\ bus[read + 1] \in {"opened", "closed", "selected"} \X Sessions
      BY <2>1, <2>2 DEF Notes!Forward
    <3> QED
      BY <1>3, <2>2, <3>1 DEF Notes!Forward
  <2>3. CASE Notes!ForwardLagged
    <3>1. Len(bus) - BusCapacity \in 0..Len(bus)
      BY <2>1, <2>3 DEF Notes!ForwardLagged, Notes!Lagged
    <3> QED
      BY <1>3, <2>3, <3>1 DEF Notes!ForwardLagged
  <2> QED
    BY <1>4, <2>2, <2>3
<1>5. ASSUME NEW c \in Clients,
             Notes!Initialized(c) \/ Notes!List(c) \/ Notes!Disconnect(c) \/ Notes!ConnectionChecked(c)
      PROVE  Notes!TypeOK'
  <2>0. Len(sent) \in Nat /\ Len(sent) \in 0..Len(sent) /\ Notes!Opened \subseteq Sessions
    BY DEF Notes!Opened
  <2>1. CASE Notes!Initialized(c)
    BY <2>0, <2>1 DEF Notes!Initialized
  <2>2. CASE Notes!List(c)
    BY <2>0, <2>2 DEF Notes!List
  <2>3. CASE Notes!Disconnect(c)
    <3>1. known' \in [Clients -> [open : SUBSET Sessions, list : BOOLEAN]]
      BY <2>3 DEF Notes!Disconnect
    <3>2. client' \in [Clients -> [at : {"none", "up", "gone"}, served : BOOLEAN]]
      BY <2>3 DEF Notes!Disconnect
    <3> QED
      BY <2>3, <3>1, <3>2 DEF Notes!Disconnect
  <2>4. CASE Notes!ConnectionChecked(c)
    BY <2>4 DEF Notes!ConnectionChecked
  <2> QED
    BY <1>5, <2>1, <2>2, <2>3, <2>4
<1>6. ASSUME NEW c \in Clients, NEW at, at \in 0..Len(sent),
             NEW m \in {Notes!Resync} \cup ({"opened", "closed", "selected"} \X Sessions),
             Notes!Served(c, at, m)
      PROVE  Notes!TypeOK'
  <2>1. Notes!Told(known[c], m) \in [open : SUBSET Sessions, list : BOOLEAN]
    <3>1. known[c] \in [open : SUBSET Sessions, list : BOOLEAN]
      OBVIOUS
    <3>2. m # Notes!Resync => m[2] \in Sessions
      OBVIOUS
    <3>3. CASE m = Notes!Resync
      BY <3>1, <3>3 DEF Notes!Told, Notes!Resync
    <3>4. CASE m # Notes!Resync /\ m[1] = "opened"
      BY <3>1, <3>2, <3>4 DEF Notes!Told
    <3>5. CASE m # Notes!Resync /\ m[1] = "closed"
      BY <3>1, <3>2, <3>5 DEF Notes!Told
    <3>6. CASE m # Notes!Resync /\ m[1] \notin {"opened", "closed"}
      BY <3>1, <3>6 DEF Notes!Told
    <3> QED
      BY <3>3, <3>4, <3>5, <3>6
  <2>2. known' \in [Clients -> [open : SUBSET Sessions, list : BOOLEAN]]
    BY <1>6, <2>1 DEF Notes!Served
  <2>3. client' \in [Clients -> [at : {"none", "up", "gone"}, served : BOOLEAN]]
    BY <1>6 DEF Notes!Served
  <2> QED
    BY <1>6, <2>2, <2>3 DEF Notes!Served
<1>7. ASSUME NEW c \in Clients, Notes!Serve(c) \/ Notes!ServeLagged(c)
      PROVE  Notes!TypeOK'
  <2>1. Len(sent) \in Nat /\ position[c] \in 0..Len(sent)
    OBVIOUS
  <2>2. CASE Notes!Serve(c)
    <3>1. /\ position[c] + 1 \in 0..Len(sent)
          /\ sent[position[c] + 1] \in
                {Notes!Resync} \cup ({"opened", "closed", "selected"} \X Sessions)
      BY <2>1, <2>2 DEF Notes!Serve
    <3> QED
      BY <1>6, <2>2, <3>1 DEF Notes!Serve
  <2>3. CASE Notes!ServeLagged(c)
    <3>1. Len(sent) - SentCapacity \in 0..Len(sent)
      BY <2>1, <2>3 DEF Notes!ServeLagged, Notes!Lagged
    <3> QED
      BY <1>6, <2>3, <3>1 DEF Notes!ServeLagged
  <2> QED
    BY <1>7, <2>2, <2>3
<1> QED
  <2>1. ASSUME NEW s \in Sessions, Notes!Change1(s)
        PROVE  Notes!TypeOK'
    BY <1>1, <1>2, <2>1 DEF Notes!Change1, Notes!NotifyOpened, Notes!NotifyClosed, Notes!Select
  <2> QED
    BY <1>4, <1>5, <1>7, <2>1 DEF Notes!Next, Notes!Client

LEMMA ToldResync ==
  ASSUME NEW k \in [open : SUBSET Sessions, list : BOOLEAN]
  PROVE  Notes!Told(k, Notes!Resync).list
BY DEF Notes!Told, Notes!Resync

\* What follows a message is what the event of a session makes of the knowledge.
LEMMA ToldOf ==
  ASSUME NEW k \in [open : SUBSET Sessions, list : BOOLEAN], NEW s \in Sessions
  PROVE  /\ Notes!Told(k, Event("opened", s)).open = k.open \cup {s}
         /\ Notes!Told(k, Event("closed", s)).open = k.open \ {s}
         /\ Notes!Told(k, Event("selected", s)).open = k.open
         /\ \A e \in {"opened", "closed", "selected"} :
                Notes!Told(k, Event(e, s)).list = k.list
<1>1. Event("opened", s) # Notes!Resync /\ Event("closed", s) # Notes!Resync
      /\ Event("selected", s) # Notes!Resync
  BY DEF Event, Notes!Resync
<1>2. Event("opened", s)[1] = "opened" /\ Event("closed", s)[1] = "closed"
      /\ Event("selected", s)[1] = "selected"
      /\ \A e \in {"opened", "closed", "selected"} : Event(e, s)[2] = s
  BY DEF Event
<1>3. Notes!Resync[1] = "resync"
  BY DEF Notes!Resync
<1> QED
  BY <1>1, <1>2, <1>3 DEF Notes!Told

\* A step of the sessions sends at most one event, when it becomes true.
LEMMA Notified ==
  ASSUME NotesInv, NEW s \in Sessions, NEW from, NEW to1, NEW event,
         Notes!Notify(s, from, to1, event), event \in {"opened", "closed", "selected"}
  PROVE  /\ bus \in Seq({"opened", "closed", "selected"} \X Sessions)
         /\ Len(bus) \in Nat /\ Len(bus') = Len(bus) + 1
         /\ \A i \in 1..Len(bus) : bus'[i] = bus[i]
         /\ bus'[Len(bus) + 1] = Event(event, s)
         /\ session[s] = from /\ session'[s] = to1
         /\ \A x \in Sessions \ {s} : session'[x] = session[x]
         /\ UNCHANGED <<read, sent, client, position, known>>
<1>1. bus \in Seq({"opened", "closed", "selected"} \X Sessions)
      /\ <<event, s>> \in {"opened", "closed", "selected"} \X Sessions
  BY DEF NotesInv, Notes!TypeOK
<1>2. bus' = Append(bus, <<event, s>>)
  BY DEF Notes!Notify
<1>3. /\ Len(bus) \in Nat /\ Len(bus') = Len(bus) + 1
      /\ \A i \in 1..Len(bus) : bus'[i] = bus[i]
      /\ bus'[Len(bus) + 1] = Event(event, s)
  BY <1>1, <1>2, Appended DEF Event
<1> QED
  BY <1>1, <1>3 DEF Notes!Notify, NotesInv, Notes!TypeOK

LEMMA NotifyEventsTrue ==
  ASSUME NotesInv, NEW s \in Sessions,
         \/ Notes!NotifyOpened(s) \/ Notes!NotifyClosed(s) \/ Notes!Select(s)
  PROVE  EventsTrue'
<1>1. PICK event, from, to1 :
        /\ event \in {"opened", "closed", "selected"}
        /\ Notes!Notify(s, from, to1, event)
        /\ from # "closed" /\ to1 \in {"open", "closed"}
        /\ event = "closed" => to1 = "closed"
  BY DEF Notes!NotifyOpened, Notes!NotifyClosed, Notes!Select
<1>2. /\ Len(bus) \in Nat /\ Len(bus') = Len(bus) + 1
      /\ \A i \in 1..Len(bus) : bus'[i] = bus[i]
      /\ bus'[Len(bus) + 1] = Event(event, s)
      /\ session[s] = from /\ session'[s] = to1
      /\ \A x \in Sessions \ {s} : session'[x] = session[x]
      /\ UNCHANGED sent
  BY <1>1, Notified
<1>3. ASSUME NEW x \in Sessions
      PROVE  /\ session[x] \notin {"new", "opening"} => session'[x] \notin {"new", "opening"}
             /\ session[x] = "closed" => session'[x] = "closed"
  BY <1>1, <1>2
<1>4. ASSUME NEW i \in 1..Len(bus'), NEW x \in Sessions
      PROVE  /\ bus'[i] = Event("opened", x) => session'[x] \notin {"new", "opening"}
             /\ bus'[i] = Event("closed", x) => session'[x] = "closed"
  <2>1. CASE i \in 1..Len(bus)
    BY <1>2, <1>3, <2>1 DEF NotesInv, EventsTrue
  <2>2. CASE i = Len(bus) + 1
    BY <1>1, <1>2, <2>2 DEF Event
  <2> QED
    BY <1>2, <2>1, <2>2
<1> QED
  BY <1>2, <1>3, <1>4 DEF NotesInv, EventsTrue

LEMMA NotifyClosingFollows ==
  ASSUME NotesInv, NEW s \in Sessions,
         \/ Notes!NotifyOpened(s) \/ Notes!NotifyClosed(s) \/ Notes!Select(s)
  PROVE  ClosingFollows'
<1>1. PICK event, from, to1 :
        /\ event \in {"opened", "closed", "selected"}
        /\ Notes!Notify(s, from, to1, event)
        /\ to1 = "closed" => event = "closed"
  BY DEF Notes!NotifyOpened, Notes!NotifyClosed, Notes!Select
<1>2. /\ Len(bus) \in Nat /\ Len(bus') = Len(bus) + 1
      /\ \A i \in 1..Len(bus) : bus'[i] = bus[i]
      /\ bus'[Len(bus) + 1] = Event(event, s)
      /\ session'[s] = to1
      /\ \A x \in Sessions \ {s} : session'[x] = session[x]
      /\ UNCHANGED <<read, sent>>
  BY <1>1, Notified
<1>3. read \in 0..Len(bus) /\ Len(sent) \in Nat
  BY DEF NotesInv, Notes!TypeOK
<1>4. \A m : Unsent(m) => Unsent(m)'
  BY <1>2, <1>3 DEF Unsent
<1>5. Behind => Behind'
  BY <1>2, <1>3, NotesAssumption DEF Behind, Notes!Lagged
<1> SUFFICES ASSUME NEW x \in Sessions, session'[x] = "closed"
             PROVE  /\ \A i \in 1..Len(bus') : bus'[i] = Event("opened", x) =>
                          \E k \in i + 1..Len(bus') : bus'[k] = Event("closed", x)
                    /\ \A i \in 1..Len(sent) : sent[i] = Event("opened", x) =>
                          \/ \E k \in i + 1..Len(sent) :
                                sent[k] \in {Event("closed", x), Notes!Resync}
                          \/ Unsent(Event("closed", x))' \/ Behind'
  BY <1>2 DEF ClosingFollows
<1>6. CASE x = s
  <2>1. event = "closed"
    BY <1>1, <1>2, <1>6
  <2>2. bus'[Len(bus) + 1] = Event("closed", x) /\ Len(bus) + 1 \in read' + 1..Len(bus')
    BY <1>2, <1>3, <1>6, <2>1
  <2>3. Unsent(Event("closed", x))'
    BY <2>2 DEF Unsent
  <2>4. \A i \in 1..Len(bus') : bus'[i] = Event("opened", x) => i # Len(bus) + 1
    BY <1>2, <2>2 DEF Event
  <2> QED
    BY <1>2, <2>2, <2>3, <2>4
<1>7. CASE x # s
  <2>1. session[x] = "closed" /\ bus'[Len(bus) + 1] # Event("opened", x)
    BY <1>2, <1>7 DEF Event
  <2>2. ASSUME NEW i \in 1..Len(bus'), bus'[i] = Event("opened", x)
        PROVE  \E k \in i + 1..Len(bus') : bus'[k] = Event("closed", x)
    <3>1. i \in 1..Len(bus) /\ bus[i] = Event("opened", x)
      BY <1>2, <2>1, <2>2
    <3>2. PICK k \in i + 1..Len(bus) : bus[k] = Event("closed", x)
      BY <2>1, <3>1 DEF NotesInv, ClosingFollows
    <3> QED
      BY <1>2, <3>1, <3>2
  <2> QED
    BY <1>4, <1>5, <2>1, <2>2 DEF NotesInv, ClosingFollows
<1> QED
  BY <1>6, <1>7

LEMMA NotifyClientsFollow ==
  ASSUME NotesInv, NEW s \in Sessions,
         \/ Notes!NotifyOpened(s) \/ Notes!NotifyClosed(s) \/ Notes!Select(s)
  PROVE  ClientsFollow'
<1>1. PICK event, from, to1 :
        /\ event \in {"opened", "closed", "selected"}
        /\ Notes!Notify(s, from, to1, event)
        /\ \/ to1 = "open" /\ event = "opened"
           \/ to1 = "closed" /\ event = "closed"
           \/ to1 = "open" /\ from = "open"
  BY DEF Notes!NotifyOpened, Notes!NotifyClosed, Notes!Select
<1>2. /\ Len(bus) \in Nat /\ Len(bus') = Len(bus) + 1
      /\ \A i \in 1..Len(bus) : bus'[i] = bus[i]
      /\ bus'[Len(bus) + 1] = Event(event, s)
      /\ session[s] = from /\ session'[s] = to1
      /\ \A x \in Sessions \ {s} : session'[x] = session[x]
      /\ UNCHANGED <<read, sent, client, position, known>>
  BY <1>1, Notified
<1>3. read \in 0..Len(bus) /\ Len(sent) \in Nat
  BY DEF NotesInv, Notes!TypeOK
<1>4. \A m : Unsent(m) => Unsent(m)'
  BY <1>2, <1>3 DEF Unsent
<1>5. Unsent(Event(event, s))'
  <2>1. Len(bus) + 1 \in read' + 1..Len(bus')
    BY <1>2, <1>3
  <2> QED
    BY <1>2, <2>1 DEF Unsent
<1>6. Behind => Behind'
  BY <1>2, <1>3, NotesAssumption DEF Behind, Notes!Lagged
<1>7. \A c \in Clients : WillList(c) => WillList(c)'
  BY <1>2, <1>6 DEF WillList, Unread, Notes!Lagged
<1>8. \A c, m : Unread(c, m) => Unread(c, m)'
  BY <1>2 DEF Unread
<1> SUFFICES ASSUME NEW c \in Clients, client[c].at = "up", KnowsOrWill(c)
             PROVE  KnowsOrWill(c)'
  BY <1>2, <1>7 DEF NotesInv, ClientsFollow
<1> QED
  BY <1>1, <1>2, <1>4, <1>5, <1>8 DEF KnowsOrWill

LEMMA ChangeNotes ==
  ASSUME NotesInv, NEW s \in Sessions, Notes!Open(s) \/ Notes!Close(s)
  PROVE  EventsTrue' /\ ClosingFollows' /\ ClientsFollow'
<1>1. /\ UNCHANGED <<bus, read, sent, client, position, known>>
      /\ \A x \in Sessions : \/ session'[x] = session[x]
                             \/ session[x] = "new" /\ session'[x] = "opening"
                             \/ session[x] = "open" /\ session'[x] = "closing"
  BY DEF Notes!Open, Notes!Close, Notes!Change, NotesInv, Notes!TypeOK
<1>2. EventsTrue'
  BY <1>1 DEF NotesInv, EventsTrue
<1>3. \A m : Unsent(m)' <=> Unsent(m)
  BY <1>1 DEF Unsent
<1>4. Behind' <=> Behind
  BY <1>1 DEF Behind, Notes!Lagged
<1>5. ClosingFollows'
  BY <1>1, <1>3, <1>4 DEF NotesInv, ClosingFollows
<1>6. \A c, m : Unread(c, m)' <=> Unread(c, m)
  BY <1>1 DEF Unread
<1>7. \A c \in Clients : WillList(c)' <=> WillList(c)
  BY <1>1, <1>4, <1>6 DEF WillList, Notes!Lagged
<1>8. \A c \in Clients : KnowsOrWill(c) => KnowsOrWill(c)'
  BY <1>1, <1>3, <1>6 DEF KnowsOrWill
<1> QED
  BY <1>1, <1>2, <1>5, <1>7, <1>8 DEF NotesInv, ClientsFollow

\* What the forwarder reads next goes to the clients, or that something is lost.
LEMMA ForwardNotes ==
  ASSUME NotesInv, Notes!Forward
  PROVE  EventsTrue' /\ ClosingFollows' /\ ClientsFollow'
<1>1. /\ read \in 0..Len(bus) /\ Len(bus) \in Nat /\ read + 1 \in 1..Len(bus)
      /\ bus[read + 1] \in {"opened", "closed", "selected"} \X Sessions
      /\ sent \in Seq({Notes!Resync} \cup ({"opened", "closed", "selected"} \X Sessions))
      /\ \A c \in Clients : position[c] \in 0..Len(sent)
  BY DEF NotesInv, Notes!TypeOK, Notes!Forward
<1>2. /\ Len(sent) \in Nat /\ Len(sent') = Len(sent) + 1
      /\ \A i \in 1..Len(sent) : sent'[i] = sent[i]
      /\ sent'[Len(sent) + 1] = bus[read + 1]
      /\ read' = read + 1
      /\ UNCHANGED <<session, bus, client, position, known>>
      /\ ~Behind
  BY <1>1, Appended DEF Notes!Forward, Notes!Forwarded, Behind
<1>3. EventsTrue'
  BY <1>1, <1>2 DEF NotesInv, EventsTrue
<1>4. ASSUME NEW m
      PROVE  /\ Unsent(m) => Unsent(m)' \/ m = bus[read + 1]
             /\ \A c \in Clients : Unread(c, m) => Unread(c, m)'
  BY <1>1, <1>2 DEF Unsent, Unread
<1>5. ASSUME NEW m, m = bus[read + 1]
      PROVE  \A c \in Clients : Unread(c, m)'
  <2>1. \A c \in Clients : Len(sent) + 1 \in position'[c] + 1..Len(sent')
    BY <1>1, <1>2
  <2> QED
    BY <1>2, <1>5, <2>1 DEF Unread
<1>6. ClosingFollows'
  <2> SUFFICES ASSUME NEW s \in Sessions, session[s] = "closed",
                      NEW i \in 1..Len(sent'), sent'[i] = Event("opened", s)
               PROVE  \/ \E k \in i + 1..Len(sent') :
                            sent'[k] \in {Event("closed", s), Notes!Resync}
                      \/ Unsent(Event("closed", s))'
    BY <1>2 DEF NotesInv, ClosingFollows
  <2>1. CASE i \in 1..Len(sent)
    <3>1. \/ \E k \in i + 1..Len(sent) : sent[k] \in {Event("closed", s), Notes!Resync}
          \/ Unsent(Event("closed", s))
      BY <1>2, <2>1 DEF NotesInv, ClosingFollows
    <3>2. CASE \E k \in i + 1..Len(sent) : sent[k] \in {Event("closed", s), Notes!Resync}
      <4>1. PICK k \in i + 1..Len(sent) : sent[k] \in {Event("closed", s), Notes!Resync}
        BY <3>2
      <4>2. k \in i + 1..Len(sent') /\ sent'[k] = sent[k]
        BY <1>2, <2>1
      <4> QED
        BY <4>1, <4>2
    <3>3. CASE Unsent(Event("closed", s))
      <4>1. CASE bus[read + 1] = Event("closed", s)
        <5>1. Len(sent) + 1 \in i + 1..Len(sent')
          BY <1>2, <2>1
        <5> QED
          BY <1>2, <4>1, <5>1
      <4> QED
        BY <1>4, <3>3, <4>1
    <3> QED
      BY <3>1, <3>2, <3>3
  <2>2. CASE i = Len(sent) + 1
    <3>1. bus[read + 1] = Event("opened", s)
      BY <1>2, <2>2
    <3>2. PICK k \in read + 1 + 1..Len(bus) : bus[k] = Event("closed", s)
      BY <1>1, <3>1 DEF NotesInv, ClosingFollows
    <3> QED
      BY <1>2, <3>2 DEF Unsent
  <2> QED
    BY <1>2, <2>1, <2>2
<1>7. ASSUME NEW c \in Clients
      PROVE  /\ WillList(c) => WillList(c)'
             /\ KnowsOrWill(c) => KnowsOrWill(c)'
  <2>1. Notes!Lagged(sent, position[c], SentCapacity) =>
            Notes!Lagged(sent, position[c], SentCapacity)'
    BY <1>1, <1>2, NotesAssumption DEF Notes!Lagged
  <2>2. WillList(c) => WillList(c)'
    BY <1>2, <1>4, <2>1 DEF WillList
  <2>3. KnowsOrWill(c) => KnowsOrWill(c)'
    BY <1>2, <1>4, <1>5 DEF KnowsOrWill
  <2> QED
    BY <2>2, <2>3
<1> QED
  BY <1>2, <1>3, <1>6, <1>7 DEF NotesInv, ClientsFollow

LEMMA ForwardLaggedNotes ==
  ASSUME NotesInv, Notes!ForwardLagged
  PROVE  EventsTrue' /\ ClosingFollows' /\ ClientsFollow'
<1>1. /\ Len(bus) \in Nat
      /\ sent \in Seq({Notes!Resync} \cup ({"opened", "closed", "selected"} \X Sessions))
      /\ \A c \in Clients : position[c] \in 0..Len(sent)
  BY DEF NotesInv, Notes!TypeOK
<1>2. /\ Len(sent) \in Nat /\ Len(sent') = Len(sent) + 1
      /\ \A i \in 1..Len(sent) : sent'[i] = sent[i]
      /\ sent'[Len(sent) + 1] = Notes!Resync
      /\ UNCHANGED <<session, bus, client, position, known>>
  BY <1>1, Appended DEF Notes!ForwardLagged, Notes!Forwarded
<1>3. EventsTrue'
  <2>1. ASSUME NEW i \in 1..Len(sent'), NEW s \in Sessions
        PROVE  /\ sent'[i] = Event("opened", s) => session'[s] \notin {"new", "opening"}
               /\ sent'[i] = Event("closed", s) => session'[s] = "closed"
    <3>1. CASE i \in 1..Len(sent)
      BY <1>2, <3>1 DEF NotesInv, EventsTrue
    <3>2. CASE i = Len(sent) + 1
      BY <1>2, <3>2 DEF Event, Notes!Resync
    <3>3. i \in 1..Len(sent) \/ i = Len(sent) + 1
      BY <1>2
    <3> QED
      BY <3>1, <3>2, <3>3
  <2> QED
    BY <1>2, <2>1 DEF NotesInv, EventsTrue
<1>4. ClosingFollows'
  <2> SUFFICES ASSUME NEW s \in Sessions, session[s] = "closed",
                      NEW i \in 1..Len(sent'), sent'[i] = Event("opened", s)
               PROVE  \E k \in i + 1..Len(sent') : sent'[k] = Notes!Resync
    BY <1>2 DEF NotesInv, ClosingFollows
  <2>1. i # Len(sent) + 1
    BY <1>2 DEF Event, Notes!Resync
  <2>2. Len(sent) + 1 \in i + 1..Len(sent')
    BY <1>2, <2>1
  <2> QED
    BY <1>2, <2>2
<1>5. \A c \in Clients : WillList(c)'
  <2>1. \A c \in Clients : Len(sent) + 1 \in position'[c] + 1..Len(sent')
    BY <1>1, <1>2
  <2> QED
    BY <1>2, <2>1 DEF WillList, Unread
<1> QED
  BY <1>3, <1>4, <1>5 DEF ClientsFollow

\* A list shows what is open, and the events that are not read yet close again
\* what they open.
LEMMA ListFollows ==
  ASSUME NotesInv, NEW c \in Clients, Notes!List(c), ~WillList(c)'
  PROVE  KnowsOrWill(c)'
<1>1. /\ UNCHANGED <<session, bus, read, sent, position>>
      /\ known'[c].open = Notes!Opened
  BY DEF Notes!List, NotesInv, Notes!TypeOK
<1> QED
  BY <1>1 DEF KnowsOrWill, Notes!Opened

LEMMA ServeFollows ==
  ASSUME NotesInv, NEW c \in Clients, Notes!Serve(c), client[c].at = "up", ~WillList(c)'
  PROVE  KnowsOrWill(c)'
<1> DEFINE m == sent[position[c] + 1]
<1>1. /\ known[c] \in [open : SUBSET Sessions, list : BOOLEAN]
      /\ position[c] \in 0..Len(sent) /\ Len(sent) \in Nat
      /\ position[c] + 1 \in 1..Len(sent)
      /\ m \in {Notes!Resync} \cup ({"opened", "closed", "selected"} \X Sessions)
  BY DEF NotesInv, Notes!TypeOK, Notes!Serve
<1>2. /\ UNCHANGED <<session, bus, read, sent>>
      /\ position'[c] = position[c] + 1
      /\ known'[c] = Notes!Told(known[c], m)
  BY DEF Notes!Serve, Notes!Served, NotesInv, Notes!TypeOK
<1> HIDE DEF m
<1>3. m # Notes!Resync
  BY <1>1, <1>2, ToldResync DEF WillList
<1>4. PICK e \in {"opened", "closed", "selected"}, s \in Sessions : m = Event(e, s)
  BY <1>1, <1>3 DEF Event
<1>5. known'[c].list = known[c].list
  BY <1>1, <1>2, <1>4, ToldOf
<1>6. ASSUME NEW x
      PROVE  /\ Unsent(x)' <=> Unsent(x)
             /\ Unread(c, x) => Unread(c, x)' \/ x = m
             /\ Unread(c, x)' => Unread(c, x)
  BY <1>1, <1>2 DEF Unsent, Unread, m
<1>7. Behind' = Behind
  BY <1>2 DEF Behind, Notes!Lagged
<1>8. ~WillList(c) /\ ~Behind
  BY <1>1, <1>2, <1>3, <1>5, <1>6, <1>7 DEF WillList, Notes!Lagged, Notes!Serve
<1>9. KnowsOrWill(c)
  BY <1>8 DEF NotesInv, ClientsFollow
<1>10. ASSUME NEW x \in Sessions
       PROVE  /\ Event("opened", x) = m <=> e = "opened" /\ x = s
              /\ Event("closed", x) = m <=> e = "closed" /\ x = s
  BY <1>4 DEF Event
<1>11. ~Unread(c, Notes!Resync)'
  BY DEF WillList
<1>12. e = "opened" => session[s] \notin {"new", "opening"}
  BY <1>1, <1>4 DEF NotesInv, EventsTrue, m
<1>13. e = "closed" => session[s] = "closed"
  BY <1>1, <1>4 DEF NotesInv, EventsTrue, m
<1>14. e = "opened" /\ session[s] = "closed" =>
          Unread(c, Event("closed", s))' \/ Unsent(Event("closed", s))'
  <2> SUFFICES ASSUME e = "opened", session[s] = "closed"
               PROVE  Unread(c, Event("closed", s))' \/ Unsent(Event("closed", s))
    BY <1>6
  <2>1. \/ \E k \in position[c] + 1 + 1..Len(sent) : sent[k] \in {Event("closed", s), Notes!Resync}
        \/ Unsent(Event("closed", s))
    BY <1>1, <1>4, <1>8 DEF NotesInv, ClosingFollows, m
  <2> QED
    BY <1>2, <1>11, <2>1 DEF Unread
<1>15. CASE e = "selected"
  <2>1. known'[c].open = known[c].open
    BY <1>1, <1>2, <1>4, <1>15, ToldOf
  <2> QED
    BY <1>2, <1>6, <1>9, <1>10, <1>15, <2>1 DEF KnowsOrWill
<1>16. CASE e = "opened"
  <2>1. known'[c].open = known[c].open \cup {s}
    BY <1>1, <1>2, <1>4, <1>16, ToldOf
  <2> QED
    BY <1>2, <1>6, <1>9, <1>10, <1>12, <1>14, <1>16, <2>1 DEF KnowsOrWill
<1>17. CASE e = "closed"
  <2>1. known'[c].open = known[c].open \ {s}
    BY <1>1, <1>2, <1>4, <1>17, ToldOf
  <2> QED
    BY <1>2, <1>6, <1>9, <1>10, <1>13, <1>17, <2>1 DEF KnowsOrWill
<1> QED
  BY <1>15, <1>16, <1>17

\* A step of one client leaves what the others know, and what is on its way.
LEMMA ClientNotes ==
  ASSUME NotesInv, NEW c \in Clients, Notes!Client(c)
  PROVE  EventsTrue' /\ ClosingFollows' /\ ClientsFollow'
<1>1. UNCHANGED <<session, bus, read, sent>>
  BY DEF Notes!Client, Notes!Initialized, Notes!List, Notes!Serve, Notes!ServeLagged,
         Notes!Served, Notes!Disconnect, Notes!ConnectionChecked
<1>2. \A b \in Clients \ {c} : /\ client'[b] = client[b] /\ known'[b] = known[b]
                               /\ position'[b] = position[b]
  BY DEF Notes!Client, Notes!Initialized, Notes!List, Notes!Serve, Notes!ServeLagged,
         Notes!Served, Notes!Disconnect, Notes!ConnectionChecked, NotesInv, Notes!TypeOK
<1>3. EventsTrue'
  BY <1>1 DEF NotesInv, EventsTrue
<1>4. (\A m : Unsent(m)' <=> Unsent(m)) /\ (Behind' <=> Behind)
  BY <1>1 DEF Unsent, Behind, Notes!Lagged
<1>5. ClosingFollows'
  BY <1>1, <1>4 DEF NotesInv, ClosingFollows
<1>6. ASSUME NEW b \in Clients \ {c}, client'[b].at = "up", ~WillList(b)'
      PROVE  KnowsOrWill(b)'
  <2>1. \A m : Unread(b, m)' <=> Unread(b, m)
    BY <1>1, <1>2 DEF Unread
  <2>2. WillList(b)' <=> WillList(b)
    BY <1>1, <1>2, <1>4, <2>1 DEF WillList, Notes!Lagged
  <2>3. KnowsOrWill(b)
    BY <1>2, <1>6, <2>2 DEF NotesInv, ClientsFollow
  <2> QED
    BY <1>1, <1>2, <1>4, <2>1, <2>3 DEF KnowsOrWill
<1>7. ASSUME client'[c].at = "up", ~WillList(c)'
      PROVE  KnowsOrWill(c)'
  <2>0. /\ known \in [Clients -> [open : SUBSET Sessions, list : BOOLEAN]]
        /\ client \in [Clients -> [at : {"none", "up", "gone"}, served : BOOLEAN]]
    BY DEF NotesInv, Notes!TypeOK
  <2>1. ~known'[c].list
    BY <1>7 DEF WillList
  <2>2. CASE Notes!Initialized(c)
    BY <2>0, <2>1, <2>2 DEF Notes!Initialized
  <2>3. CASE Notes!List(c)
    BY <1>7, <2>3, ListFollows
  <2>4. CASE Notes!Serve(c)
    <3>1. client[c].at = "up"
      BY <1>7, <2>0, <2>4 DEF Notes!Serve, Notes!Served
    <3> QED
      BY <1>7, <2>4, <3>1, ServeFollows
  <2>5. CASE Notes!ServeLagged(c)
    <3>1. client[c].at = "up"
      BY <1>7, <2>0, <2>5 DEF Notes!ServeLagged, Notes!Served
    <3>2. known'[c] = Notes!Told(known[c], Notes!Resync)
      BY <2>0, <2>5, <3>1 DEF Notes!ServeLagged, Notes!Served
    <3> QED
      BY <2>0, <2>1, <3>2, ToldResync
  <2>6. CASE Notes!Disconnect(c)
    BY <1>7, <2>0, <2>6 DEF Notes!Disconnect
  <2>7. CASE Notes!ConnectionChecked(c)
    BY <1>7, <2>0, <2>7 DEF Notes!ConnectionChecked
  <2> QED
    BY <2>2, <2>3, <2>4, <2>5, <2>6, <2>7 DEF Notes!Client
<1>8. ClientsFollow'
  BY <1>6, <1>7 DEF ClientsFollow
<1> QED
  BY <1>3, <1>5, <1>8

LEMMA NextNotes ==
  ASSUME NotesInv, [Notes!Next]_notesState
  PROVE  NotesInv'
<1>1. CASE UNCHANGED notesState
  BY <1>1 DEF notesState, NotesInv, Notes!TypeOK, EventsTrue, ClosingFollows, ClientsFollow,
      WillList, KnowsOrWill, Unread, Unsent, Behind, Notes!Lagged
<1>2. CASE Notes!Next
  <2>1. Notes!TypeOK'
    BY <1>2, NotesTypes DEF NotesInv
  <2>2. EventsTrue' /\ ClosingFollows' /\ ClientsFollow'
    BY <1>2, ChangeNotes, NotifyEventsTrue, NotifyClosingFollows, NotifyClientsFollow,
       ForwardNotes, ForwardLaggedNotes, ClientNotes DEF Notes!Next, Notes!Change1
  <2> QED
    BY <2>1, <2>2 DEF NotesInv
<1> QED
  BY <1>1, <1>2

LEMMA NotesHold == Spec => []NotesInv
<1>1. Init => NotesInv
  BY InitNotes DEF Init
<1>2. NotesInv /\ [Next]_all => NotesInv'
  BY NextNotes, PartSteps
<1> QED
  BY <1>1, <1>2, PTL DEF Spec

\* A client that has caught up knows the open sessions, for any sessions and any
\* clients, whatever was lost to lag in channels of any capacity.
THEOREM CaughtUpClientsKnow == Spec => []ClientsKnow
<1>1. NotesInv => ClientsKnow
  <2> SUFFICES ASSUME NotesInv, NEW c \in Clients, client[c].at = "up", Notes!Delivered(c)
               PROVE  known[c].open = Notes!Opened
    BY DEF ClientsKnow, Notes!ClientsKnow, NotesInv
  <2>1. /\ read = Len(bus) /\ position[c] = Len(sent) /\ ~known[c].list
        /\ Len(bus) \in Nat /\ Len(sent) \in Nat
        /\ known[c].open \subseteq Sessions
    BY DEF Notes!Delivered, NotesInv, Notes!TypeOK
  <2>2. (\A m : ~Unsent(m) /\ ~Unread(c, m)) /\ ~Behind
        /\ ~Notes!Lagged(sent, position[c], SentCapacity)
    BY <2>1, NotesAssumption DEF Unsent, Unread, Behind, Notes!Lagged
  <2>3. KnowsOrWill(c)
    BY <2>1, <2>2 DEF NotesInv, ClientsFollow, WillList
  <2>4. \A s \in Sessions : session[s] \in {"new", "open", "closed"}
    BY DEF Notes!Delivered, NotesInv, Notes!TypeOK
  <2> QED
    BY <2>1, <2>2, <2>3, <2>4 DEF KnowsOrWill, Notes!Opened
<1> QED
  BY <1>1, NotesHold, PTL

-----------------------------------------------------------------------------
(* McpTools                                                                *)

\* The tables have no tool in common, so a tool is a row of its own table.
LEMMA RowOfTool ==
  /\ \A t \in DOMAIN Tools!SessionTools : Tools!Tool(t) = Tools!SessionTools[t]
  /\ \A t \in DOMAIN Tools!DirectoryTools : Tools!Tool(t) = Tools!DirectoryTools[t]
  /\ \A t \in DOMAIN Tools!TransferTools : Tools!Tool(t) = Tools!TransferTools[t]
  /\ \A t \in DOMAIN Tools!WatchTools : Tools!Tool(t) = Tools!WatchTools[t]
  /\ \A t \in DOMAIN Tools!TerminalTools : Tools!Tool(t) = Tools!TerminalTools[t]
<1> DEFINE A == DOMAIN Tools!SessionTools  B == DOMAIN Tools!DirectoryTools
           C == DOMAIN Tools!TransferTools  D == DOMAIN Tools!WatchTools
           E == DOMAIN Tools!TerminalTools
<1>1. /\ A = {"list_profiles", "open_session", "open_ssh_tunnel"}
      /\ B = {"list_sftp_local", "list_sftp_remote", "change_sftp_local_directory",
              "change_sftp_remote_directory"}
      /\ C = {"upload_sftp", "download_sftp", "list_sftp_transfers"}
      /\ D = {"watch_sftp_local", "stop_sftp_local_watch", "list_sftp_local_watches"}
      /\ E = {"mcp_read_terminal", "send_text", "send_key"}
  BY DEF Tools!SessionTools, Tools!DirectoryTools, Tools!TransferTools, Tools!WatchTools,
         Tools!TerminalTools
<1> HIDE DEF A, B, C, D, E
<1>2. /\ \A t \in A : t \notin B /\ t \notin C /\ t \notin D /\ t \notin E
      /\ \A t \in B : t \notin C /\ t \notin D /\ t \notin E
      /\ \A t \in C : t \notin D /\ t \notin E
      /\ \A t \in D : t \notin E
  BY <1>1
<1>3. \A t : /\ Tools!Of(Tools!SessionTools, t) = IF t \in A THEN {Tools!SessionTools[t]} ELSE {}
             /\ Tools!Of(Tools!DirectoryTools, t) = IF t \in B THEN {Tools!DirectoryTools[t]} ELSE {}
             /\ Tools!Of(Tools!TransferTools, t) = IF t \in C THEN {Tools!TransferTools[t]} ELSE {}
             /\ Tools!Of(Tools!WatchTools, t) = IF t \in D THEN {Tools!WatchTools[t]} ELSE {}
             /\ Tools!Of(Tools!TerminalTools, t) = IF t \in E THEN {Tools!TerminalTools[t]} ELSE {}
  BY DEF Tools!Of, A, B, C, D, E
<1> DEFINE Rows(t) == Tools!Of(Tools!SessionTools, t) \cup Tools!Of(Tools!DirectoryTools, t)
                        \cup Tools!Of(Tools!TransferTools, t) \cup Tools!Of(Tools!WatchTools, t)
                        \cup Tools!Of(Tools!TerminalTools, t)
<1>4. \A t, row : Rows(t) = {row} => Tools!Tool(t) = row
  BY DEF Tools!Tool
<1> HIDE DEF Rows
<1>5. \A t \in A : Rows(t) = {Tools!SessionTools[t]}
  BY <1>2, <1>3 DEF Rows
<1>6. \A t \in B : Rows(t) = {Tools!DirectoryTools[t]}
  BY <1>2, <1>3 DEF Rows
<1>7. \A t \in C : Rows(t) = {Tools!TransferTools[t]}
  BY <1>2, <1>3 DEF Rows
<1>8. \A t \in D : Rows(t) = {Tools!WatchTools[t]}
  BY <1>2, <1>3 DEF Rows
<1>9. \A t \in E : Rows(t) = {Tools!TerminalTools[t]}
  BY <1>2, <1>3 DEF Rows
<1>10. \A t \in A : Tools!Tool(t) = Tools!SessionTools[t]
  BY <1>4, <1>5
<1>11. \A t \in B : Tools!Tool(t) = Tools!DirectoryTools[t]
  BY <1>4, <1>6
<1>12. \A t \in C : Tools!Tool(t) = Tools!TransferTools[t]
  BY <1>4, <1>7
<1>13. \A t \in D : Tools!Tool(t) = Tools!WatchTools[t]
  BY <1>4, <1>8
<1>14. \A t \in E : Tools!Tool(t) = Tools!TerminalTools[t]
  BY <1>4, <1>9
<1> QED
  BY <1>10, <1>11, <1>12, <1>13, <1>14 DEF A, B, C, D, E

\* Which response a tool expects of its command.
Expected ==
  {<<"ListProfiles", "Profiles">>,
   <<"OpenSession", "WorkspaceId">>,
   <<"OpenSshTunnel", "SshTunnelWorkspace">>,
   <<"ChangeSftpLocalDirectory", "Empty">>,
   <<"ChangeSftpRemoteDirectory", "Empty">>,
   <<"UploadSftp", "SftpTransferSummary">>,
   <<"DownloadSftp", "SftpTransferSummary">>,
   <<"WatchSftpLocal", "SftpWatch">>,
   <<"StopSftpLocalWatch", "Empty">>,
   <<"SendText", "Empty">>,
   <<"SendKey", "Empty">>}

\* What is answered when a command succeeds is what its tool expects.
LEMMA ResponseIsExpected ==
  ASSUME NEW s, NEW tool,
         <<tool.what, tool.expects>> \in Expected
  PROVE  Tools!Dispatch(tool, s) = IF Tools!Accepted(tool, s) THEN tool.expects ELSE Tools!Failed
<1>1. CASE tool.what = "ListProfiles" /\ tool.expects = "Profiles"
  BY <1>1 DEF Tools!Dispatch
<1>2. CASE tool.what = "OpenSession" /\ tool.expects = "WorkspaceId"
  BY <1>2 DEF Tools!Dispatch
<1>3. CASE tool.what = "OpenSshTunnel" /\ tool.expects = "SshTunnelWorkspace"
  BY <1>3 DEF Tools!Dispatch
<1>4. CASE tool.what = "ChangeSftpLocalDirectory" /\ tool.expects = "Empty"
  BY <1>4 DEF Tools!Dispatch
<1>5. CASE tool.what = "ChangeSftpRemoteDirectory" /\ tool.expects = "Empty"
  BY <1>5 DEF Tools!Dispatch
<1>6. CASE tool.what = "UploadSftp" /\ tool.expects = "SftpTransferSummary"
  BY <1>6 DEF Tools!Dispatch
<1>7. CASE tool.what = "DownloadSftp" /\ tool.expects = "SftpTransferSummary"
  BY <1>7 DEF Tools!Dispatch
<1>8. CASE tool.what = "WatchSftpLocal" /\ tool.expects = "SftpWatch"
  BY <1>8 DEF Tools!Dispatch
<1>9. CASE tool.what = "StopSftpLocalWatch" /\ tool.expects = "Empty"
  BY <1>9 DEF Tools!Dispatch
<1>10. CASE tool.what = "SendText" /\ tool.expects = "Empty"
  BY <1>10 DEF Tools!Dispatch
<1>11. CASE tool.what = "SendKey" /\ tool.expects = "Empty"
  BY <1>11 DEF Tools!Dispatch
<1> QED
  BY <1>1, <1>2, <1>3, <1>4, <1>5, <1>6, <1>7, <1>8, <1>9, <1>10, <1>11 DEF Expected

\* What the application has seen of a session whose command it queues.
LEMMA AcceptedIsChecked ==
  ASSUME NEW s, NEW tool, Tools!Accepted(tool, s)
  PROVE  /\ tool.what = "OpenSession" => s.matches
         /\ tool.what \in {"SendText", "SendKey"} => s.protocol = "ssh" /\ s.runtime = "live"
         /\ tool.what \in {"UploadSftp", "DownloadSftp"} => s.protocol = "sftp" /\ s.runtime = "live"
         /\ tool.what = "ChangeSftpLocalDirectory" => s.protocol = "sftp" /\ s.matches
         /\ tool.what \in {"ChangeSftpRemoteDirectory", "WatchSftpLocal", "StopSftpLocalWatch"} =>
              s.protocol = "sftp" /\ s.matches /\ s.runtime = "live"
<1>1. ASSUME tool.what = "OpenSession" PROVE s.matches
  BY <1>1 DEF Tools!Accepted, Tools!ValidSession, Tools!Live, Tools!HasSftp
<1>2. ASSUME tool.what = "SendText" PROVE s.protocol = "ssh" /\ s.runtime = "live"
  BY <1>2 DEF Tools!Accepted, Tools!ValidSession, Tools!Live, Tools!HasSftp
<1>3. ASSUME tool.what = "SendKey" PROVE s.protocol = "ssh" /\ s.runtime = "live"
  BY <1>3 DEF Tools!Accepted, Tools!ValidSession, Tools!Live, Tools!HasSftp
<1>4. ASSUME tool.what = "UploadSftp" PROVE s.protocol = "sftp" /\ s.runtime = "live"
  BY <1>4 DEF Tools!Accepted, Tools!ValidSession, Tools!Live, Tools!HasSftp
<1>5. ASSUME tool.what = "DownloadSftp" PROVE s.protocol = "sftp" /\ s.runtime = "live"
  BY <1>5 DEF Tools!Accepted, Tools!ValidSession, Tools!Live, Tools!HasSftp
<1>6. ASSUME tool.what = "ChangeSftpLocalDirectory" PROVE s.protocol = "sftp" /\ s.matches
  BY <1>6 DEF Tools!Accepted, Tools!ValidSession, Tools!Live, Tools!HasSftp
<1>7. ASSUME tool.what = "ChangeSftpRemoteDirectory" PROVE s.protocol = "sftp" /\ s.matches /\ s.runtime = "live"
  BY <1>7 DEF Tools!Accepted, Tools!ValidSession, Tools!Live, Tools!HasSftp
<1>8. ASSUME tool.what = "WatchSftpLocal" PROVE s.protocol = "sftp" /\ s.matches /\ s.runtime = "live"
  BY <1>8 DEF Tools!Accepted, Tools!ValidSession, Tools!Live, Tools!HasSftp
<1>9. ASSUME tool.what = "StopSftpLocalWatch" PROVE s.protocol = "sftp" /\ s.matches /\ s.runtime = "live"
  BY <1>9 DEF Tools!Accepted, Tools!ValidSession, Tools!Live, Tools!HasSftp
<1> QED
  BY <1>1, <1>2, <1>3, <1>4, <1>5, <1>6, <1>7, <1>8, <1>9


\* What is read is of the session's own kind, and of the one that is named.
LEMMA ReadIsOfTheSession ==
  ASSUME NEW s, NEW tool
  PROVE  /\ tool.what = "terminal" =>
              Tools!Read(tool, s) = IF s.protocol = "ssh" THEN "page" ELSE Tools!Failed
         /\ tool.what = "sftp" =>
              /\ Tools!Read(tool, s) \in {"page", Tools!Failed}
              /\ Tools!Read(tool, s) # Tools!Failed =>
                   s.protocol = "sftp" /\ (tool.named => s.matches)
<1>1. CASE tool.what = "terminal"
  BY <1>1 DEF Tools!Read, Tools!HasTerminal
<1>2. CASE tool.what = "sftp"
  <2>1. Tools!Read(tool, s) = IF s.protocol = "sftp" /\ (tool.named => Tools!ValidSession(s, "sftp", TRUE))
                              THEN "page" ELSE Tools!Failed
    BY <1>2 DEF Tools!Read, Tools!HasSftp
  <2>2. Tools!ValidSession(s, "sftp", TRUE) => s.matches
    BY DEF Tools!ValidSession
  <2> QED
    BY <1>2, <2>1, <2>2
<1>3. CASE tool.what \notin {"terminal", "sftp"}
  BY <1>3
<1> QED
  BY <1>1, <1>2, <1>3

\* The rows of the tables, of tools that send a command and of tools that read.
SendRowIs(t, what, expects, named) ==
  /\ Tools!Tool(t).by = "command" /\ Tools!Tool(t).what = what
  /\ Tools!Tool(t).expects = expects /\ Tools!Tool(t).named = named
ReadRowIs(t, what, named) ==
  Tools!Tool(t).by = "read" /\ Tools!Tool(t).what = what /\ Tools!Tool(t).named = named

LEMMA RowsAre ==
  /\ SendRowIs("list_profiles", "ListProfiles", "Profiles", FALSE)
  /\ SendRowIs("open_session", "OpenSession", "WorkspaceId", TRUE)
  /\ SendRowIs("open_ssh_tunnel", "OpenSshTunnel", "SshTunnelWorkspace", FALSE)
  /\ ReadRowIs("list_sftp_local", "sftp", FALSE)
  /\ ReadRowIs("list_sftp_remote", "sftp", FALSE)
  /\ SendRowIs("change_sftp_local_directory", "ChangeSftpLocalDirectory", "Empty", TRUE)
  /\ SendRowIs("change_sftp_remote_directory", "ChangeSftpRemoteDirectory", "Empty", TRUE)
  /\ SendRowIs("upload_sftp", "UploadSftp", "SftpTransferSummary", FALSE)
  /\ SendRowIs("download_sftp", "DownloadSftp", "SftpTransferSummary", FALSE)
  /\ ReadRowIs("list_sftp_transfers", "sftp", FALSE)
  /\ SendRowIs("watch_sftp_local", "WatchSftpLocal", "SftpWatch", TRUE)
  /\ SendRowIs("stop_sftp_local_watch", "StopSftpLocalWatch", "Empty", TRUE)
  /\ ReadRowIs("list_sftp_local_watches", "sftp", TRUE)
  /\ ReadRowIs("mcp_read_terminal", "terminal", FALSE)
  /\ SendRowIs("send_text", "SendText", "Empty", FALSE)
  /\ SendRowIs("send_key", "SendKey", "Empty", FALSE)
<1>0. /\ \A t, what, expects : \A named \in BOOLEAN :
           Tools!Tool(t) = Tools!Sends(what, expects, named) =>
             SendRowIs(t, what, expects, named)
      /\ \A t, what : \A named \in BOOLEAN :
           Tools!Tool(t) = Tools!Reads(what, named) => ReadRowIs(t, what, named)
  <2>1. \A what, expects, named :
          /\ Tools!Sends(what, expects, named).by = "command"
          /\ Tools!Sends(what, expects, named).what = what
          /\ Tools!Sends(what, expects, named).expects = expects
          /\ Tools!Sends(what, expects, named).named = named
    BY DEF Tools!Sends
  <2>2. \A what, named :
          /\ Tools!Reads(what, named).by = "read" /\ Tools!Reads(what, named).what = what
          /\ Tools!Reads(what, named).named = named
    BY DEF Tools!Reads
  <2>3. \A t, what, expects : \A named \in BOOLEAN :
          Tools!Tool(t) = Tools!Sends(what, expects, named) =>
            SendRowIs(t, what, expects, named)
    <3> SUFFICES ASSUME NEW t, NEW what, NEW expects, NEW named \in BOOLEAN,
                        Tools!Tool(t) = Tools!Sends(what, expects, named)
                 PROVE  SendRowIs(t, what, expects, named)
      OBVIOUS
    <3> QED
      BY <2>1 DEF SendRowIs
  <2>4. \A t, what : \A named \in BOOLEAN :
          Tools!Tool(t) = Tools!Reads(what, named) => ReadRowIs(t, what, named)
    BY <2>2 DEF ReadRowIs
  <2> QED
    BY <2>3, <2>4
<1>1. /\ SendRowIs("list_profiles", "ListProfiles", "Profiles", FALSE)
      /\ SendRowIs("open_session", "OpenSession", "WorkspaceId", TRUE)
      /\ SendRowIs("open_ssh_tunnel", "OpenSshTunnel", "SshTunnelWorkspace", FALSE)
  <2> DEFINE rows == Tools!SessionTools
  <2>1. \A t \in DOMAIN rows : Tools!Tool(t) = rows[t]
    BY RowOfTool
  <2>2. /\ "list_profiles" \in DOMAIN rows
        /\ rows["list_profiles"] = Tools!Sends("ListProfiles", "Profiles", FALSE)
        /\ "open_session" \in DOMAIN rows
        /\ rows["open_session"] = Tools!Sends("OpenSession", "WorkspaceId", TRUE)
        /\ "open_ssh_tunnel" \in DOMAIN rows
        /\ rows["open_ssh_tunnel"] = Tools!Sends("OpenSshTunnel", "SshTunnelWorkspace", FALSE)
    BY DEF Tools!SessionTools
  <2> HIDE DEF rows
  <2>3. /\ Tools!Tool("list_profiles") = Tools!Sends("ListProfiles", "Profiles", FALSE)
        /\ Tools!Tool("open_session") = Tools!Sends("OpenSession", "WorkspaceId", TRUE)
        /\ Tools!Tool("open_ssh_tunnel") = Tools!Sends("OpenSshTunnel", "SshTunnelWorkspace", FALSE)
    BY <2>1, <2>2
  <2> QED
    BY <1>0, <2>3
<1>2. /\ ReadRowIs("list_sftp_local", "sftp", FALSE)
      /\ ReadRowIs("list_sftp_remote", "sftp", FALSE)
      /\ SendRowIs("change_sftp_local_directory", "ChangeSftpLocalDirectory", "Empty", TRUE)
      /\ SendRowIs("change_sftp_remote_directory", "ChangeSftpRemoteDirectory", "Empty", TRUE)
  <2> DEFINE rows == Tools!DirectoryTools
  <2>1. \A t \in DOMAIN rows : Tools!Tool(t) = rows[t]
    BY RowOfTool
  <2>2. /\ "list_sftp_local" \in DOMAIN rows
        /\ rows["list_sftp_local"] = Tools!Reads("sftp", FALSE)
        /\ "list_sftp_remote" \in DOMAIN rows
        /\ rows["list_sftp_remote"] = Tools!Reads("sftp", FALSE)
        /\ "change_sftp_local_directory" \in DOMAIN rows
        /\ rows["change_sftp_local_directory"] = Tools!Sends("ChangeSftpLocalDirectory", "Empty", TRUE)
        /\ "change_sftp_remote_directory" \in DOMAIN rows
        /\ rows["change_sftp_remote_directory"] = Tools!Sends("ChangeSftpRemoteDirectory", "Empty", TRUE)
    BY DEF Tools!DirectoryTools
  <2> HIDE DEF rows
  <2>3. /\ Tools!Tool("list_sftp_local") = Tools!Reads("sftp", FALSE)
        /\ Tools!Tool("list_sftp_remote") = Tools!Reads("sftp", FALSE)
        /\ Tools!Tool("change_sftp_local_directory") = Tools!Sends("ChangeSftpLocalDirectory", "Empty", TRUE)
        /\ Tools!Tool("change_sftp_remote_directory") = Tools!Sends("ChangeSftpRemoteDirectory", "Empty", TRUE)
    BY <2>1, <2>2
  <2> QED
    BY <1>0, <2>3
<1>3. /\ SendRowIs("upload_sftp", "UploadSftp", "SftpTransferSummary", FALSE)
      /\ SendRowIs("download_sftp", "DownloadSftp", "SftpTransferSummary", FALSE)
      /\ ReadRowIs("list_sftp_transfers", "sftp", FALSE)
  <2> DEFINE rows == Tools!TransferTools
  <2>1. \A t \in DOMAIN rows : Tools!Tool(t) = rows[t]
    BY RowOfTool
  <2>2. /\ "upload_sftp" \in DOMAIN rows
        /\ rows["upload_sftp"] = Tools!Sends("UploadSftp", "SftpTransferSummary", FALSE)
        /\ "download_sftp" \in DOMAIN rows
        /\ rows["download_sftp"] = Tools!Sends("DownloadSftp", "SftpTransferSummary", FALSE)
        /\ "list_sftp_transfers" \in DOMAIN rows
        /\ rows["list_sftp_transfers"] = Tools!Reads("sftp", FALSE)
    BY DEF Tools!TransferTools
  <2> HIDE DEF rows
  <2>3. /\ Tools!Tool("upload_sftp") = Tools!Sends("UploadSftp", "SftpTransferSummary", FALSE)
        /\ Tools!Tool("download_sftp") = Tools!Sends("DownloadSftp", "SftpTransferSummary", FALSE)
        /\ Tools!Tool("list_sftp_transfers") = Tools!Reads("sftp", FALSE)
    BY <2>1, <2>2
  <2> QED
    BY <1>0, <2>3
<1>4. /\ SendRowIs("watch_sftp_local", "WatchSftpLocal", "SftpWatch", TRUE)
      /\ SendRowIs("stop_sftp_local_watch", "StopSftpLocalWatch", "Empty", TRUE)
      /\ ReadRowIs("list_sftp_local_watches", "sftp", TRUE)
  <2> DEFINE rows == Tools!WatchTools
  <2>1. \A t \in DOMAIN rows : Tools!Tool(t) = rows[t]
    BY RowOfTool
  <2>2. /\ "watch_sftp_local" \in DOMAIN rows
        /\ rows["watch_sftp_local"] = Tools!Sends("WatchSftpLocal", "SftpWatch", TRUE)
        /\ "stop_sftp_local_watch" \in DOMAIN rows
        /\ rows["stop_sftp_local_watch"] = Tools!Sends("StopSftpLocalWatch", "Empty", TRUE)
        /\ "list_sftp_local_watches" \in DOMAIN rows
        /\ rows["list_sftp_local_watches"] = Tools!Reads("sftp", TRUE)
    BY DEF Tools!WatchTools
  <2> HIDE DEF rows
  <2>3. /\ Tools!Tool("watch_sftp_local") = Tools!Sends("WatchSftpLocal", "SftpWatch", TRUE)
        /\ Tools!Tool("stop_sftp_local_watch") = Tools!Sends("StopSftpLocalWatch", "Empty", TRUE)
        /\ Tools!Tool("list_sftp_local_watches") = Tools!Reads("sftp", TRUE)
    BY <2>1, <2>2
  <2> QED
    BY <1>0, <2>3
<1>5. /\ ReadRowIs("mcp_read_terminal", "terminal", FALSE)
      /\ SendRowIs("send_text", "SendText", "Empty", FALSE)
      /\ SendRowIs("send_key", "SendKey", "Empty", FALSE)
  <2> DEFINE rows == Tools!TerminalTools
  <2>1. \A t \in DOMAIN rows : Tools!Tool(t) = rows[t]
    BY RowOfTool
  <2>2. /\ "mcp_read_terminal" \in DOMAIN rows
        /\ rows["mcp_read_terminal"] = Tools!Reads("terminal", FALSE)
        /\ "send_text" \in DOMAIN rows
        /\ rows["send_text"] = Tools!Sends("SendText", "Empty", FALSE)
        /\ "send_key" \in DOMAIN rows
        /\ rows["send_key"] = Tools!Sends("SendKey", "Empty", FALSE)
    BY DEF Tools!TerminalTools
  <2> HIDE DEF rows
  <2>3. /\ Tools!Tool("mcp_read_terminal") = Tools!Reads("terminal", FALSE)
        /\ Tools!Tool("send_text") = Tools!Sends("SendText", "Empty", FALSE)
        /\ Tools!Tool("send_key") = Tools!Sends("SendKey", "Empty", FALSE)
    BY <2>1, <2>2
  <2> QED
    BY <1>0, <2>3
<1> QED
  BY <1>1, <1>2, <1>3, <1>4, <1>5


LEMMA CallIsOfTheSession ==
  ASSUME NEW t \in Tools!ToolNames, NEW s
  PROVE  Tools!ToolsActOnWhatTheyName([tool |-> t, session |-> s])
<1> DEFINE tool == Tools!Tool(t)  answer == Tools!AnswerOf(t, s)
           terminal == t \in DOMAIN Tools!TerminalTools
           files == t \in DOMAIN Tools!DirectoryTools \cup DOMAIN Tools!TransferTools
                               \cup DOMAIN Tools!WatchTools
<1>1. /\ DOMAIN Tools!SessionTools = {"list_profiles", "open_session", "open_ssh_tunnel"}
      /\ DOMAIN Tools!DirectoryTools =
           {"list_sftp_local", "list_sftp_remote", "change_sftp_local_directory",
            "change_sftp_remote_directory"}
      /\ DOMAIN Tools!TransferTools = {"upload_sftp", "download_sftp", "list_sftp_transfers"}
      /\ DOMAIN Tools!WatchTools =
           {"watch_sftp_local", "stop_sftp_local_watch", "list_sftp_local_watches"}
      /\ DOMAIN Tools!TerminalTools = {"mcp_read_terminal", "send_text", "send_key"}
  BY DEF Tools!SessionTools, Tools!DirectoryTools, Tools!TransferTools, Tools!WatchTools,
         Tools!TerminalTools
<1>2. Tools!Failed = "error"
  BY DEF Tools!Failed
<1>3. tool.by = "read" => answer = Tools!Read(tool, s)
  BY DEF Tools!AnswerOf
<1>4. tool.by = "command" => answer = Tools!Answered(tool, Tools!Dispatch(tool, s))
  BY DEF Tools!AnswerOf
<1> HIDE DEF tool, answer, terminal, files
\* What a command that is answered says of its session.
<1>5. ASSUME NEW what, NEW expects, NEW named \in BOOLEAN, SendRowIs(t, what, expects, named),
             <<what, expects>> \in Expected
      PROVE  /\ answer # "wrong response"
             /\ answer # Tools!Failed => Tools!Accepted(tool, s)
             /\ tool.what = what /\ tool.named = named /\ tool.by = "command"
  <2>1. tool.by = "command" /\ tool.what = what /\ tool.expects = expects /\ tool.named = named
    BY <1>5 DEF SendRowIs, tool
  <2>2. Tools!Dispatch(tool, s) = IF Tools!Accepted(tool, s) THEN expects ELSE Tools!Failed
    BY <1>5, <2>1, ResponseIsExpected
  <2>3. answer = Tools!Dispatch(tool, s)
    <3>1. Tools!Dispatch(tool, s) \in {Tools!Failed, tool.expects}
      BY <2>1, <2>2
    <3> QED
      BY <1>4, <2>1, <3>1 DEF Tools!Answered
  <2>4. expects # "wrong response"
    BY <1>5 DEF Expected
  <2>5. answer # "wrong response" /\ (answer # Tools!Failed => Tools!Accepted(tool, s))
    BY <1>2, <2>2, <2>3, <2>4
  <2> QED
    BY <2>1, <2>5
\* What a snapshot that is read says of its session.
<1>6. ReadRowIs(t, "terminal", FALSE) =>
        /\ answer # "wrong response" /\ (answer # Tools!Failed => s.protocol = "ssh")
        /\ ~tool.named /\ tool.by = "read"
  <2>1. SUFFICES ASSUME tool.by = "read", tool.what = "terminal", ~tool.named
                 PROVE  answer # "wrong response" /\ (answer # Tools!Failed => s.protocol = "ssh")
    BY DEF ReadRowIs, tool
  <2> QED
    BY <1>2, <1>3, <2>1, ReadIsOfTheSession
<1>6b. ASSUME NEW named \in BOOLEAN, ReadRowIs(t, "sftp", named)
       PROVE  /\ answer # "wrong response"
              /\ answer # Tools!Failed => s.protocol = "sftp" /\ (tool.named => s.matches)
              /\ tool.named = named /\ tool.by = "read"
  <2>1. tool.by = "read" /\ tool.what = "sftp"
    BY <1>6b DEF ReadRowIs, tool
  <2>2. tool.named = named
    BY <1>6b DEF ReadRowIs, tool
  <2>3. answer # "wrong response" /\ (answer # Tools!Failed => s.protocol = "sftp" /\ (tool.named => s.matches))
    BY <1>2, <1>3, <2>1, ReadIsOfTheSession
  <2> QED
    BY <2>1, <2>2, <2>3
<1> DEFINE Good == /\ answer # "wrong response"
                   /\ answer # Tools!Failed =>
                        /\ terminal => s.protocol = "ssh"
                        /\ files => s.protocol = "sftp"
                        /\ tool.named => s.matches
                        /\ tool.by = "command" /\ t \notin Tools!LocalTools => s.runtime = "live"
<1>7. ASSUME t = "list_profiles" PROVE Good
  <2>1. ~terminal /\ ~files /\ t \in Tools!LocalTools
    BY <1>1, <1>7 DEF terminal, files, Tools!LocalTools
  <2>2. SendRowIs(t, "ListProfiles", "Profiles", FALSE)
    BY <1>7, RowsAre
  <2>0. <<"ListProfiles", "Profiles">> \in Expected
    BY DEF Expected
  <2>3. /\ answer # "wrong response" /\ (answer # Tools!Failed => Tools!Accepted(tool, s))
        /\ tool.what = "ListProfiles" /\ tool.named = FALSE
    BY <1>5, <2>0, <2>2
  <2> QED
    BY <2>1, <2>3, AcceptedIsChecked DEF Good
<1>8. ASSUME t = "open_session" PROVE Good
  <2>1. ~terminal /\ ~files /\ t \in Tools!LocalTools
    BY <1>1, <1>8 DEF terminal, files, Tools!LocalTools
  <2>2. SendRowIs(t, "OpenSession", "WorkspaceId", TRUE)
    BY <1>8, RowsAre
  <2>0. <<"OpenSession", "WorkspaceId">> \in Expected
    BY DEF Expected
  <2>3. /\ answer # "wrong response" /\ (answer # Tools!Failed => Tools!Accepted(tool, s))
        /\ tool.what = "OpenSession" /\ tool.named = TRUE
    BY <1>5, <2>0, <2>2
  <2> QED
    BY <2>1, <2>3, AcceptedIsChecked DEF Good
<1>9. ASSUME t = "open_ssh_tunnel" PROVE Good
  <2>1. ~terminal /\ ~files /\ t \in Tools!LocalTools
    BY <1>1, <1>9 DEF terminal, files, Tools!LocalTools
  <2>2. SendRowIs(t, "OpenSshTunnel", "SshTunnelWorkspace", FALSE)
    BY <1>9, RowsAre
  <2>0. <<"OpenSshTunnel", "SshTunnelWorkspace">> \in Expected
    BY DEF Expected
  <2>3. /\ answer # "wrong response" /\ (answer # Tools!Failed => Tools!Accepted(tool, s))
        /\ tool.what = "OpenSshTunnel" /\ tool.named = FALSE
    BY <1>5, <2>0, <2>2
  <2> QED
    BY <2>1, <2>3, AcceptedIsChecked DEF Good
<1>10. ASSUME t = "list_sftp_local" PROVE Good
  <2>1. ~terminal /\ files
    BY <1>1, <1>10 DEF terminal, files
  <2>2. ReadRowIs(t, "sftp", FALSE)
    BY <1>10, RowsAre
  <2>3. /\ answer # "wrong response"
        /\ answer # Tools!Failed => s.protocol = "sftp" /\ (tool.named => s.matches)
        /\ tool.named = FALSE /\ tool.by = "read"
    BY <1>6b, <2>2
  <2> QED
    BY <2>1, <2>3 DEF Good
<1>11. ASSUME t = "list_sftp_remote" PROVE Good
  <2>1. ~terminal /\ files
    BY <1>1, <1>11 DEF terminal, files
  <2>2. ReadRowIs(t, "sftp", FALSE)
    BY <1>11, RowsAre
  <2>3. /\ answer # "wrong response"
        /\ answer # Tools!Failed => s.protocol = "sftp" /\ (tool.named => s.matches)
        /\ tool.named = FALSE /\ tool.by = "read"
    BY <1>6b, <2>2
  <2> QED
    BY <2>1, <2>3 DEF Good
<1>12. ASSUME t = "change_sftp_local_directory" PROVE Good
  <2>1. ~terminal /\ files /\ t \in Tools!LocalTools
    BY <1>1, <1>12 DEF terminal, files, Tools!LocalTools
  <2>2. SendRowIs(t, "ChangeSftpLocalDirectory", "Empty", TRUE)
    BY <1>12, RowsAre
  <2>0. <<"ChangeSftpLocalDirectory", "Empty">> \in Expected
    BY DEF Expected
  <2>3. /\ answer # "wrong response" /\ (answer # Tools!Failed => Tools!Accepted(tool, s))
        /\ tool.what = "ChangeSftpLocalDirectory" /\ tool.named = TRUE
    BY <1>5, <2>0, <2>2
  <2> QED
    BY <2>1, <2>3, AcceptedIsChecked DEF Good
<1>13. ASSUME t = "change_sftp_remote_directory" PROVE Good
  <2>1. ~terminal /\ files
    BY <1>1, <1>13 DEF terminal, files
  <2>2. SendRowIs(t, "ChangeSftpRemoteDirectory", "Empty", TRUE)
    BY <1>13, RowsAre
  <2>0. <<"ChangeSftpRemoteDirectory", "Empty">> \in Expected
    BY DEF Expected
  <2>3. /\ answer # "wrong response" /\ (answer # Tools!Failed => Tools!Accepted(tool, s))
        /\ tool.what = "ChangeSftpRemoteDirectory" /\ tool.named = TRUE
    BY <1>5, <2>0, <2>2
  <2> QED
    BY <2>1, <2>3, AcceptedIsChecked DEF Good
<1>14. ASSUME t = "upload_sftp" PROVE Good
  <2>1. ~terminal /\ files
    BY <1>1, <1>14 DEF terminal, files
  <2>2. SendRowIs(t, "UploadSftp", "SftpTransferSummary", FALSE)
    BY <1>14, RowsAre
  <2>0. <<"UploadSftp", "SftpTransferSummary">> \in Expected
    BY DEF Expected
  <2>3. /\ answer # "wrong response" /\ (answer # Tools!Failed => Tools!Accepted(tool, s))
        /\ tool.what = "UploadSftp" /\ tool.named = FALSE
    BY <1>5, <2>0, <2>2
  <2> QED
    BY <2>1, <2>3, AcceptedIsChecked DEF Good
<1>15. ASSUME t = "download_sftp" PROVE Good
  <2>1. ~terminal /\ files
    BY <1>1, <1>15 DEF terminal, files
  <2>2. SendRowIs(t, "DownloadSftp", "SftpTransferSummary", FALSE)
    BY <1>15, RowsAre
  <2>0. <<"DownloadSftp", "SftpTransferSummary">> \in Expected
    BY DEF Expected
  <2>3. /\ answer # "wrong response" /\ (answer # Tools!Failed => Tools!Accepted(tool, s))
        /\ tool.what = "DownloadSftp" /\ tool.named = FALSE
    BY <1>5, <2>0, <2>2
  <2> QED
    BY <2>1, <2>3, AcceptedIsChecked DEF Good
<1>16. ASSUME t = "list_sftp_transfers" PROVE Good
  <2>1. ~terminal /\ files
    BY <1>1, <1>16 DEF terminal, files
  <2>2. ReadRowIs(t, "sftp", FALSE)
    BY <1>16, RowsAre
  <2>3. /\ answer # "wrong response"
        /\ answer # Tools!Failed => s.protocol = "sftp" /\ (tool.named => s.matches)
        /\ tool.named = FALSE /\ tool.by = "read"
    BY <1>6b, <2>2
  <2> QED
    BY <2>1, <2>3 DEF Good
<1>17. ASSUME t = "watch_sftp_local" PROVE Good
  <2>1. ~terminal /\ files
    BY <1>1, <1>17 DEF terminal, files
  <2>2. SendRowIs(t, "WatchSftpLocal", "SftpWatch", TRUE)
    BY <1>17, RowsAre
  <2>0. <<"WatchSftpLocal", "SftpWatch">> \in Expected
    BY DEF Expected
  <2>3. /\ answer # "wrong response" /\ (answer # Tools!Failed => Tools!Accepted(tool, s))
        /\ tool.what = "WatchSftpLocal" /\ tool.named = TRUE
    BY <1>5, <2>0, <2>2
  <2> QED
    BY <2>1, <2>3, AcceptedIsChecked DEF Good
<1>18. ASSUME t = "stop_sftp_local_watch" PROVE Good
  <2>1. ~terminal /\ files
    BY <1>1, <1>18 DEF terminal, files
  <2>2. SendRowIs(t, "StopSftpLocalWatch", "Empty", TRUE)
    BY <1>18, RowsAre
  <2>0. <<"StopSftpLocalWatch", "Empty">> \in Expected
    BY DEF Expected
  <2>3. /\ answer # "wrong response" /\ (answer # Tools!Failed => Tools!Accepted(tool, s))
        /\ tool.what = "StopSftpLocalWatch" /\ tool.named = TRUE
    BY <1>5, <2>0, <2>2
  <2> QED
    BY <2>1, <2>3, AcceptedIsChecked DEF Good
<1>19. ASSUME t = "list_sftp_local_watches" PROVE Good
  <2>1. ~terminal /\ files
    BY <1>1, <1>19 DEF terminal, files
  <2>2. ReadRowIs(t, "sftp", TRUE)
    BY <1>19, RowsAre
  <2>3. /\ answer # "wrong response"
        /\ answer # Tools!Failed => s.protocol = "sftp" /\ (tool.named => s.matches)
        /\ tool.named = TRUE /\ tool.by = "read"
    BY <1>6b, <2>2
  <2> QED
    BY <2>1, <2>3 DEF Good
<1>20. ASSUME t = "mcp_read_terminal" PROVE Good
  <2>1. terminal /\ ~files
    BY <1>1, <1>20 DEF terminal, files
  <2>2. ReadRowIs(t, "terminal", FALSE)
    BY <1>20, RowsAre
  <2>3. /\ answer # "wrong response" /\ (answer # Tools!Failed => s.protocol = "ssh")
        /\ ~tool.named /\ tool.by = "read"
    BY <1>6, <2>2
  <2> QED
    BY <2>1, <2>3 DEF Good
<1>21. ASSUME t = "send_text" PROVE Good
  <2>1. terminal /\ ~files
    BY <1>1, <1>21 DEF terminal, files
  <2>2. SendRowIs(t, "SendText", "Empty", FALSE)
    BY <1>21, RowsAre
  <2>0. <<"SendText", "Empty">> \in Expected
    BY DEF Expected
  <2>3. /\ answer # "wrong response" /\ (answer # Tools!Failed => Tools!Accepted(tool, s))
        /\ tool.what = "SendText" /\ tool.named = FALSE
    BY <1>5, <2>0, <2>2
  <2> QED
    BY <2>1, <2>3, AcceptedIsChecked DEF Good
<1>22. ASSUME t = "send_key" PROVE Good
  <2>1. terminal /\ ~files
    BY <1>1, <1>22 DEF terminal, files
  <2>2. SendRowIs(t, "SendKey", "Empty", FALSE)
    BY <1>22, RowsAre
  <2>0. <<"SendKey", "Empty">> \in Expected
    BY DEF Expected
  <2>3. /\ answer # "wrong response" /\ (answer # Tools!Failed => Tools!Accepted(tool, s))
        /\ tool.what = "SendKey" /\ tool.named = FALSE
    BY <1>5, <2>0, <2>2
  <2> QED
    BY <2>1, <2>3, AcceptedIsChecked DEF Good
<1>23. Good
  BY <1>1, <1>7, <1>8, <1>9, <1>10, <1>11, <1>12, <1>13, <1>14, <1>15, <1>16, <1>17, <1>18, <1>19, <1>20, <1>21, <1>22 DEF Tools!ToolNames
<1> QED
  BY <1>23 DEF Tools!ToolsActOnWhatTheyName, answer, tool, terminal, files


\* Presses of the named keys and of any character.
AnyKeyPress ==
  [key : {<<"named", k>> : k \in Tools!NamedKeys} \cup {<<"char", c>> : c \in Nat}
           \cup {<<"text", 0>>},
   control : BOOLEAN, alt : BOOLEAN, shift : BOOLEAN, application : BOOLEAN]

\* The code of a character is its place in its column of the table, if it has one.
LEMMA ControlCodes ==
  ASSUME NEW c \in Nat
  PROVE  Tools!ControlKey(c) = IF c \in 64..95 \/ c \in 97..122 \/ c = 32
                               THEN Tools!CodeOfControl(c) ELSE -1
<1>1. CASE c \in 65..90
  <2>1. c \notin {32, 64} /\ c \notin 91..95 /\ c \in 64..95
    BY <1>1
  <2>2. Tools!Lower(c) = c + 32 /\ Tools!IsLetter(c)
    BY <1>1 DEF Tools!Lower, Tools!IsLetter
  <2>3. Tools!ControlKey(c) = Tools!Lower(c) % 32
    BY <2>1, <2>2 DEF Tools!ControlKey
  <2>4. (c + 32) % 32 = c - 64
    BY <1>1
  <2>5. Tools!CodeOfControl(c) = c - 64
    BY <2>1 DEF Tools!CodeOfControl
  <2> QED
    BY <2>1, <2>2, <2>3, <2>4, <2>5
<1>2. CASE c \in 97..122
  <2>1. c \notin {32, 64} /\ c \notin 91..95 /\ c \notin 64..95 /\ c \notin 65..90
    BY <1>2
  <2>2. Tools!Lower(c) = c /\ Tools!IsLetter(c)
    BY <1>2, <2>1 DEF Tools!Lower, Tools!IsLetter
  <2>3. Tools!ControlKey(c) = Tools!Lower(c) % 32
    BY <2>1, <2>2 DEF Tools!ControlKey
  <2>4. c % 32 = c - 96
    BY <1>2
  <2>5. Tools!CodeOfControl(c) = c - 96
    BY <1>2, <2>1 DEF Tools!CodeOfControl
  <2> QED
    BY <1>2, <2>2, <2>3, <2>4, <2>5
<1>3. CASE c \in {32, 64}
  <2>1. c \notin 65..90 /\ c \notin 97..122 /\ c \notin 91..95
    BY <1>3
  <2>2. Tools!ControlKey(c) = 0
    BY <1>3, <2>1 DEF Tools!ControlKey, Tools!IsLetter
  <2>3. Tools!CodeOfControl(c) = 0
    BY <1>3 DEF Tools!CodeOfControl
  <2> QED
    BY <1>3, <2>2, <2>3
<1>4. CASE c \in 91..95
  <2>1. c \notin 65..90 /\ c \notin 97..122 /\ c \notin {32, 64} /\ c \in 64..95
    BY <1>4
  <2>2. Tools!ControlKey(c) = c - 64
    BY <1>4, <2>1 DEF Tools!ControlKey, Tools!IsLetter
  <2>3. Tools!CodeOfControl(c) = c - 64
    BY <2>1 DEF Tools!CodeOfControl
  <2> QED
    BY <2>1, <2>2, <2>3
<1>5. CASE c \notin 65..90 /\ c \notin 97..122 /\ c \notin {32, 64} /\ c \notin 91..95
  <2>1. Tools!ControlKey(c) = -1
    BY <1>5 DEF Tools!ControlKey, Tools!IsLetter
  <2>2. ~(c \in 64..95 \/ c \in 97..122 \/ c = 32)
    BY <1>5
  <2> QED
    BY <2>1, <2>2
<1> QED
  BY <1>1, <1>2, <1>3, <1>4, <1>5

LEMMA ControlStaysControl ==
  ASSUME NEW p \in AnyKeyPress
  PROVE  Tools!ControlIsControl(p)
<1> SUFFICES ASSUME p.control, p.key[1] = "char"
             PROVE  LET c == p.key[2] IN
                    IF c \in 64..95 \/ c \in 97..122 \/ c = 32
                    THEN Tools!KeyBytes(p) = <<Tools!CodeOfControl(c)>>
                    ELSE Tools!KeyBytes(p) = <<>>
  BY DEF Tools!ControlIsControl
<1>1. PICK c \in Nat : p.key = <<"char", c>>
  BY DEF AnyKeyPress
<1>2. p.key[2] = c
  BY <1>1
<1>3. Tools!KeyBytes(p) = IF Tools!ControlKey(c) = -1 THEN <<>> ELSE <<Tools!ControlKey(c)>>
  <2>1. "char" # "named"
    OBVIOUS
  <2> QED
    BY <1>2, <2>1 DEF Tools!KeyBytes
<1>4. CASE c \in 64..95 \/ c \in 97..122 \/ c = 32
  <2>1. Tools!ControlKey(c) = Tools!CodeOfControl(c)
    BY <1>4, ControlCodes
  <2>2. Tools!CodeOfControl(c) # -1
    BY <1>4 DEF Tools!CodeOfControl
  <2> QED
    BY <1>2, <1>3, <1>4, <2>1, <2>2
<1>5. CASE ~(c \in 64..95 \/ c \in 97..122 \/ c = 32)
  <2>1. Tools!ControlKey(c) = -1
    BY <1>5, ControlCodes
  <2> QED
    BY <1>2, <1>3, <1>5, <2>1
<1> QED
  BY <1>4, <1>5

\* A tool acts on the session that its arguments name, of the protocol it is for
\* and live when it changes something, its answer is of the kind that it waits for,
\* and Control with any character is the code of that character or nothing: of the
\* tables in tools.rs and dispatch.rs and the checks of the application.
THEOREM ToolsAreOfTheNamed == Spec => []ToolsActOnWhatTheyName
<1> DEFINE Given == /\ part = "call" => input \in Tools!ToolCalls
                    /\ part = "key" => input \in AnyKeyPress
<1>1. Tools!KeyPresses \subseteq AnyKeyPress
  <2>1. 32..126 \subseteq Nat
    OBVIOUS
  <2> QED
    BY <2>1 DEF Tools!KeyPresses, AnyKeyPress
<1>2. Init => Given
  BY <1>1 DEF Init
<1>3. Given /\ [Next]_all => Given'
  BY DEF Next, all, RouterSteps, NotesSteps, ManagerSteps
<1>4. Given => ToolsActOnWhatTheyName
  <2>1. ASSUME NEW call \in Tools!ToolCalls PROVE Tools!ToolsActOnWhatTheyName(call)
    <3>1. /\ call = [tool |-> call.tool, session |-> call.session]
          /\ call.tool \in Tools!ToolNames
      BY DEF Tools!ToolCalls
    <3> QED
      BY <3>1, CallIsOfTheSession
  <2> QED
    BY <2>1, ControlStaysControl DEF ToolsActOnWhatTheyName
<1> QED
  BY <1>2, <1>3, <1>4, PTL DEF Spec
=============================================================================
