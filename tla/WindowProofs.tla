---- MODULE WindowProofs ----
(***************************************************************************)
(* That the window shows what there is, for any number of workspaces,      *)
(* profiles, refreshes and lines: the invariants of MCWindow, and what a   *)
(* drag may never do.                                                      *)
(*                                                                         *)
(* An invariant of a part with state is proved from the steps of that part *)
(* and carried to the specification by PartSteps.  The parts without       *)
(* state, the selection, the clicks, the scroll bar and the colours, are   *)
(* proved for sets of inputs that contain those of the runs.               *)
(***************************************************************************)
EXTENDS MCWindow, FiniteSetTheorems, SequenceTheorems, WellFoundedInduction, TLAPS

\* A step of the specification is one of a part, or leaves it.
LEMMA PartSteps ==
  [Next]_all => [Bar!Next]_tabsState /\ [Sidebar!Next]_sidebarState /\ [Terminal!Next]_terminalState
BY DEF Next, all, BarSteps, SidebarSteps, TerminalSteps

-----------------------------------------------------------------------------
(* Sequences that lose an element or get one                               *)

LEMMA RemovedIs ==
  ASSUME NEW S, NEW s \in Seq(S), NEW i \in 1..Len(s)
  PROVE  /\ RemoveAt(s, i) \in Seq(S) /\ Len(RemoveAt(s, i)) = Len(s) - 1
         /\ \A k \in 1..(Len(s) - 1) : RemoveAt(s, i)[k] = IF k < i THEN s[k] ELSE s[k + 1]
<1>0. Len(s) \in Nat /\ \A k \in 1..Len(s) : s[k] \in S
  BY LenProperties, ElementOfSeq
<1> DEFINE a == SubSeq(s, 1, i - 1)  b == SubSeq(s, i + 1, Len(s))
<1>1. a \in Seq(S) /\ Len(a) = i - 1 /\ \A k \in 1..(i - 1) : a[k] = s[k]
  <2>1. \A k \in 1..(i - 1) : s[k] \in S
    BY <1>0
  <2>2. /\ a \in Seq(S) /\ Len(a) = IF 1 <= i - 1 THEN (i - 1) - 1 + 1 ELSE 0
        /\ \A k \in 1..((i - 1) - 1 + 1) : a[k] = s[1 + k - 1]
    BY <1>0, <2>1, SubSeqProperties
  <2> HIDE DEF a
  <2> QED
    BY <1>0, <2>2
<1>2. b \in Seq(S) /\ Len(b) = Len(s) - i /\ \A k \in 1..(Len(s) - i) : b[k] = s[i + k]
  <2>1. \A k \in (i + 1)..Len(s) : s[k] \in S
    BY <1>0
  <2>2. /\ b \in Seq(S) /\ Len(b) = IF i + 1 <= Len(s) THEN Len(s) - (i + 1) + 1 ELSE 0
        /\ \A k \in 1..(Len(s) - (i + 1) + 1) : b[k] = s[(i + 1) + k - 1]
    BY <1>0, <2>1, SubSeqProperties
  <2> HIDE DEF b
  <2>3. Len(b) = Len(s) - i
    BY <1>0, <2>2
  <2>4. ASSUME NEW k \in 1..(Len(s) - i) PROVE b[k] = s[i + k]
    <3>1. k \in 1..(Len(s) - (i + 1) + 1) /\ (i + 1) + k - 1 = i + k
      BY <1>0
    <3> QED
      BY <2>2, <3>1
  <2> QED
    BY <2>2, <2>3, <2>4
<1>3. RemoveAt(s, i) = a \o b
  BY DEF RemoveAt
<1> HIDE DEF a, b
<1>4. /\ a \o b \in Seq(S) /\ Len(a \o b) = Len(a) + Len(b)
      /\ \A k \in 1..(Len(a) + Len(b)) : (a \o b)[k] = IF k <= Len(a) THEN a[k] ELSE b[k - Len(a)]
  BY <1>1, <1>2, ConcatProperties
<1> DEFINE c == a \o b
<1> HIDE DEF c
<1>5. ASSUME NEW k \in 1..(Len(s) - 1) PROVE c[k] = IF k < i THEN s[k] ELSE s[k + 1]
  <2>0. k \in 1..(Len(a) + Len(b))
    BY <1>0, <1>1, <1>2
  <2>1. CASE k < i
    <3>1. k \in 1..(i - 1) /\ k <= Len(a)
      BY <1>0, <1>1, <2>1
    <3> QED
      BY <1>1, <1>4, <2>0, <2>1, <3>1 DEF c
  <2>2. CASE ~(k < i)
    <3>1. k - (i - 1) \in 1..(Len(s) - i) /\ i + (k - (i - 1)) = k + 1 /\ ~(k <= Len(a))
      BY <1>0, <1>1, <2>2
    <3>2. c[k] = b[k - (i - 1)]
      BY <1>1, <1>4, <2>0, <3>1 DEF c
    <3> QED
      BY <1>2, <2>2, <3>1, <3>2
  <2> QED
    BY <2>1, <2>2
<1>6. c \in Seq(S) /\ Len(c) = Len(s) - 1
  BY <1>0, <1>1, <1>2, <1>4 DEF c
<1> QED
  BY <1>3, <1>5, <1>6 DEF c

LEMMA InsertedIs ==
  ASSUME NEW S, NEW s \in Seq(S), NEW i \in 1..(Len(s) + 1), NEW x \in S
  PROVE  /\ InsertAt(s, i, x) \in Seq(S) /\ Len(InsertAt(s, i, x)) = Len(s) + 1
         /\ \A k \in 1..(Len(s) + 1) :
              InsertAt(s, i, x)[k] = IF k < i THEN s[k] ELSE IF k = i THEN x ELSE s[k - 1]
<1>0. Len(s) \in Nat /\ \A k \in 1..Len(s) : s[k] \in S
  BY LenProperties, ElementOfSeq
<1> DEFINE a == SubSeq(s, 1, i - 1)  b == SubSeq(s, i, Len(s))
<1>1. a \in Seq(S) /\ Len(a) = i - 1 /\ \A k \in 1..(i - 1) : a[k] = s[k]
  <2>1. \A k \in 1..(i - 1) : s[k] \in S
    BY <1>0
  <2>2. /\ a \in Seq(S) /\ Len(a) = IF 1 <= i - 1 THEN (i - 1) - 1 + 1 ELSE 0
        /\ \A k \in 1..((i - 1) - 1 + 1) : a[k] = s[1 + k - 1]
    BY <1>0, <2>1, SubSeqProperties
  <2> HIDE DEF a
  <2> QED
    BY <1>0, <2>2
<1>2. /\ b \in Seq(S) /\ Len(b) = Len(s) - i + 1
      /\ \A k \in 1..(Len(s) - i + 1) : b[k] = s[i + k - 1]
  <2>1. \A k \in i..Len(s) : s[k] \in S
    BY <1>0
  <2>2. /\ b \in Seq(S) /\ Len(b) = IF i <= Len(s) THEN Len(s) - i + 1 ELSE 0
        /\ \A k \in 1..(Len(s) - i + 1) : b[k] = s[i + k - 1]
    BY <1>0, <2>1, SubSeqProperties
  <2> HIDE DEF b
  <2> QED
    BY <1>0, <2>2
<1> DEFINE d == <<x>>
<1>3. InsertAt(s, i, x) = (a \o d) \o b
  BY DEF InsertAt
<1>d. d \in Seq(S) /\ Len(d) = 1 /\ d[1] = x
  OBVIOUS
<1> HIDE DEF a, b, d
<1>4. /\ a \o d \in Seq(S) /\ Len(a \o d) = Len(a) + Len(d)
      /\ \A k \in 1..(Len(a) + Len(d)) : (a \o d)[k] = IF k <= Len(a) THEN a[k] ELSE d[k - Len(a)]
  BY <1>1, <1>d, ConcatProperties
<1> DEFINE e == a \o d
<1> HIDE DEF e
<1>5. e \in Seq(S) /\ Len(e) = i /\ e[i] = x /\ \A k \in 1..(i - 1) : e[k] = s[k]
  BY <1>0, <1>1, <1>d, <1>4 DEF e
<1>6. /\ e \o b \in Seq(S) /\ Len(e \o b) = Len(e) + Len(b)
      /\ \A k \in 1..(Len(e) + Len(b)) : (e \o b)[k] = IF k <= Len(e) THEN e[k] ELSE b[k - Len(e)]
  BY <1>5, <1>2, ConcatProperties
<1> DEFINE c == e \o b
<1> HIDE DEF c
<1>7. ASSUME NEW k \in 1..(Len(s) + 1)
      PROVE  c[k] = IF k < i THEN s[k] ELSE IF k = i THEN x ELSE s[k - 1]
  <2>0. k \in 1..(Len(e) + Len(b)) /\ Len(e) = i
    BY <1>0, <1>5, <1>2
  <2>1. CASE k <= i
    BY <1>0, <1>5, <1>6, <2>0, <2>1 DEF c
  <2>2. CASE ~(k <= i)
    <3>1. k - i \in 1..(Len(s) - i + 1) /\ i + (k - i) - 1 = k - 1
      BY <1>0, <2>2
    <3>2. c[k] = b[k - i]
      BY <1>6, <2>0, <2>2 DEF c
    <3> QED
      BY <1>2, <2>2, <3>1, <3>2
  <2> QED
    BY <2>1, <2>2
<1>8. c \in Seq(S) /\ Len(c) = Len(s) + 1
  BY <1>0, <1>2, <1>5, <1>6 DEF c
<1> QED
  BY <1>3, <1>7, <1>8 DEF c, e


-----------------------------------------------------------------------------
(* Induction over the numbers, stated of a set: the smallest number that   *)
(* is not in it has one before it that is.                                 *)

LEMMA SetInduction ==
  ASSUME NEW S, 0 \in S, \A n \in Nat : n \in S => n + 1 \in S
  PROVE  Nat \subseteq S
<1> SUFFICES ASSUME Nat \ S # {} PROVE FALSE
  OBVIOUS
<1>1. \E n \in Nat \ S : \A m \in Nat \ S : <<m, n>> \notin OpToRel(<, Nat)
  BY WFMin, NatLessThanWellFounded
<1>2. \A m, n \in Nat : m < n => <<m, n>> \in OpToRel(<, Nat)
  BY DEF OpToRel
<1>3. \E n \in Nat \ S : \A m \in Nat \ S : ~(m < n)
  BY <1>1, <1>2
<1> QED
  <2>1. PICK n \in Nat \ S : \A m \in Nat \ S : ~(m < n)
    BY <1>3
  <2>2. n # 0 /\ n - 1 \in Nat /\ n - 1 < n /\ (n - 1) + 1 = n
    BY <2>1
  <2>3. n - 1 \in S
    BY <2>1, <2>2
  <2> QED
    BY <2>1, <2>2, <2>3
-----------------------------------------------------------------------------
(* SidebarSessions                                                         *)

Stores == UNION {[D -> Nat] : D \in SUBSET Profiles}
Tasks == [kind : {"save", "delete", "open", "close"}, of : Profiles,
          done : BOOLEAN, ok : BOOLEAN]
Refreshes == [tunnels : {Sidebar!Unread} \cup {<<t>> : t \in SUBSET Profiles},
              result : {Sidebar!Unread} \cup {<<s>> : s \in Stores}, newest : BOOLEAN]
SidebarTypes ==
  /\ stored \in Stores /\ tunnels \subseteq Profiles /\ behind \subseteq Profiles
  /\ sessions \in [profiles : Stores, tunnels : SUBSET Profiles]
  /\ menu \in {Sidebar!Unread} \cup (Profiles \X {"open", "close"})
  /\ query \in Queries /\ failed \in BOOLEAN
  /\ tasks \subseteq Tasks /\ IsFiniteSet(tasks)
  /\ refreshes \in Seq(Refreshes)
  /\ Cardinality(tasks) + Len(refreshes) <= MaxWork

\* One refresh is the newest, and its tunnels are read first.
OneNewest ==
  /\ \A i, j \in DOMAIN refreshes : refreshes[i].newest /\ refreshes[j].newest => i = j
  /\ \A i \in DOMAIN refreshes :
       refreshes[i].result # Sidebar!Unread => refreshes[i].tunnels # Sidebar!Unread
\* What was done is answered by a refresh that is newer than all others.
Pending == \E task \in tasks : task.done /\ task.ok
SameButBehind(some, others) == some \ behind = others \ behind
\* What the newest refresh has read is there still.
ReadIsStored ==
  ~Pending => \A i \in DOMAIN refreshes : refreshes[i].newest =>
    /\ refreshes[i].tunnels # Sidebar!Unread => SameButBehind(refreshes[i].tunnels[1], tunnels)
    /\ refreshes[i].result # Sidebar!Unread => refreshes[i].result[1] = stored
\* Without a newest refresh what is shown is there still.
ShownIsStored ==
  ~Pending /\ ~failed /\ (\A i \in DOMAIN refreshes : ~refreshes[i].newest) =>
    /\ sessions.profiles = stored
    /\ SameButBehind(sessions.tunnels, tunnels \cap DOMAIN stored)
\* The rows are those of the sessions shown that are searched for.
RowsAreShown == listed = DOMAIN sessions.profiles \cap query

SidebarInv == SidebarTypes /\ OneNewest /\ ReadIsStored /\ ShownIsStored /\ RowsAreShown


LEMMA StoresAre ==
  /\ Sidebar!Nobody \in [profiles : Stores, tunnels : SUBSET Profiles]
  /\ \A s \in Stores : DOMAIN s \subseteq Profiles
  /\ \A s \in Stores, p \in Profiles, v \in Nat : Sidebar!With(s, p, v) \in Stores
  /\ \A s \in Stores, p \in Profiles : Sidebar!Gone(s, p) \in Stores
<1>1. Sidebar!Nobody \in [profiles : Stores, tunnels : SUBSET Profiles]
  <2>1. [p \in {} |-> 0] \in [{} -> Nat]
    OBVIOUS
  <2> QED
    BY <2>1 DEF Stores, Sidebar!Nobody
<1>2. ASSUME NEW s \in Stores PROVE DOMAIN s \subseteq Profiles
  BY DEF Stores
<1>3. ASSUME NEW s \in Stores, NEW p \in Profiles, NEW v \in Nat
      PROVE  Sidebar!With(s, p, v) \in Stores
  <2>1. PICK D \in SUBSET Profiles : s \in [D -> Nat]
    BY DEF Stores
  <2>2. Sidebar!With(s, p, v) \in [D \cup {p} -> Nat]
    BY <2>1 DEF Sidebar!With
  <2> QED
    BY <2>2 DEF Stores
<1>4. ASSUME NEW s \in Stores, NEW p \in Profiles PROVE Sidebar!Gone(s, p) \in Stores
  <2>1. PICK D \in SUBSET Profiles : s \in [D -> Nat]
    BY DEF Stores
  <2>2. Sidebar!Gone(s, p) \in [D \ {p} -> Nat]
    BY <2>1 DEF Sidebar!Gone
  <2> QED
    BY <2>2 DEF Stores
<1> QED
  BY <1>1, <1>2, <1>3, <1>4

\* A refresh that starts is the newest, and those under way are not any more.
LEMMA Refreshed ==
  ASSUME refreshes \in Seq(Refreshes), Sidebar!Refresh
  PROVE  /\ refreshes' \in Seq(Refreshes) /\ Len(refreshes') = Len(refreshes) + 1
         /\ refreshes'[Len(refreshes) + 1] = Sidebar!Fresh
         /\ \A i \in 1..Len(refreshes) : /\ ~refreshes'[i].newest
                                         /\ refreshes'[i].tunnels = refreshes[i].tunnels
                                         /\ refreshes'[i].result = refreshes[i].result
<1> DEFINE older == [i \in DOMAIN refreshes |-> [refreshes[i] EXCEPT !.newest = FALSE]]
<1>1. Sidebar!Fresh \in Refreshes
  BY DEF Sidebar!Fresh, Refreshes
<1>2. /\ \A i \in 1..Len(refreshes) : /\ older[i] \in Refreshes /\ ~older[i].newest
                                      /\ older[i].tunnels = refreshes[i].tunnels
                                      /\ older[i].result = refreshes[i].result
      /\ older \in Seq(Refreshes) /\ Len(older) = Len(refreshes)
  <2>1. ASSUME NEW i \in 1..Len(refreshes)
        PROVE  /\ older[i] \in Refreshes /\ ~older[i].newest
               /\ older[i].tunnels = refreshes[i].tunnels /\ older[i].result = refreshes[i].result
    <3>1. refreshes[i] \in Refreshes /\ i \in DOMAIN refreshes
      BY ElementOfSeq, LenProperties
    <3> QED
      BY <3>1 DEF Refreshes
  <2>2. DOMAIN refreshes = 1..Len(refreshes) /\ Len(refreshes) \in Nat
    BY LenProperties
  <2>3. older = [i \in 1..Len(refreshes) |-> older[i]]
    BY <2>2
  <2> HIDE DEF older
  <2>4. older \in Seq(Refreshes) /\ Len(older) = Len(refreshes)
    BY <2>1, <2>2, <2>3, IsASeq
  <2> QED
    BY <2>1, <2>4
<1>3. refreshes' = Append(older, Sidebar!Fresh)
  BY DEF Sidebar!Refresh
<1> HIDE DEF older
<1> QED
  BY <1>1, <1>2, <1>3, AppendProperties

\* A refresh that ends leaves the others in their order.
LEMMA EndedIs ==
  ASSUME refreshes \in Seq(Refreshes), NEW i \in DOMAIN refreshes
  PROVE  /\ Sidebar!Ended(i) \in Seq(Refreshes) /\ Len(Sidebar!Ended(i)) = Len(refreshes) - 1
         /\ \A k \in 1..(Len(refreshes) - 1) :
              Sidebar!Ended(i)[k] = IF k < i THEN refreshes[k] ELSE refreshes[k + 1]
<1>1. i \in 1..Len(refreshes)
  BY LenProperties
<1>2. Sidebar!Ended(i) = RemoveAt(refreshes, i)
  BY DEF Sidebar!Ended, Sidebar!RemoveAt, RemoveAt
<1> QED
  BY <1>1, <1>2, RemovedIs

LEMMA SidebarStarts == Sidebar!Init => SidebarInv
<1> SUFFICES ASSUME Sidebar!Init PROVE SidebarInv
  OBVIOUS
<1> USE DEF Sidebar!Init
<1>1. Sidebar!Fresh \in Refreshes /\ Sidebar!Fresh.tunnels = Sidebar!Unread
      /\ Sidebar!Fresh.result = Sidebar!Unread /\ Sidebar!Fresh.newest = TRUE
  BY DEF Sidebar!Fresh, Refreshes
<1>2. /\ refreshes \in Seq(Refreshes) /\ Len(refreshes) = 1 /\ DOMAIN refreshes = {1}
      /\ refreshes[1] = Sidebar!Fresh
  BY <1>1
<1>3. tasks = {} /\ IsFiniteSet(tasks) /\ Cardinality(tasks) = 0
  BY FS_EmptySet
<1>4. SidebarTypes
  <2>1. Sidebar!Nobody \in [profiles : Stores, tunnels : SUBSET Profiles]
    BY StoresAre
  <2>2. Sidebar!Nobody.profiles \in Stores
    BY <2>1
  <2>3. Cardinality(tasks) + Len(refreshes) <= MaxWork
    BY <1>2, <1>3, SidebarAssumption
  <2> QED
    BY <1>2, <1>3, <2>1, <2>2, <2>3 DEF SidebarTypes
<1>5. OneNewest /\ ReadIsStored /\ ShownIsStored
  BY <1>1, <1>2 DEF OneNewest, ReadIsStored, ShownIsStored
<1>6. RowsAreShown
  <2>1. DOMAIN Sidebar!Nobody.profiles = {}
    BY DEF Sidebar!Nobody
  <2> QED
    BY <2>1 DEF RowsAreShown
<1> QED
  BY <1>4, <1>5, <1>6 DEF SidebarInv

\* What neither stores nor reads leaves the rest as it is.
LEMMA NothingRead ==
  ASSUME SidebarInv, UNCHANGED <<stored, tunnels, sessions, refreshes, behind>>,
         Pending => Pending', failed => failed'
  PROVE  OneNewest' /\ ReadIsStored' /\ ShownIsStored'
BY DEF SidebarInv, OneNewest, ReadIsStored, ShownIsStored, SameButBehind

LEMMA SidebarAsked ==
  ASSUME SidebarInv, NEW kind \in {"save", "delete", "open", "close"}, NEW p \in Profiles,
         Sidebar!Asked(kind, p), menu' \in {menu, Sidebar!Unread}
  PROVE  SidebarInv'
<1> DEFINE task == [kind |-> kind, of |-> p, done |-> FALSE, ok |-> TRUE]
<1> USE DEF SidebarInv, Sidebar!Asked
<1>1. tasks' = tasks \cup {task} /\ task \in Tasks
  BY DEF Tasks
<1> HIDE DEF task
<1>2. /\ IsFiniteSet(tasks') /\ Cardinality(tasks') \in Nat
      /\ Cardinality(tasks') <= Cardinality(tasks) + 1 /\ Cardinality(tasks) \in Nat
  <2>1. IsFiniteSet(tasks) /\ Cardinality(tasks) \in Nat
    BY FS_CardinalityType DEF SidebarTypes
  <2>2. /\ IsFiniteSet(tasks \cup {task})
        /\ Cardinality(tasks \cup {task}) = IF task \in tasks THEN Cardinality(tasks)
                                            ELSE Cardinality(tasks) + 1
    BY <2>1, FS_AddElement
  <2>3. /\ IsFiniteSet(tasks')
        /\ \/ Cardinality(tasks') = Cardinality(tasks)
           \/ Cardinality(tasks') = Cardinality(tasks) + 1
    BY <1>1, <2>2
  <2> QED
    BY <2>1, <2>3
<1>3. Cardinality(tasks') + Len(refreshes) <= MaxWork
  <2>1. Len(refreshes) \in Nat /\ MaxWork \in Nat
    BY SidebarAssumption, LenProperties DEF SidebarTypes
  <2>2. Cardinality(tasks) + Len(refreshes) < MaxWork
    BY DEF Sidebar!Room, Sidebar!Cardinality, Cardinality
  <2> QED
    BY <1>2, <2>1, <2>2
<1>4. SidebarTypes'
  BY <1>1, <1>2, <1>3 DEF SidebarTypes
<1>5. Pending => Pending'
  BY <1>1 DEF Pending
<1> QED
  BY <1>4, <1>5, NothingRead DEF RowsAreShown

LEMMA SidebarDone ==
  ASSUME SidebarInv, NEW task \in tasks, Sidebar!Done(task)
  PROVE  SidebarInv'
<1> USE DEF SidebarInv, Sidebar!Done
<1>0. task \in Tasks /\ ~task.done
  BY DEF SidebarTypes
<1>1. PICK ok \in BOOLEAN :
        /\ tasks' = (tasks \ {task}) \cup {[task EXCEPT !.done = TRUE, !.ok = ok]}
        /\ IF ok THEN Sidebar!Effect(task) ELSE UNCHANGED <<stored, tunnels>>
  BY Zenon
<1> DEFINE new == [task EXCEPT !.done = TRUE, !.ok = ok]
<1>2. new \in Tasks /\ new.done = TRUE /\ new.ok = ok
  BY <1>0 DEF Tasks
<1>3. tasks' = (tasks \ {task}) \cup {new}
  BY <1>1
<1> HIDE DEF new
<1>4. tasks' \subseteq Tasks /\ IsFiniteSet(tasks') /\ Cardinality(tasks') <= Cardinality(tasks)
      /\ Cardinality(tasks') \in Nat /\ Cardinality(tasks) \in Nat
  <2>1. /\ IsFiniteSet(tasks \ {task}) /\ Cardinality(tasks \ {task}) = Cardinality(tasks) - 1
        /\ Cardinality(tasks) \in Nat
    BY FS_RemoveElement, FS_CardinalityType DEF SidebarTypes
  <2>2. IsFiniteSet(tasks') /\ Cardinality(tasks') <= Cardinality(tasks \ {task}) + 1
        /\ Cardinality(tasks') \in Nat
    <3>1. /\ IsFiniteSet((tasks \ {task}) \cup {new})
          /\ Cardinality((tasks \ {task}) \cup {new}) =
               IF new \in tasks \ {task} THEN Cardinality(tasks \ {task})
               ELSE Cardinality(tasks \ {task}) + 1
      BY <2>1, FS_AddElement
    <3>2. /\ IsFiniteSet(tasks')
          /\ \/ Cardinality(tasks') = Cardinality(tasks \ {task})
             \/ Cardinality(tasks') = Cardinality(tasks \ {task}) + 1
      BY <1>3, <3>1
    <3>3. Cardinality(tasks \ {task}) \in Nat
      BY <2>1, FS_CardinalityType
    <3> QED
      BY <3>2, <3>3
  <2> QED
    BY <1>2, <1>3, <2>1, <2>2 DEF SidebarTypes
<1>5. stored' \in Stores /\ tunnels' \subseteq Profiles
  <2>1. CASE ~ok
    BY <1>1, <2>1 DEF SidebarTypes
  <2>2. CASE ok
    <3>1. Sidebar!Version(task.of) + 1 \in Nat
      <4>1. PICK D \in SUBSET Profiles : stored \in [D -> Nat]
        BY DEF SidebarTypes, Stores
      <4> QED
        BY <4>1 DEF Sidebar!Version
    <3>2. task.of \in Profiles /\ stored \in Stores /\ tunnels \subseteq Profiles
      BY <1>0 DEF Tasks, SidebarTypes
    <3>3. Sidebar!With(stored, task.of, Sidebar!Version(task.of) + 1) \in Stores
          /\ Sidebar!Gone(stored, task.of) \in Stores
      BY <3>1, <3>2, StoresAre
    <3>4. Sidebar!Effect(task)
      BY <1>1, <2>2
    <3>5. stored' \in Stores
      BY <3>2, <3>3, <3>4 DEF Sidebar!Effect
    <3>6. tunnels' \subseteq Profiles
      <4>1. task.kind \in {"save", "delete", "open", "close"}
        BY <1>0 DEF Tasks
      <4> QED
        BY <3>2, <3>4, <4>1 DEF Sidebar!Effect
    <3> QED
      BY <3>5, <3>6
  <2> QED
    BY <2>1, <2>2
<1>6. SidebarTypes'
  <2>1. Cardinality(tasks') + Len(refreshes') <= MaxWork
    <3>1. Len(refreshes) \in Nat /\ MaxWork \in Nat
      BY SidebarAssumption, LenProperties DEF SidebarTypes
    <3>2. refreshes' = refreshes /\ Cardinality(tasks) + Len(refreshes) <= MaxWork
      BY DEF SidebarTypes
    <3> QED
      BY <1>4, <3>1, <3>2
  <2> QED
    BY <1>4, <1>5, <2>1 DEF SidebarTypes, Sidebar!shown
<1>7. Pending => Pending'
  <2>1. ASSUME NEW t \in tasks, t.done, t.ok PROVE t \in tasks'
    BY <1>0, <1>3, <2>1
  <2> QED
    BY <2>1 DEF Pending
<1>8. CASE ok
  <2>1. Pending'
    BY <1>2, <1>3, <1>8 DEF Pending
  <2> QED
    BY <1>6, <2>1 DEF OneNewest, ReadIsStored, ShownIsStored, RowsAreShown, Sidebar!shown
<1>9. CASE ~ok
  BY <1>1, <1>6, <1>7, <1>9, NothingRead DEF RowsAreShown, Sidebar!shown
<1> QED
  BY <1>8, <1>9

\* A task that is answered makes room.
LEMMA SidebarLess ==
  ASSUME SidebarInv, NEW task \in tasks
  PROVE  /\ IsFiniteSet(tasks \ {task}) /\ tasks \ {task} \subseteq Tasks
         /\ Cardinality(tasks \ {task}) + 1 + Len(refreshes) <= MaxWork
         /\ Cardinality(tasks \ {task}) \in Nat /\ Len(refreshes) \in Nat /\ MaxWork \in Nat
<1>1. /\ IsFiniteSet(tasks \ {task}) /\ Cardinality(tasks \ {task}) = Cardinality(tasks) - 1
      /\ Cardinality(tasks) \in Nat /\ Cardinality(tasks \ {task}) \in Nat
  BY FS_RemoveElement, FS_CardinalityType DEF SidebarInv, SidebarTypes
<1>2. Len(refreshes) \in Nat /\ MaxWork \in Nat
  BY SidebarAssumption, LenProperties DEF SidebarInv, SidebarTypes
<1>3. tasks \subseteq Tasks /\ Cardinality(tasks) + Len(refreshes) <= MaxWork
  BY DEF SidebarInv, SidebarTypes
<1> QED
  BY <1>1, <1>2, <1>3

LEMMA SidebarAnswered ==
  ASSUME SidebarInv, NEW task \in tasks, Sidebar!AnswerFails(task) \/ Sidebar!Answered(task)
  PROVE  SidebarInv'
<1> USE DEF SidebarInv
<1>1. CASE Sidebar!AnswerFails(task)
  <2> USE <1>1 DEF Sidebar!AnswerFails
  <2>1. SidebarTypes'
    <3>1. Cardinality(tasks') + Len(refreshes') <= MaxWork
      <4>1. tasks' = tasks \ {task} /\ refreshes' = refreshes
        OBVIOUS
      <4>2. Cardinality(tasks') = Cardinality(tasks \ {task}) /\ Len(refreshes') = Len(refreshes)
        BY <4>1
      <4>3. /\ Cardinality(tasks \ {task}) + 1 + Len(refreshes) <= MaxWork
            /\ Cardinality(tasks \ {task}) \in Nat /\ Len(refreshes) \in Nat /\ MaxWork \in Nat
        BY SidebarLess
      <4> HIDE <1>1 DEF Sidebar!AnswerFails, SidebarInv
      <4> QED
        BY <4>2, <4>3
    <3>2. failed' \in BOOLEAN
      BY DEF SidebarTypes
    <3> QED
      BY <3>1, <3>2, SidebarLess DEF SidebarTypes
  <2>2. Pending => Pending'
    BY DEF Pending
  <2> QED
    BY <2>1, <2>2, NothingRead DEF RowsAreShown
<1>2. CASE Sidebar!Answered(task)
  <2> USE <1>2 DEF Sidebar!Answered
  <2>0. refreshes \in Seq(Refreshes)
    BY DEF SidebarTypes
  <2>1. /\ refreshes' \in Seq(Refreshes) /\ Len(refreshes') = Len(refreshes) + 1
        /\ refreshes'[Len(refreshes) + 1] = Sidebar!Fresh
        /\ \A i \in 1..Len(refreshes) : /\ ~refreshes'[i].newest
                                        /\ refreshes'[i].tunnels = refreshes[i].tunnels
                                        /\ refreshes'[i].result = refreshes[i].result
    BY <2>0, Refreshed
  <2>2. SidebarTypes'
    <3>1. Cardinality(tasks') + Len(refreshes') <= MaxWork
      <4>1. tasks' = tasks \ {task}
        OBVIOUS
      <4>2. Cardinality(tasks') = Cardinality(tasks \ {task})
        BY <4>1
      <4>3. /\ Cardinality(tasks \ {task}) + 1 + Len(refreshes) <= MaxWork
            /\ Cardinality(tasks \ {task}) \in Nat /\ Len(refreshes) \in Nat /\ MaxWork \in Nat
        BY SidebarLess
      <4> HIDE <1>2 DEF Sidebar!Answered, SidebarInv
      <4> QED
        BY <2>1, <4>2, <4>3
    <3> QED
      BY <2>1, <3>1, SidebarLess DEF SidebarTypes, Sidebar!shown
  <2>3. /\ Sidebar!Fresh.newest = TRUE /\ Sidebar!Fresh.tunnels = Sidebar!Unread
        /\ Sidebar!Fresh.result = Sidebar!Unread
    BY DEF Sidebar!Fresh
  <2>4. /\ Len(refreshes) \in Nat /\ DOMAIN refreshes' = 1..(Len(refreshes) + 1)
        /\ DOMAIN refreshes = 1..Len(refreshes)
    BY <2>0, <2>1, LenProperties
  <2>5. OneNewest'
    BY <2>1, <2>3, <2>4 DEF OneNewest
  <2>6. ReadIsStored'
    BY <2>1, <2>3, <2>4 DEF ReadIsStored
  <2>7. ShownIsStored'
    BY <2>1, <2>3, <2>4 DEF ShownIsStored
  <2> QED
    BY <2>2, <2>5, <2>6, <2>7 DEF RowsAreShown, Sidebar!shown
<1> QED
  BY <1>1, <1>2

\* A refresh changes what it has read.
LEMMA RefreshReads ==
  ASSUME refreshes \in Seq(Refreshes), NEW i \in DOMAIN refreshes, NEW r \in Refreshes,
         refreshes' = [refreshes EXCEPT ![i] = r]
  PROVE  /\ refreshes' \in Seq(Refreshes) /\ Len(refreshes') = Len(refreshes)
         /\ DOMAIN refreshes' = DOMAIN refreshes
         /\ \A k \in DOMAIN refreshes : refreshes'[k] = IF k = i THEN r ELSE refreshes[k]
<1>1. i \in 1..Len(refreshes) /\ DOMAIN refreshes = 1..Len(refreshes)
  BY LenProperties
<1>2. /\ refreshes' \in Seq(Refreshes) /\ Len(refreshes') = Len(refreshes)
  BY <1>1, ExceptSeq
<1> QED
  BY <1>1, <1>2, LenProperties

LEMMA SidebarReads ==
  ASSUME SidebarInv, NEW i \in DOMAIN refreshes,
         Sidebar!ReadTunnels(i) \/ Sidebar!ReadProfiles(i)
  PROVE  SidebarInv'
<1> USE DEF SidebarInv
<1>0. refreshes \in Seq(Refreshes) /\ refreshes[i] \in Refreshes
  BY ElementOfSeq, LenProperties DEF SidebarTypes
<1>1. CASE Sidebar!ReadTunnels(i)
  <2> USE <1>1 DEF Sidebar!ReadTunnels
  <2> DEFINE r == [refreshes[i] EXCEPT !.tunnels = <<tunnels>>]
  <2>1. /\ r \in Refreshes /\ r.tunnels = <<tunnels>> /\ r.newest = refreshes[i].newest
        /\ r.result = refreshes[i].result
    BY <1>0 DEF Refreshes, SidebarTypes
  <2>2. refreshes' = [refreshes EXCEPT ![i] = r]
    OBVIOUS
  <2> HIDE DEF r
  <2>3. /\ refreshes' \in Seq(Refreshes) /\ Len(refreshes') = Len(refreshes)
        /\ DOMAIN refreshes' = DOMAIN refreshes
        /\ \A k \in DOMAIN refreshes : refreshes'[k] = IF k = i THEN r ELSE refreshes[k]
    BY <1>0, <2>1, <2>2, RefreshReads
  <2>4. SidebarTypes'
    BY <2>3 DEF SidebarTypes, Sidebar!shown
  <2>t. r.tunnels # Sidebar!Unread /\ r.tunnels[1] = tunnels
    BY <2>1 DEF Sidebar!Unread
  <2>5. OneNewest'
    BY <2>1, <2>3, <2>t DEF OneNewest
  <2>6. Pending' <=> Pending
    BY DEF Pending
  <2>7. ReadIsStored'
    <3> SUFFICES ASSUME ~Pending, NEW k \in DOMAIN refreshes, refreshes'[k].newest
                 PROVE  /\ refreshes'[k].tunnels # Sidebar!Unread =>
                             refreshes'[k].tunnels[1] \ behind' = tunnels \ behind'
                        /\ refreshes'[k].result # Sidebar!Unread =>
                             refreshes'[k].result[1] = stored
      BY <2>3, <2>6 DEF ReadIsStored, SameButBehind
    <3>1. CASE k = i
      <4>1. refreshes'[k] = r
        BY <2>3, <3>1
      <4>2. refreshes[i].newest
        BY <2>1, <4>1
      <4>3. r.result # Sidebar!Unread => r.result[1] = stored
        BY <2>1, <4>2, <2>6 DEF ReadIsStored
      <4> QED
        BY <4>1, <4>3, <2>t
    <3>2. CASE k # i
      <4>1. refreshes'[k] = refreshes[k]
        BY <2>3, <3>2
      <4>2. ~refreshes[i].newest
        BY <3>2, <4>1 DEF OneNewest
      <4>3. behind' = behind
        BY <4>2
      <4> QED
        BY <4>1, <4>3 DEF ReadIsStored, SameButBehind
    <3> QED
      BY <3>1, <3>2
  <2>8. ShownIsStored'
    <3> SUFFICES ASSUME ~Pending, ~failed, \A k \in DOMAIN refreshes : ~refreshes'[k].newest
                 PROVE  /\ sessions.profiles = stored
                        /\ sessions.tunnels \ behind' = (tunnels \cap DOMAIN stored) \ behind'
      BY <2>3, <2>6 DEF ShownIsStored, Sidebar!shown, SameButBehind
    <3>1. ~refreshes[i].newest
      BY <2>1, <2>3
    <3>2. \A k \in DOMAIN refreshes : ~refreshes[k].newest
      BY <2>3, <3>1
    <3>3. behind' = behind
      BY <3>1
    <3> QED
      BY <3>2, <3>3 DEF ShownIsStored, SameButBehind, Sidebar!shown
  <2> QED
    BY <2>4, <2>5, <2>7, <2>8 DEF RowsAreShown, Sidebar!shown
<1>2. CASE Sidebar!ReadProfiles(i)
  <2> USE <1>2 DEF Sidebar!ReadProfiles
  <2> DEFINE r == [refreshes[i] EXCEPT !.result = <<stored>>]
  <2>1. /\ r \in Refreshes /\ r.tunnels = refreshes[i].tunnels /\ r.newest = refreshes[i].newest
        /\ r.result = <<stored>>
    BY <1>0 DEF Refreshes, SidebarTypes
  <2>2. refreshes' = [refreshes EXCEPT ![i] = r]
    OBVIOUS
  <2>t. r.result[1] = stored /\ r.tunnels # Sidebar!Unread
    BY <2>1
  <2> HIDE DEF r
  <2>3. /\ refreshes' \in Seq(Refreshes) /\ Len(refreshes') = Len(refreshes)
        /\ DOMAIN refreshes' = DOMAIN refreshes
        /\ \A k \in DOMAIN refreshes : refreshes'[k] = IF k = i THEN r ELSE refreshes[k]
    BY <1>0, <2>1, <2>2, RefreshReads
  <2>4. SidebarTypes'
    BY <2>3 DEF SidebarTypes, Sidebar!shown
  <2>5. OneNewest'
    BY <2>1, <2>3, <2>t DEF OneNewest
  <2>6. Pending' <=> Pending
    BY DEF Pending
  <2>7. ReadIsStored'
    <3> SUFFICES ASSUME ~Pending, NEW k \in DOMAIN refreshes, refreshes'[k].newest
                 PROVE  /\ refreshes'[k].tunnels # Sidebar!Unread =>
                             SameButBehind(refreshes'[k].tunnels[1], tunnels)
                        /\ refreshes'[k].result # Sidebar!Unread =>
                             refreshes'[k].result[1] = stored
      BY <2>3, <2>6 DEF ReadIsStored, SameButBehind
    <3>1. /\ refreshes[k].newest /\ refreshes'[k].tunnels = refreshes[k].tunnels
          /\ k # i => refreshes'[k] = refreshes[k]
          /\ k = i => refreshes'[k] = r
      BY <2>1, <2>3
    <3> HIDE <1>2
    <3> QED
      BY <3>1, <2>t, <2>6 DEF ReadIsStored
  <2>8. ShownIsStored'
    <3>1. (\A k \in DOMAIN refreshes' : ~refreshes'[k].newest) =>
            (\A k \in DOMAIN refreshes : ~refreshes[k].newest)
      BY <2>1, <2>3
    <3> QED
      BY <3>1, <2>6 DEF ShownIsStored, SameButBehind, Sidebar!shown
  <2> QED
    BY <2>4, <2>5, <2>7, <2>8 DEF RowsAreShown, Sidebar!shown
<1> QED
  BY <1>1, <1>2

\* Of the refreshes that are left when one ends each was there before.
LEMMA OneEnds ==
  ASSUME SidebarInv, NEW i \in DOMAIN refreshes, refreshes' = Sidebar!Ended(i)
  PROVE  /\ refreshes' \in Seq(Refreshes) /\ Len(refreshes') <= Len(refreshes)
         /\ Len(refreshes') \in Nat /\ Len(refreshes) \in Nat
         /\ \A k \in DOMAIN refreshes' :
              \E m \in DOMAIN refreshes :
                /\ refreshes'[k] = refreshes[m]
                /\ (m = k /\ k < i) \/ (m = k + 1 /\ k >= i)
         /\ \A k \in DOMAIN refreshes : k # i => \E m \in DOMAIN refreshes' :
              refreshes'[m] = refreshes[k]
<1>1. refreshes \in Seq(Refreshes) /\ i \in 1..Len(refreshes) /\ Len(refreshes) \in Nat
      /\ DOMAIN refreshes = 1..Len(refreshes)
  BY LenProperties DEF SidebarInv, SidebarTypes
<1>2. /\ refreshes' \in Seq(Refreshes) /\ Len(refreshes') = Len(refreshes) - 1
      /\ \A k \in 1..(Len(refreshes) - 1) :
           refreshes'[k] = IF k < i THEN refreshes[k] ELSE refreshes[k + 1]
  BY <1>1, EndedIs
<1>3. DOMAIN refreshes' = 1..(Len(refreshes) - 1)
  BY <1>2, LenProperties
<1>4. ASSUME NEW k \in DOMAIN refreshes, k # i
      PROVE  \E m \in DOMAIN refreshes' : refreshes'[m] = refreshes[k]
  <2>0. k \in Nat /\ i \in Nat
    BY <1>1
  <2>1. CASE k < i
    <3>1. k \in DOMAIN refreshes'
      BY <1>1, <1>3, <2>1
    <3> QED
      BY <1>2, <1>3, <2>1, <3>1
  <2>2. CASE ~(k < i)
    <3>1. k - 1 \in DOMAIN refreshes' /\ ~(k - 1 < i) /\ (k - 1) + 1 = k
      BY <1>1, <1>3, <1>4, <2>2
    <3> QED
      BY <1>2, <1>3, <3>1
  <2> QED
    BY <2>1, <2>2
<1>5. ASSUME NEW k \in DOMAIN refreshes'
      PROVE  \E m \in DOMAIN refreshes : /\ refreshes'[k] = refreshes[m]
                                         /\ (m = k /\ k < i) \/ (m = k + 1 /\ k >= i)
  <2>1. k \in 1..(Len(refreshes) - 1)
    BY <1>3
  <2>2. k \in DOMAIN refreshes /\ k + 1 \in DOMAIN refreshes /\ (k < i \/ k >= i)
    BY <1>1, <2>1
  <2>3. refreshes'[k] = IF k < i THEN refreshes[k] ELSE refreshes[k + 1]
    BY <1>2, <2>1
  <2>4. k >= i => ~(k < i)
    BY <1>1, <2>1
  <2> QED
    BY <2>2, <2>3, <2>4
<1>6. Len(refreshes') <= Len(refreshes) /\ Len(refreshes') \in Nat
  BY <1>1, <1>2
<1> QED
  BY <1>1, <1>2, <1>4, <1>5, <1>6

LEMMA OneEndsTypes ==
  ASSUME SidebarInv, NEW i \in DOMAIN refreshes, refreshes' = Sidebar!Ended(i),
         UNCHANGED <<stored, tunnels, menu, query, tasks, behind>>,
         sessions' \in [profiles : Stores, tunnels : SUBSET Profiles], failed' \in BOOLEAN
  PROVE  SidebarTypes' /\ OneNewest' /\ (Pending' <=> Pending)
<1> USE OneEnds
<1>1. Cardinality(tasks') + Len(refreshes') <= MaxWork
  <2>1. Cardinality(tasks') = Cardinality(tasks) /\ Cardinality(tasks) \in Nat
    BY FS_CardinalityType DEF SidebarInv, SidebarTypes
  <2>2. MaxWork \in Nat /\ Cardinality(tasks) + Len(refreshes) <= MaxWork
    BY SidebarAssumption DEF SidebarInv, SidebarTypes
  <2>3. Len(refreshes') <= Len(refreshes) /\ Len(refreshes') \in Nat /\ Len(refreshes) \in Nat
    OBVIOUS
  <2> HIDE OneEnds
  <2> QED
    BY <2>1, <2>2, <2>3
<1>2. SidebarTypes'
  BY <1>1 DEF SidebarInv, SidebarTypes
<1>3. OneNewest'
  <2>1. ASSUME NEW j \in DOMAIN refreshes', NEW k \in DOMAIN refreshes',
               refreshes'[j].newest, refreshes'[k].newest
        PROVE  j = k
    <3>1. PICK m \in DOMAIN refreshes :
            refreshes'[j] = refreshes[m] /\ ((m = j /\ j < i) \/ (m = j + 1 /\ j >= i))
      OBVIOUS
    <3>2. PICK n \in DOMAIN refreshes :
            refreshes'[k] = refreshes[n] /\ ((n = k /\ k < i) \/ (n = k + 1 /\ k >= i))
      OBVIOUS
    <3>3. m = n
      BY <2>1, <3>1, <3>2 DEF SidebarInv, OneNewest
    <3>4. j \in Nat /\ k \in Nat /\ i \in Nat
      BY LenProperties DEF SidebarInv, SidebarTypes
    <3> HIDE OneEnds
    <3> QED
      BY <3>1, <3>2, <3>3, <3>4
  <2>2. ASSUME NEW k \in DOMAIN refreshes', refreshes'[k].result # Sidebar!Unread
        PROVE  refreshes'[k].tunnels # Sidebar!Unread
    BY <2>2 DEF SidebarInv, OneNewest
  <2> QED
    BY <2>1, <2>2 DEF OneNewest
<1>4. Pending' <=> Pending
  BY DEF Pending
<1> QED
  BY <1>2, <1>3, <1>4

LEMMA SidebarEnds ==
  ASSUME SidebarInv, NEW i \in DOMAIN refreshes,
         Sidebar!Superseded(i) \/ Sidebar!RefreshFails(i)
  PROVE  SidebarInv'
<1>1. /\ refreshes' = Sidebar!Ended(i)
      /\ UNCHANGED <<stored, tunnels, sessions, listed, menu, query, tasks, behind>>
      /\ failed' \in BOOLEAN /\ (failed => failed') /\ (refreshes[i].newest => failed')
  BY DEF Sidebar!Superseded, Sidebar!RefreshFails, Sidebar!Newest, Sidebar!shown, SidebarInv,
         SidebarTypes
<1>2. SidebarTypes' /\ OneNewest' /\ (Pending' <=> Pending)
  BY <1>1, OneEndsTypes DEF SidebarInv, SidebarTypes
<1>3. \A k \in DOMAIN refreshes' : \E m \in DOMAIN refreshes : refreshes'[k] = refreshes[m]
  BY <1>1, OneEnds
<1>4. ReadIsStored'
  BY <1>1, <1>2, <1>3 DEF SidebarInv, ReadIsStored, SameButBehind
<1>5. ShownIsStored'
  <2>1. \A k \in DOMAIN refreshes : k # i => \E m \in DOMAIN refreshes' :
              refreshes'[m] = refreshes[k]
    BY <1>1, OneEnds
  <2> QED
    BY <1>1, <1>2, <2>1 DEF SidebarInv, ShownIsStored, SameButBehind
<1> QED
  BY <1>1, <1>2, <1>4, <1>5 DEF SidebarInv, RowsAreShown

LEMMA SidebarApplied ==
  ASSUME SidebarInv, NEW i \in DOMAIN refreshes, Sidebar!Applied(i)
  PROVE  SidebarInv'
<1> DEFINE profiles == refreshes[i].result[1]
           open == refreshes[i].tunnels[1] \cap DOMAIN profiles
           now == [profiles |-> profiles, tunnels |-> open]
<1>0. refreshes[i] \in Refreshes
  BY ElementOfSeq, LenProperties DEF SidebarInv, SidebarTypes
<1>1. /\ refreshes' = Sidebar!Ended(i) /\ sessions' = now /\ listed' = DOMAIN now.profiles \cap query
      /\ failed' = FALSE /\ UNCHANGED <<stored, tunnels, menu, query, tasks, behind>>
      /\ refreshes[i].result # Sidebar!Unread /\ refreshes[i].newest
  BY DEF Sidebar!Applied, Sidebar!Newest, Sidebar!Matches
<1>2. refreshes[i].tunnels # Sidebar!Unread
  BY <1>1 DEF SidebarInv, OneNewest
<1>3. profiles \in Stores /\ refreshes[i].tunnels[1] \subseteq Profiles
  BY <1>0, <1>1, <1>2 DEF Refreshes
<1>4. /\ now \in [profiles : Stores, tunnels : SUBSET Profiles]
      /\ now.profiles = profiles /\ now.tunnels = open
  <2>1. open \subseteq Profiles
    BY <1>3
  <2> HIDE DEF open, profiles
  <2> QED
    BY <1>3, <2>1
<1>5. SidebarTypes' /\ OneNewest' /\ (Pending' <=> Pending)
  <2> HIDE DEF now
  <2> QED
    BY <1>1, <1>4, OneEndsTypes
<1>6. \A k \in DOMAIN refreshes' : \E m \in DOMAIN refreshes : refreshes'[k] = refreshes[m]
  BY <1>1, OneEnds
<1>7. ReadIsStored'
  BY <1>1, <1>5, <1>6 DEF SidebarInv, ReadIsStored, SameButBehind
<1>8. ShownIsStored'
  <2> SUFFICES ASSUME ~Pending
               PROVE  sessions'.profiles = stored
                      /\ SameButBehind(sessions'.tunnels, tunnels \cap DOMAIN stored)
    BY <1>1, <1>5 DEF ShownIsStored, SameButBehind
  <2>1. profiles = stored /\ SameButBehind(refreshes[i].tunnels[1], tunnels)
    BY <1>1, <1>2 DEF SidebarInv, ReadIsStored
  <2>2. SameButBehind(open, tunnels \cap DOMAIN stored)
    BY <2>1 DEF SameButBehind
  <2> HIDE DEF open, profiles
  <2> QED
    BY <1>1, <1>4, <2>1, <2>2
<1>9. RowsAreShown'
  <2> HIDE DEF now
  <2> QED
    BY <1>1 DEF RowsAreShown
<1> QED
  BY <1>5, <1>7, <1>8, <1>9 DEF SidebarInv

LEMMA SidebarKept == SidebarInv /\ [Sidebar!Next]_sidebarState => SidebarInv'
<1> SUFFICES ASSUME SidebarInv, [Sidebar!Next]_sidebarState PROVE SidebarInv'
  OBVIOUS
<1>0. DOMAIN stored \subseteq Profiles /\ DOMAIN sessions.profiles \subseteq Profiles
  BY StoresAre DEF SidebarInv, SidebarTypes
<1>1. ASSUME NEW p \in Profiles, Sidebar!Submit(p) PROVE SidebarInv'
  BY <1>1, SidebarAsked DEF Sidebar!Submit
<1>2. ASSUME NEW p \in Profiles, Sidebar!OpenMenu(p) PROVE SidebarInv'
  <2> USE <1>2 DEF Sidebar!OpenMenu
  <2>1. menu' \in Profiles \X {"open", "close"}
    OBVIOUS
  <2>2. SidebarTypes' /\ (Pending => Pending')
    BY <2>1 DEF SidebarInv, SidebarTypes, Pending
  <2> QED
    BY <2>2, NothingRead DEF SidebarInv, RowsAreShown
<1>3. ASSUME NEW p \in Profiles, Sidebar!TunnelChanges(p) PROVE SidebarInv'
  <2> USE <1>3 DEF Sidebar!TunnelChanges, Sidebar!shown
  <2>1. SidebarTypes' /\ (Pending' <=> Pending)
    BY DEF SidebarInv, SidebarTypes, Pending
  <2>2. behind' = behind \cup {p} /\ (tunnels' = tunnels \ {p} \/ tunnels' = tunnels \cup {p})
    OBVIOUS
  <2>3. \A some : SameButBehind(some, tunnels) => SameButBehind(some, tunnels)'
    BY <2>2 DEF SameButBehind
  <2>4. \A some : SameButBehind(some, tunnels \cap DOMAIN stored) =>
                    SameButBehind(some, tunnels \cap DOMAIN stored)'
    BY <2>2 DEF SameButBehind
  <2>5. ReadIsStored'
    BY <2>1, <2>3 DEF SidebarInv, ReadIsStored, SameButBehind
  <2>6. ShownIsStored'
    BY <2>1, <2>4 DEF SidebarInv, ShownIsStored, SameButBehind
  <2> QED
    BY <2>1, <2>5, <2>6 DEF SidebarInv, OneNewest, RowsAreShown
<1>4. CASE Sidebar!DeleteSession \/ Sidebar!SetTunnel
  <2>1. menu \in Profiles \X {"open", "close"} /\ menu' = Sidebar!Unread
    BY <1>4 DEF SidebarInv, SidebarTypes, Sidebar!DeleteSession, Sidebar!SetTunnel
  <2>2. menu[1] \in Profiles /\ menu[2] \in {"open", "close"}
    BY <2>1
  <2> QED
    BY <1>4, <2>1, <2>2, SidebarAsked DEF Sidebar!DeleteSession, Sidebar!SetTunnel
<1>5. CASE Sidebar!NotFound
  <2> USE <1>5 DEF Sidebar!NotFound
  <2>1. SidebarTypes' /\ (Pending => Pending') /\ (failed => failed')
    BY DEF SidebarInv, SidebarTypes, Pending
  <2> QED
    BY <2>1, NothingRead DEF SidebarInv, RowsAreShown
<1>6. ASSUME NEW text \in Queries, Sidebar!Search(text) PROVE SidebarInv'
  <2> USE <1>6 DEF Sidebar!Search
  <2>1. SidebarTypes' /\ (Pending => Pending')
    BY DEF SidebarInv, SidebarTypes, Pending
  <2> QED
    BY <2>1, NothingRead DEF SidebarInv, RowsAreShown
<1>7. CASE UNCHANGED sidebarState
  BY <1>7 DEF sidebarState, SidebarInv, SidebarTypes, OneNewest, ReadIsStored, ShownIsStored,
     SameButBehind, RowsAreShown, Pending
<1> QED
  BY <1>1, <1>2, <1>3, <1>4, <1>5, <1>6, <1>7, SidebarDone, SidebarAnswered, SidebarReads,
     SidebarEnds, SidebarApplied DEF Sidebar!Next

LEMMA SidebarGoal == SidebarInv => Sidebar!TypeOK /\ Sidebar!SidebarShowsTheProfiles
<1> SUFFICES ASSUME SidebarInv PROVE Sidebar!TypeOK /\ Sidebar!SidebarShowsTheProfiles
  OBVIOUS
<1>1. Sidebar!TypeOK
  <2>1. DOMAIN stored \subseteq Profiles /\ DOMAIN sessions.profiles \subseteq Profiles
    BY StoresAre DEF SidebarInv, SidebarTypes
  <2>2. Sidebar!Cardinality(tasks) = Cardinality(tasks)
    BY DEF Sidebar!Cardinality, Cardinality
  <2> QED
    BY <2>1, <2>2 DEF SidebarInv, SidebarTypes, Sidebar!TypeOK
<1>2. Sidebar!SidebarShowsTheProfiles
  <2>1. tasks = {} => ~Pending
    BY DEF Pending
  <2> QED
    BY <2>1 DEF SidebarInv, ShownIsStored, SameButBehind, RowsAreShown,
       Sidebar!SidebarShowsTheProfiles
<1> QED
  BY <1>1, <1>2

LEMMA SidebarHolds == Spec => []SidebarInv
<1>1. Init => SidebarInv
  BY SidebarStarts DEF Init
<1>2. SidebarInv /\ [Next]_all => SidebarInv'
  BY SidebarKept, PartSteps
<1> QED
  BY <1>1, <1>2, PTL DEF Spec
-----------------------------------------------------------------------------
(* WorkspaceTabs                                                           *)

Apart(s) == \A i, j \in DOMAIN s : s[i] = s[j] => i = j
BarTypes ==
  /\ context \in Bar!Content /\ view \in Bar!Content /\ snapshot \in Bar!Content
  /\ changed \in BOOLEAN /\ phase \in {"idle", "seen", "read"}
  /\ items \in Seq(Tabs) /\ issued \subseteq Tabs /\ drag \in Tabs \cup {NoTab}
  /\ drawn \in Seq(Tabs) /\ selects \in Seq(Tabs) /\ closes \subseteq Tabs
\* Workspaces are numbered in the order of opening.
BarNumbered == IsFiniteSet(issued) /\ issued = 1..Cardinality(issued)
\* No workspace is in a list twice.
TabsApart ==
  /\ Apart(context.open) /\ Apart(view.open) /\ Apart(snapshot.open) /\ Apart(items)
  /\ Bar!Elements(context.open) \subseteq issued
\* There is a tab for each session of the view.
TabsOfTheView == Bar!Elements(items) = Bar!Elements(view.open)
\* Without news the window has, or is about to have, what the context holds.
BarFollows ==
  ~changed => /\ phase = "idle" => view = context
              /\ phase = "read" => snapshot = context

BarInv == BarTypes /\ BarNumbered /\ TabsApart /\ TabsOfTheView /\ BarFollows


LEMMA IndexIs ==
  ASSUME NEW s \in Seq(Tabs), Apart(s), NEW t \in Bar!Elements(s)
  PROVE  /\ Bar!Index(s, t) \in 1..Len(s) /\ s[Bar!Index(s, t)] = t /\ Len(s) \in Nat
         /\ \A k \in 1..Len(s) : s[k] = t => k = Bar!Index(s, t)
<1>1. DOMAIN s = 1..Len(s) /\ Len(s) \in Nat
  BY LenProperties
<1>2. \E i \in DOMAIN s : s[i] = t
  BY DEF Bar!Elements
<1>3. Bar!Index(s, t) \in DOMAIN s /\ s[Bar!Index(s, t)] = t
  BY <1>2 DEF Bar!Index
<1> QED
  BY <1>1, <1>3 DEF Apart

\* A list without one of its tabs.
LEMMA WithoutIs ==
  ASSUME NEW s \in Seq(Tabs), Apart(s), NEW t \in Bar!Elements(s)
  PROVE  /\ Bar!Without(s, t) \in Seq(Tabs) /\ Apart(Bar!Without(s, t))
         /\ Bar!Elements(Bar!Without(s, t)) = Bar!Elements(s) \ {t}
<1> DEFINE i == Bar!Index(s, t)  r == Bar!Without(s, t)
<1>1. /\ i \in 1..Len(s) /\ s[i] = t /\ Len(s) \in Nat /\ DOMAIN s = 1..Len(s)
      /\ \A k \in 1..Len(s) : s[k] = t => k = i
  BY IndexIs, LenProperties
<1>2. r = RemoveAt(s, i)
  BY DEF Bar!Without, Bar!RemoveAt, RemoveAt
<1> HIDE DEF i, r
<1>3. /\ r \in Seq(Tabs) /\ Len(r) = Len(s) - 1
      /\ \A k \in 1..(Len(s) - 1) : r[k] = IF k < i THEN s[k] ELSE s[k + 1]
  BY <1>1, <1>2, RemovedIs
<1>4. DOMAIN r = 1..(Len(s) - 1)
  BY <1>3, LenProperties
<1>5. \A k \in 1..(Len(s) - 1) : k \in 1..Len(s) /\ k + 1 \in 1..Len(s)
  BY <1>1
<1>6. Apart(r)
  <2> SUFFICES ASSUME NEW j \in 1..(Len(s) - 1), NEW k \in 1..(Len(s) - 1), r[j] = r[k]
               PROVE  j = k
    BY <1>4 DEF Apart
  <2>1. \A m, n \in 1..Len(s) : s[m] = s[n] => m = n
    BY <1>1 DEF Apart
  <2>2. \A m, n \in 1..Len(s) : m # n => s[m] # s[n]
    BY <2>1
  <2> QED
    BY <1>1, <1>3, <1>5, <2>1
<1>7. ASSUME NEW x PROVE x \in Bar!Elements(r) <=> x \in Bar!Elements(s) \ {t}
  <2>1. ASSUME NEW k \in 1..(Len(s) - 1), x = r[k] PROVE x \in Bar!Elements(s) \ {t}
    <3>1. \E m \in 1..Len(s) : m # i /\ r[k] = s[m]
      <4>1. CASE k < i
        BY <1>1, <1>3, <1>5, <4>1
      <4>2. CASE ~(k < i)
        <5>1. k + 1 # i /\ r[k] = s[k + 1]
          BY <1>1, <1>3, <4>2
        <5> QED
          BY <1>5, <5>1
      <4> QED
        BY <4>1, <4>2
    <3> QED
      BY <1>1, <2>1, <3>1 DEF Bar!Elements
  <2>2. ASSUME NEW m \in 1..Len(s), x = s[m], x # t PROVE \E k \in 1..(Len(s) - 1) : x = r[k]
    <3>1. m # i
      BY <1>1, <2>2
    <3>2. CASE m < i
      <4>1. m \in 1..(Len(s) - 1)
        BY <1>1, <3>2
      <4> QED
        BY <1>3, <2>2, <3>2, <4>1
    <3>3. CASE ~(m < i)
      <4>1. m - 1 \in 1..(Len(s) - 1) /\ ~(m - 1 < i) /\ (m - 1) + 1 = m
        BY <1>1, <3>1, <3>3
      <4> QED
        BY <1>3, <2>2, <4>1
    <3> QED
      BY <3>2, <3>3
  <2> QED
    BY <1>1, <1>4, <2>1, <2>2 DEF Bar!Elements
<1>8. Bar!Elements(r) = Bar!Elements(s) \ {t}
  BY <1>7
<1> QED
  BY <1>3, <1>6, <1>8 DEF r

\* A tab that is dragged along the list: those between its places make way by one.
LEMMA MovedIs ==
  ASSUME NEW s \in Seq(Tabs), NEW from \in 1..Len(s), NEW to \in 1..Len(s)
  PROVE  LET m == Bar!Moved(s, from, to)
         IN /\ m \in Seq(Tabs) /\ Len(m) = Len(s) /\ m[to] = s[from]
            /\ \A k \in 1..Len(s) : k # to =>
                 m[k] = s[IF k \in from..(to - 1) THEN k + 1
                          ELSE IF k \in (to + 1)..from THEN k - 1 ELSE k]
            /\ RemoveAt(m, to) = RemoveAt(s, from)
<1> DEFINE r == RemoveAt(s, from)  m == Bar!Moved(s, from, to)
<1>0. Len(s) \in Nat /\ s[from] \in Tabs
  BY LenProperties, ElementOfSeq
<1>1. /\ r \in Seq(Tabs) /\ Len(r) = Len(s) - 1
      /\ \A k \in 1..(Len(s) - 1) : r[k] = IF k < from THEN s[k] ELSE s[k + 1]
  BY RemovedIs
<1>2. m = InsertAt(r, to, s[from])
  BY DEF Bar!Moved, Bar!RemoveAt, RemoveAt, Bar!InsertAt, InsertAt
<1> HIDE DEF r, m
<1>3. /\ m \in Seq(Tabs) /\ Len(m) = Len(s)
      /\ \A k \in 1..Len(s) : m[k] = IF k < to THEN r[k] ELSE IF k = to THEN s[from] ELSE r[k - 1]
  <2>1. to \in 1..(Len(r) + 1) /\ Len(r) + 1 = Len(s)
    BY <1>0, <1>1
  <2>2. /\ m \in Seq(Tabs) /\ Len(m) = Len(r) + 1
        /\ \A k \in 1..(Len(r) + 1) :
             m[k] = IF k < to THEN r[k] ELSE IF k = to THEN s[from] ELSE r[k - 1]
    <3> DEFINE x == s[from]
    <3>1. x \in Tabs /\ m = InsertAt(r, to, x)
      BY <1>0, <1>2
    <3>0. r \in Seq(Tabs)
      BY <1>1
    <3> HIDE DEF x
    <3> DEFINE n == InsertAt(r, to, x)
    <3>3. /\ n \in Seq(Tabs) /\ Len(n) = Len(r) + 1
          /\ \A k \in 1..(Len(r) + 1) :
               n[k] = IF k < to THEN r[k] ELSE IF k = to THEN x ELSE r[k - 1]
      <4>1. \A q \in Seq(Tabs), y \in Tabs : \A i \in 1..(Len(q) + 1) :
              LET w == InsertAt(q, i, y)
              IN /\ w \in Seq(Tabs) /\ Len(w) = Len(q) + 1
                 /\ \A k \in 1..(Len(q) + 1) :
                      w[k] = IF k < i THEN q[k] ELSE IF k = i THEN y ELSE q[k - 1]
        BY InsertedIs
      <4> QED
        BY <2>1, <3>0, <3>1, <4>1
    <3> HIDE DEF n
    <3>2. /\ m \in Seq(Tabs) /\ Len(m) = Len(r) + 1
          /\ \A k \in 1..(Len(r) + 1) :
               m[k] = IF k < to THEN r[k] ELSE IF k = to THEN x ELSE r[k - 1]
      BY <3>1, <3>3 DEF n
    <3> QED
      BY <3>2 DEF x
  <2> QED
    BY <2>1, <2>2
<1>4. m[to] = s[from]
  BY <1>0, <1>3
<1>5. ASSUME NEW k \in 1..Len(s), k # to
      PROVE  m[k] = s[IF k \in from..(to - 1) THEN k + 1
                      ELSE IF k \in (to + 1)..from THEN k - 1 ELSE k]
  <2>1. CASE k < to
    <3>1. k \in 1..(Len(s) - 1) /\ m[k] = r[k] /\ k \notin (to + 1)..from
      BY <1>0, <1>3, <2>1
    <3>2. k \in from..(to - 1) <=> ~(k < from)
      BY <1>0, <2>1
    <3> QED
      BY <1>1, <3>1, <3>2
  <2>2. CASE k > to
    <3>1. /\ k - 1 \in 1..(Len(s) - 1) /\ m[k] = r[k - 1] /\ k \notin from..(to - 1)
          /\ (k - 1) + 1 = k
      BY <1>0, <1>3, <2>2
    <3>2. k \in (to + 1)..from <=> k - 1 < from
      BY <1>0, <2>2
    <3> QED
      BY <1>1, <3>1, <3>2
  <2> QED
    BY <1>0, <1>5, <2>1, <2>2
<1>6. RemoveAt(m, to) = r
  <2> DEFINE q == RemoveAt(m, to)
  <2>1. /\ q \in Seq(Tabs) /\ Len(q) = Len(s) - 1
        /\ \A k \in 1..(Len(s) - 1) : q[k] = IF k < to THEN m[k] ELSE m[k + 1]
    <3>1. m \in Seq(Tabs) /\ Len(m) = Len(s) /\ to \in 1..Len(m)
      BY <1>3
    <3>2. /\ q \in Seq(Tabs) /\ Len(q) = Len(m) - 1
          /\ \A k \in 1..(Len(m) - 1) : q[k] = IF k < to THEN m[k] ELSE m[k + 1]
      <4>1. m \in Seq(Tabs) /\ to \in 1..Len(m)
        BY <3>1
      <4> QED
        BY <4>1, RemovedIs
    <3> HIDE DEF q
    <3> QED
      BY <3>1, <3>2
  <2> HIDE DEF q
  <2>2. ASSUME NEW k \in 1..(Len(s) - 1) PROVE q[k] = r[k]
    <3>1. k \in 1..Len(s) /\ k + 1 \in 1..Len(s) /\ (k + 1) - 1 = k
      BY <1>0
    <3>2. CASE k < to
      BY <1>3, <2>1, <3>1, <3>2
    <3>3. CASE ~(k < to)
      <4>1. ~(k + 1 < to) /\ k + 1 # to
        BY <3>3
      <4> QED
        BY <1>3, <2>1, <3>1, <3>3, <4>1
    <3> QED
      BY <3>2, <3>3
  <2>3. q = r
    BY <1>1, <2>1, <2>2, SeqEqual
  <2> QED
    BY <2>3 DEF q
<1> QED
  BY <1>3, <1>4, <1>5, <1>6 DEF r, m

\* Nothing is lost on the way, and nothing comes twice.
LEMMA MovedHasTheSame ==
  ASSUME NEW s \in Seq(Tabs), Apart(s), NEW from \in 1..Len(s), NEW to \in 1..Len(s)
  PROVE  LET m == Bar!Moved(s, from, to)
         IN Apart(m) /\ Bar!Elements(m) = Bar!Elements(s)
<1> DEFINE m == Bar!Moved(s, from, to)
           at(k) == IF k = to THEN from ELSE IF k \in from..(to - 1) THEN k + 1
                    ELSE IF k \in (to + 1)..from THEN k - 1 ELSE k
<1>0. Len(s) \in Nat /\ DOMAIN s = 1..Len(s)
  BY LenProperties
<1>1. m \in Seq(Tabs) /\ Len(m) = Len(s) /\ \A k \in 1..Len(s) : m[k] = s[at(k)]
  BY MovedIs
<1>2. DOMAIN m = 1..Len(s)
  BY <1>1, LenProperties
<1>3. \A k \in 1..Len(s) : at(k) \in 1..Len(s)
  BY <1>0
<1>4. \A j, k \in 1..Len(s) : at(j) = at(k) => j = k
  BY <1>0
<1>5. \A j \in 1..Len(s) : \E k \in 1..Len(s) : at(k) = j
  <2> SUFFICES ASSUME NEW j \in 1..Len(s) PROVE \E k \in 1..Len(s) : at(k) = j
    OBVIOUS
  <2>1. CASE j = from
    BY <2>1
  <2>2. CASE j > from /\ j <= to
    <3>1. j - 1 \in 1..Len(s) /\ at(j - 1) = j
      BY <1>0, <2>2
    <3> QED
      BY <3>1
  <2>3. CASE j < from /\ j >= to
    <3>1. j + 1 \in 1..Len(s) /\ at(j + 1) = j
      BY <1>0, <2>3
    <3> QED
      BY <3>1
  <2>4. CASE j # from /\ ~(j > from /\ j <= to) /\ ~(j < from /\ j >= to)
    <3>1. at(j) = j
      BY <1>0, <2>4
    <3> QED
      BY <3>1
  <2> QED
    BY <2>1, <2>2, <2>3, <2>4
<1> HIDE DEF m, at
<1>6. Apart(m)
  BY <1>0, <1>1, <1>2, <1>3, <1>4 DEF Apart
<1>7. ASSUME NEW x PROVE x \in Bar!Elements(m) <=> x \in Bar!Elements(s)
  <2>1. x \in Bar!Elements(m) => x \in Bar!Elements(s)
    BY <1>0, <1>1, <1>2, <1>3 DEF Bar!Elements
  <2>2. ASSUME NEW j \in 1..Len(s), x = s[j] PROVE x \in Bar!Elements(m)
    <3>1. PICK k \in 1..Len(s) : at(k) = j
      BY <1>5
    <3>2. m[k] = x
      BY <1>1, <2>2, <3>1
    <3> QED
      BY <1>2, <3>2 DEF Bar!Elements
  <2> QED
    BY <1>0, <2>1, <2>2 DEF Bar!Elements
<1>8. Bar!Elements(m) = Bar!Elements(s)
  BY <1>7
<1> QED
  BY <1>6, <1>8 DEF m

\* Of tabs none of which is there twice there are as many as the list is long.
LEMMA AsManyAsTabs ==
  ASSUME NEW s \in Seq(Tabs), Apart(s)
  PROVE  Cardinality(Bar!Elements(s)) = Len(s)
<1>1. Len(s) \in Nat /\ DOMAIN s = 1..Len(s)
  BY LenProperties
<1>2. s \in [1..Len(s) -> Bar!Elements(s)]
  <2>1. s = [i \in 1..Len(s) |-> s[i]]
    BY <1>1
  <2>2. \A i \in 1..Len(s) : s[i] \in Bar!Elements(s)
    BY <1>1 DEF Bar!Elements
  <2> QED
    BY <2>1, <2>2
<1>3. \A a, b \in 1..Len(s) : s[a] = s[b] => a = b
  BY <1>1 DEF Apart
<1>4. \A t \in Bar!Elements(s) : \E k \in 1..Len(s) : s[k] = t
  BY <1>1 DEF Bar!Elements
<1>5. s \in Bijection(1..Len(s), Bar!Elements(s))
  BY <1>1, <1>2, <1>3, <1>4 DEF Bijection, Injection, Surjection, IsInjective
<1>6. ExistsBijection(1..Len(s), Bar!Elements(s))
  BY <1>5 DEF ExistsBijection
<1> QED
  BY <1>1, <1>6, FS_CountingElements

LEMMA BarStarts == Bar!Init => BarInv
<1> SUFFICES ASSUME Bar!Init PROVE BarInv
  OBVIOUS
<1>1. Bar!Nothing \in Bar!Content /\ Bar!Nothing.open = <<>>
  BY DEF Bar!Nothing, Bar!Content
<1>2. <<>> \in Seq(Tabs) /\ Apart(<<>>) /\ Bar!Elements(<<>>) = {}
  BY DEF Apart, Bar!Elements
<1>3. BarTypes
  BY <1>1, <1>2 DEF BarTypes, Bar!Init
<1>4. BarNumbered
  <2>1. IsFiniteSet(issued) /\ Cardinality(issued) = 0 /\ issued = {}
    BY FS_EmptySet DEF Bar!Init
  <2> QED
    BY <2>1 DEF BarNumbered
<1> QED
  BY <1>1, <1>2, <1>3, <1>4 DEF BarInv, TabsApart, TabsOfTheView, BarFollows, Bar!Init

\* A change of the data context is told to the window.
LEMMA ContextChanges ==
  ASSUME BarInv, context' \in Bar!Content, changed' = TRUE, Apart(context'.open),
         Bar!Elements(context'.open) \subseteq issued',
         UNCHANGED <<phase, snapshot, view, items, drag, transition, drawn>>,
         BarNumbered', issued' \subseteq Tabs,
         selects' \in Seq(Tabs), closes' \subseteq Tabs
  PROVE  BarInv'
BY DEF BarInv, BarTypes, TabsApart, TabsOfTheView, BarFollows

LEMMA BarOpens ==
  ASSUME BarInv, NEW t \in Tabs, Bar!OpenWorkspace(t)
  PROVE  BarInv'
<1> USE DEF Bar!OpenWorkspace, Bar!window
<1>0. /\ context \in Bar!Content /\ context.open \in Seq(Tabs) /\ Apart(context.open)
      /\ Bar!Elements(context.open) \subseteq issued
  BY DEF BarInv, BarTypes, TabsApart, Bar!Content
<1>1. /\ IsFiniteSet(issued) /\ Cardinality(issued) \in Nat /\ issued = 1..Cardinality(issued)
      /\ t = Cardinality(issued) + 1
  BY FS_CardinalityType DEF BarInv, BarNumbered, Bar!Cardinality, Cardinality
<1>2. BarNumbered'
  <2>1. t \notin issued
    BY <1>1
  <2>2. IsFiniteSet(issued') /\ Cardinality(issued') = t
    BY <1>1, <2>1, FS_AddElement
  <2>3. issued' = 1..t
    BY <1>1
  <2> QED
    BY <2>2, <2>3 DEF BarNumbered
<1> DEFINE o == Append(context.open, t)
<1>3. /\ o \in Seq(Tabs) /\ Len(o) = Len(context.open) + 1 /\ Len(context.open) \in Nat
      /\ o[Len(context.open) + 1] = t /\ \A k \in 1..Len(context.open) : o[k] = context.open[k]
      /\ DOMAIN o = 1..(Len(context.open) + 1)
  BY <1>0, AppendProperties, LenProperties
<1>4. context' \in Bar!Content /\ context'.open = o
  <2> HIDE DEF o
  <2>1. context' = [context EXCEPT !.open = o, !.selected = t]
    BY DEF o
  <2> QED
    BY <1>0, <1>3, <2>1 DEF Bar!Content
<1> HIDE DEF o
<1>5. DOMAIN context.open = 1..Len(context.open)
  BY <1>0, LenProperties
<1>6. \A k \in 1..Len(context.open) : context.open[k] \in issued
  BY <1>0, <1>5 DEF Bar!Elements
<1>7. t \notin issued
  BY <1>1
<1>8. Apart(o)
  <2> SUFFICES ASSUME NEW j \in 1..(Len(context.open) + 1), NEW k \in 1..(Len(context.open) + 1),
                      o[j] = o[k]
               PROVE  j = k
    BY <1>3 DEF Apart
  <2>1. CASE j \in 1..Len(context.open) /\ k \in 1..Len(context.open)
    BY <1>0, <1>3, <1>5, <2>1 DEF Apart
  <2>2. CASE j = Len(context.open) + 1 /\ k # j
    <3>1. k \in 1..Len(context.open)
      BY <1>3, <2>2
    <3> QED
      BY <1>3, <1>6, <1>7, <2>2, <3>1
  <2>3. CASE k = Len(context.open) + 1 /\ k # j
    <3>1. j \in 1..Len(context.open)
      BY <1>3, <2>3
    <3> QED
      BY <1>3, <1>6, <1>7, <2>3, <3>1
  <2> QED
    BY <1>3, <2>1, <2>2, <2>3
<1>9. Bar!Elements(o) \subseteq issued'
  <2>1. ASSUME NEW k \in 1..(Len(context.open) + 1) PROVE o[k] \in issued'
    <3>1. CASE k \in 1..Len(context.open)
      BY <1>3, <1>6, <3>1
    <3>2. CASE k = Len(context.open) + 1
      BY <1>3, <3>2
    <3> QED
      BY <1>3, <3>1, <3>2
  <2> QED
    BY <1>3, <2>1 DEF Bar!Elements
<1>10. changed' = TRUE /\ UNCHANGED <<phase, snapshot, view, items, drag, transition, drawn>>
       /\ issued' \subseteq Tabs /\ selects' \in Seq(Tabs) /\ closes' \subseteq Tabs
  BY DEF BarInv, BarTypes
<1> HIDE DEF Bar!OpenWorkspace, Bar!window
<1> QED
  BY <1>2, <1>4, <1>8, <1>9, <1>10, ContextChanges

LEMMA BarContextSteps ==
  ASSUME BarInv, NEW t \in Tabs,
         Bar!StatusChanges(t) \/ Bar!CloseWorkspace(t) \/ Bar!SelectWorkspace
  PROVE  BarInv'
<1>0. /\ context \in Bar!Content /\ context.open \in Seq(Tabs) /\ Apart(context.open)
      /\ Bar!Elements(context.open) \subseteq issued /\ issued \subseteq Tabs
      /\ context.status \in [Tabs -> BOOLEAN] /\ context.selected \in Tabs \cup {NoTab}
      /\ selects \in Seq(Tabs) /\ closes \subseteq Tabs
  BY DEF BarInv, BarTypes, TabsApart, Bar!Content
<1>1. CASE Bar!StatusChanges(t)
  <2> USE <1>1 DEF Bar!StatusChanges, Bar!window
  <2>1. context' \in Bar!Content /\ context'.open = context.open
    BY <1>0 DEF Bar!Content
  <2>2. BarNumbered'
    BY DEF BarInv, BarNumbered
  <2>3. changed' = TRUE /\ UNCHANGED <<phase, snapshot, view, items, drag, transition, drawn>>
        /\ issued' = issued /\ selects' = selects /\ closes' = closes
    OBVIOUS
  <2> HIDE <1>1 DEF Bar!StatusChanges, Bar!window
  <2> QED
    BY <1>0, <2>1, <2>2, <2>3, ContextChanges
<1>2. CASE Bar!CloseWorkspace(t)
  <2> USE <1>2 DEF Bar!CloseWorkspace, Bar!window
  <2>1. CASE t \notin Bar!Elements(context.open)
    BY <2>1 DEF BarInv, BarTypes, BarNumbered, TabsApart, TabsOfTheView, BarFollows
  <2>2. CASE t \in Bar!Elements(context.open)
    <3> DEFINE rest == Bar!Without(context.open, t)
               next == IF context.selected # t THEN context.selected
                       ELSE IF rest = <<>> THEN NoTab
                       ELSE rest[Bar!Smaller(Bar!Index(context.open, t), Len(rest))]
    <3>1. /\ rest \in Seq(Tabs) /\ Apart(rest)
          /\ Bar!Elements(rest) = Bar!Elements(context.open) \ {t}
      BY <1>0, <2>2, WithoutIs
    <3>2. Bar!Index(context.open, t) \in Nat \ {0}
      BY <1>0, <2>2, IndexIs
    <3>3. next \in Tabs \cup {NoTab}
      <4>1. CASE context.selected # t \/ rest = <<>>
        BY <1>0, <4>1
      <4>2. CASE context.selected = t /\ rest # <<>>
        <5> DEFINE k == Bar!Index(context.open, t)
        <5> HIDE DEF rest, k
        <5>1. Len(rest) \in Nat \ {0} /\ k \in Nat \ {0}
          BY <3>1, <3>2, <4>2, LenProperties, EmptySeq DEF k
        <5>2. Bar!Smaller(k, Len(rest)) \in 1..Len(rest)
          BY <5>1 DEF Bar!Smaller
        <5>3. rest[Bar!Smaller(k, Len(rest))] \in Tabs
          BY <3>1, <5>2, ElementOfSeq
        <5>4. next = rest[Bar!Smaller(k, Len(rest))]
          BY <4>2 DEF k
        <5> HIDE DEF next
        <5> QED
          BY <5>3, <5>4
      <4> QED
        BY <4>1, <4>2
    <3>4. context' = [context EXCEPT !.open = rest, !.selected = next, !.status[t] = FALSE]
      BY <2>2 DEF Bar!Closed
    <3> HIDE DEF rest, next
    <3>5. context' \in Bar!Content /\ context'.open = rest
      BY <1>0, <3>1, <3>3, <3>4 DEF Bar!Content
    <3>6. BarNumbered'
      BY DEF BarInv, BarNumbered
    <3>7. changed' = TRUE /\ UNCHANGED <<phase, snapshot, view, items, drag, transition, drawn>>
          /\ issued' = issued /\ selects' = selects /\ closes' \subseteq closes
      BY <2>2
    <3> HIDE <1>2 DEF Bar!CloseWorkspace, Bar!window
    <3> QED
      BY <1>0, <3>1, <3>5, <3>6, <3>7, ContextChanges
  <2> QED
    BY <2>1, <2>2
<1>3. CASE Bar!SelectWorkspace
  <2> USE <1>3 DEF Bar!SelectWorkspace, Bar!window
  <2>1. Head(selects) \in Tabs /\ selects' \in Seq(Tabs)
    BY <1>0, HeadTailProperties
  <2>2. BarNumbered'
    BY DEF BarInv, BarNumbered
  <2>3. CASE UNCHANGED <<context, changed>>
    BY <2>1, <2>2, <2>3 DEF BarInv, BarTypes, TabsApart, TabsOfTheView, BarFollows
  <2>4. CASE ~UNCHANGED <<context, changed>>
    <3>1. /\ context' = [context EXCEPT !.selected = Head(selects)] /\ changed' = TRUE
      BY <2>4
    <3>2. context' \in Bar!Content /\ context'.open = context.open
      BY <1>0, <2>1, <3>1 DEF Bar!Content
    <3>3. UNCHANGED <<phase, snapshot, view, items, drag, transition, drawn>>
          /\ issued' = issued /\ closes' = closes
      OBVIOUS
    <3> HIDE <1>3 DEF Bar!SelectWorkspace, Bar!window
    <3> QED
      BY <1>0, <2>1, <2>2, <3>1, <3>2, <3>3, ContextChanges
  <2> QED
    BY <2>3, <2>4
<1> QED
  BY <1>1, <1>2, <1>3

LEMMA BarSubscription ==
  ASSUME BarInv, Bar!SeeRevision \/ Bar!ReadContext \/ Bar!ApplySnapshot
  PROVE  BarInv'
<1> USE DEF BarInv, BarTypes, BarNumbered, TabsApart, TabsOfTheView, BarFollows
<1>1. CASE Bar!SeeRevision
  BY <1>1 DEF Bar!SeeRevision
<1>2. CASE Bar!ReadContext
  BY <1>2 DEF Bar!ReadContext
<1>3. CASE Bar!ApplySnapshot
  <2>1. Bar!Nothing \in Bar!Content /\ Bar!Nothing.open = <<>>
    BY DEF Bar!Nothing, Bar!Content
  <2>2. Apart(<<>>)
    BY DEF Apart
  <2>3. snapshot.open \in Seq(Tabs)
    BY DEF Bar!Content
  <2> QED
    BY <1>3, <2>1, <2>2, <2>3 DEF Bar!ApplySnapshot, Bar!SameTabs
<1> QED
  BY <1>1, <1>2, <1>3

\* The pointer is over another tab: what is dragged goes beside it.
LEMMA DragIs ==
  ASSUME BarInv, NEW index \in DOMAIN drawn, NEW before \in BOOLEAN, Bar!DragMove(index, before)
  PROVE  LET from == Bar!Index(items, drag)
             to   == IF before THEN IF from < index THEN index - 1 ELSE index
                     ELSE IF from < index + 1 THEN index ELSE index + 1
         IN /\ from \in 1..Len(items) /\ to \in 1..Len(items) /\ Len(items) \in Nat
            /\ items[from] = drag /\ drag \in Bar!Elements(items)
            /\ index \in 1..Len(items) /\ index # from /\ items[index] = drawn[index]
            /\ items' = Bar!Moved(items, from, to) /\ transition' = <<from, to>>
<1> DEFINE from == Bar!Index(items, drag)
           at == IF before THEN index ELSE index + 1
           to == IF from < at THEN at - 1 ELSE at
<1>1. items \in Seq(Tabs) /\ Apart(items)
  BY DEF BarInv, BarTypes, TabsApart
<1>2. /\ drag # drawn[index] /\ index \in DOMAIN items /\ items[index] = drawn[index]
      /\ drag \in Bar!Elements(items) /\ at <= Len(items) + 1 /\ at \notin {from, from + 1}
      /\ items' = Bar!Moved(items, from, to) /\ transition' = <<from, to>>
  BY DEF Bar!DragMove, Bar!StillThere
<1>3. /\ from \in 1..Len(items) /\ items[from] = drag /\ Len(items) \in Nat
  BY <1>1, <1>2, IndexIs
<1>4. index \in 1..Len(items)
  BY <1>1, <1>2, LenProperties
<1>5. index # from
  BY <1>2, <1>3
<1> HIDE DEF from
<1>6. to \in 1..Len(items)
  BY <1>2, <1>3, <1>4, <1>5
<1>7. to = IF before THEN IF from < index THEN index - 1 ELSE index
           ELSE IF from < index + 1 THEN index ELSE index + 1
  BY <1>3, <1>4
<1> HIDE DEF to
<1>8. /\ from \in 1..Len(items) /\ to \in 1..Len(items) /\ Len(items) \in Nat
      /\ items[from] = drag /\ drag \in Bar!Elements(items)
      /\ index \in 1..Len(items) /\ index # from /\ items[index] = drawn[index]
      /\ items' = Bar!Moved(items, from, to) /\ transition' = <<from, to>>
  BY <1>2, <1>3, <1>4, <1>5, <1>6
<1> QED
  BY <1>7, <1>8 DEF from

LEMMA BarUser ==
  ASSUME BarInv, \/ Bar!Render \/ \E heard \in BOOLEAN : Bar!Drop(heard)
                 \/ \E t \in Tabs : Bar!Activate(t) \/ Bar!CloseTab(t) \/ Bar!StartDrag(t)
  PROVE  BarInv'
<1> USE DEF BarInv, BarTypes, BarNumbered, TabsApart, TabsOfTheView, BarFollows
<1>1. CASE Bar!Render
  BY <1>1 DEF Bar!Render
<1>2. ASSUME NEW heard \in BOOLEAN, Bar!Drop(heard) PROVE BarInv'
  BY <1>2 DEF Bar!Drop
<1>3. ASSUME NEW t \in Tabs, Bar!Activate(t) PROVE BarInv'
  <2>1. selects' \in Seq(Tabs)
    BY <1>3, AppendProperties DEF Bar!Activate
  <2> QED
    BY <1>3, <2>1 DEF Bar!Activate, Bar!window
<1>4. ASSUME NEW t \in Tabs, Bar!CloseTab(t) PROVE BarInv'
  BY <1>4 DEF Bar!CloseTab, Bar!window
<1>5. ASSUME NEW t \in Tabs, Bar!StartDrag(t) PROVE BarInv'
  BY <1>5 DEF Bar!StartDrag
<1> QED
  BY <1>1, <1>2, <1>3, <1>4, <1>5

LEMMA BarDrags ==
  ASSUME BarInv, NEW index \in DOMAIN drawn, NEW before \in BOOLEAN, Bar!DragMove(index, before)
  PROVE  BarInv'
<1>1. items \in Seq(Tabs) /\ Apart(items)
  BY DEF BarInv, BarTypes, TabsApart
<1>2. PICK from \in 1..Len(items), to \in 1..Len(items) : items' = Bar!Moved(items, from, to)
  BY DragIs
<1>3. items' \in Seq(Tabs) /\ Apart(items') /\ Bar!Elements(items') = Bar!Elements(items)
  BY <1>1, <1>2, MovedIs, MovedHasTheSame
<1>4. UNCHANGED <<context, issued, changed, phase, snapshot, view, drag, drawn, selects, closes>>
  BY DEF Bar!DragMove
<1> QED
  BY <1>3, <1>4 DEF BarInv, BarTypes, BarNumbered, TabsApart, TabsOfTheView, BarFollows

LEMMA BarKept == BarInv /\ [Bar!Next]_tabsState => BarInv'
<1> SUFFICES ASSUME BarInv, [Bar!Next]_tabsState PROVE BarInv'
  OBVIOUS
<1>1. CASE UNCHANGED tabsState
  BY <1>1 DEF tabsState, BarInv, BarTypes, BarNumbered, TabsApart, TabsOfTheView, BarFollows
<1>2. CASE Bar!SelectWorkspace
  <2>1. CASE Tabs = {}
    <3>1. selects = <<>>
      <4>1. selects \in Seq(Tabs)
        BY DEF BarInv, BarTypes
      <4> QED
        BY <2>1, <4>1, EmptySeq, LenProperties, ElementOfSeq
    <3> QED
      BY <1>2, <3>1 DEF Bar!SelectWorkspace
  <2>2. CASE Tabs # {}
    BY <1>2, <2>2, BarContextSteps
  <2> QED
    BY <2>1, <2>2
<1> QED
  BY <1>1, <1>2, BarOpens, BarContextSteps, BarSubscription, BarUser, BarDrags DEF Bar!Next

LEMMA BarGoal == BarInv => Bar!TypeOK /\ Bar!RestShowsTheContext
<1> SUFFICES ASSUME BarInv PROVE Bar!TypeOK /\ Bar!RestShowsTheContext
  OBVIOUS
<1>1. Bar!Cardinality(Bar!Elements(items)) = Len(items)
  BY AsManyAsTabs DEF BarInv, BarTypes, TabsApart, Bar!Cardinality, Cardinality
<1>2. Bar!TypeOK
  BY <1>1 DEF BarInv, BarTypes, Bar!TypeOK
<1> QED
  BY <1>2 DEF BarInv, TabsOfTheView, BarFollows, Bar!RestShowsTheContext

LEMMA BarHolds == Spec => []BarInv
<1>1. Init => BarInv
  BY BarStarts DEF Init
<1>2. BarInv /\ [Next]_all => BarInv'
  BY BarKept, PartSteps
<1> QED
  BY <1>1, <1>2, PTL DEF Spec

\* What a drag makes of the list, whatever tab the pointer is over.
LEMMA DraggedIs ==
  ASSUME BarInv, NEW index \in DOMAIN drawn, NEW before \in BOOLEAN, Bar!DragMove(index, before)
  PROVE  LET place == Bar!Index(items', drawn[index])
         IN /\ Bar!Without(items', drag) = Bar!Without(items, drag)
            /\ Bar!Index(items', drag) = IF before THEN place - 1 ELSE place + 1
            /\ \A i \in DOMAIN items' :
                 items'[i] # drag => Bar!Index(items, items'[i]) = i + Bar!Displacement(i)'
<1> DEFINE from == Bar!Index(items, drag)
           to == IF before THEN IF from < index THEN index - 1 ELSE index
                 ELSE IF from < index + 1 THEN index ELSE index + 1
           m == Bar!Moved(items, from, to)
           n == Len(items)
<1>1. items \in Seq(Tabs) /\ Apart(items) /\ n \in Nat
  BY LenProperties DEF BarInv, BarTypes, TabsApart
<1>2. /\ from \in 1..n /\ to \in 1..n /\ items[from] = drag /\ drag \in Bar!Elements(items)
      /\ index \in 1..n /\ index # from /\ items[index] = drawn[index]
      /\ items' = m /\ transition' = <<from, to>>
  BY DragIs
<1>t. to = IF before THEN IF from < index THEN index - 1 ELSE index
           ELSE IF from < index + 1 THEN index ELSE index + 1
  OBVIOUS
<1>f. from = Bar!Index(items, drag)
  OBVIOUS
<1> HIDE DEF from, to
<1>3. /\ m \in Seq(Tabs) /\ Len(m) = n /\ m[to] = items[from]
      /\ \A k \in 1..n : k # to =>
           m[k] = items[IF k \in from..(to - 1) THEN k + 1
                        ELSE IF k \in (to + 1)..from THEN k - 1 ELSE k]
      /\ RemoveAt(m, to) = RemoveAt(items, from)
  BY <1>1, <1>2, MovedIs
<1>4. Apart(m) /\ Bar!Elements(m) = Bar!Elements(items)
  BY <1>1, <1>2, MovedHasTheSame
<1> HIDE DEF m
<1>5. Bar!Index(m, drag) = to
  <2>1. \A k \in 1..n : m[k] = drag => k = Bar!Index(m, drag)
    BY <1>2, <1>3, <1>4, IndexIs
  <2> QED
    BY <1>2, <1>3, <2>1
<1>6. Bar!Without(m, drag) = Bar!Without(items, drag)
  <2>1. Bar!Without(m, drag) = RemoveAt(m, to)
    BY <1>5 DEF Bar!Without, Bar!RemoveAt, RemoveAt
  <2>2. Bar!Without(items, drag) = RemoveAt(items, from)
    BY <1>f DEF Bar!Without, Bar!RemoveAt, RemoveAt
  <2> QED
    BY <1>3, <2>1, <2>2
<1> DEFINE p == IF before THEN to + 1 ELSE to - 1
<1>7. p \in 1..n /\ p # to
      /\ index = IF p \in from..(to - 1) THEN p + 1 ELSE IF p \in (to + 1)..from THEN p - 1 ELSE p
  BY <1>1, <1>2, <1>t
<1> HIDE DEF p
<1>8. m[p] = drawn[index]
  BY <1>2, <1>3, <1>7
<1>9. Bar!Index(m, drawn[index]) = p
  <2>1. DOMAIN m = 1..n
    BY <1>3, LenProperties
  <2>2. drawn[index] \in Bar!Elements(m)
    BY <1>7, <1>8, <2>1 DEF Bar!Elements
  <2> QED
    BY <1>3, <1>4, <1>7, <1>8, <2>2, IndexIs
<1>10. to = IF before THEN p - 1 ELSE p + 1
  BY <1>2 DEF p
<1>11. ASSUME NEW i \in DOMAIN m, m[i] # drag
       PROVE  Bar!Index(items, m[i]) = i + Bar!Displacement(i)'
  <2>1. i \in 1..n
    BY <1>3, LenProperties
  <2>2. i # to
    BY <1>2, <1>3, <1>11
  <2> DEFINE j == IF i \in from..(to - 1) THEN i + 1 ELSE IF i \in (to + 1)..from THEN i - 1 ELSE i
  <2>3. j \in 1..n
    BY <1>1, <1>2, <2>1
  <2>4. m[i] = items[j]
    BY <1>3, <2>1, <2>2
  <2>5. j = i + Bar!Displacement(i)'
    <3>1. transition' # <<>> /\ transition'[1] = from /\ transition'[2] = to
      BY <1>2
    <3>2. Bar!Displacement(i)' = IF from < to /\ i \in from..(to - 1) THEN 1
                                 ELSE IF from > to /\ i \in (to + 1)..from THEN -1 ELSE 0
      BY <3>1 DEF Bar!Displacement
    <3> QED
      BY <1>1, <1>2, <2>1, <3>2
  <2> HIDE DEF j
  <2>6. Bar!Index(items, m[i]) = j
    <3>1. DOMAIN items = 1..n
      BY <1>1, LenProperties
    <3>2. m[i] \in Bar!Elements(items)
      BY <2>3, <2>4, <3>1 DEF Bar!Elements
    <3> QED
      BY <1>1, <2>3, <2>4, <3>2, IndexIs
  <2> QED
    BY <2>5, <2>6
<1> QED
  BY <1>2, <1>5, <1>6, <1>9, <1>10, <1>11
-----------------------------------------------------------------------------
(* TerminalBuffer                                                          *)

TextLines == [text : Texts \cup {Blank}, wrapped : BOOLEAN]
Formed(g, limit) ==
  /\ g \in [lines : Seq(TextLines), cursor : 1..Rows, offset : Nat]
  /\ Len(g.lines) \in Rows..(Rows + limit) /\ g.offset <= Terminal!History(g)
\* The alternate screen has no history, and the main one is kept meanwhile.
GridsFormed ==
  /\ Formed(grid, IF saved = Terminal!None THEN Scrollback ELSE 0)
  /\ saved # Terminal!None => Formed(saved, Scrollback)
  /\ damage = Terminal!All \/ damage \subseteq 1..Rows
\* The stamps kept are the last of all lines begun, and numbered from the first kept.
StampsAreBegun ==
  /\ stamps \in Seq(Nat) /\ begun \in Seq(Nat) /\ current \in Nat /\ first \in Nat \ {0}
  /\ Len(stamps) <= Tracked /\ (stamps = <<>> <=> begun = <<>>)
  /\ first + Len(stamps) = Len(begun) + 1
  /\ \A k \in 1..Len(stamps) : stamps[k] = begun[first + k - 1]
FrameLines == [text : Texts \cup {Blank}, wrapped : BOOLEAN, number : Nat, time : Nat]
FrameFormed ==
  frame # Terminal!None =>
    /\ frame \in [lines : [1..Rows -> FrameLines], history : Nat, offset : Nat, cursor : Nat]
    /\ \A i \in 1..Rows : frame.lines[i].number # 0 =>
         /\ frame.lines[i].number \in 1..Len(begun)
         /\ frame.lines[i].time = begun[frame.lines[i].number]
Shows(i) == /\ frame.lines[i].text = Terminal!Line(i).text
            /\ frame.lines[i].wrapped = Terminal!Line(i).wrapped
\* What is not damaged is shown as long as the screen is of the same lines.
UndamagedIsShown ==
  /\ frame # Terminal!None /\ frame.history = Terminal!History(grid)
  /\ frame.offset = grid.offset /\ damage # Terminal!All
  => \A i \in 1..Rows : i \notin Terminal!ShownDamage => Shows(i)
FreshIsShown ==
  fresh => /\ frame # Terminal!None
           /\ frame.cursor = Terminal!Cursor /\ \A i \in 1..Rows : Shows(i)

TerminalInv == GridsFormed /\ StampsAreBegun /\ FrameFormed /\ UndamagedIsShown /\ FreshIsShown

-----------------------------------------------------------------------------
(* The pages of the terminal's history                                     *)

Tokens == Texts \cup {Blank, "newline"}
Join(s) ==
  CHOOSE join : join = [n \in 0..Len(s) |-> IF n = 0 THEN <<>>
                                            ELSE join[n - 1] \o Terminal!Piece(s[n])]

LEMMA PieceIs == \A line \in TextLines : Terminal!Piece(line) \in Seq(Tokens)
<1> SUFFICES ASSUME NEW line \in TextLines PROVE Terminal!Piece(line) \in Seq(Tokens)
  OBVIOUS
<1> DEFINE a == <<line.text>>  b == <<"newline">>  c == IF line.wrapped THEN <<>> ELSE b
<1>1. line.text \in Tokens /\ "newline" \in Tokens
  BY DEF TextLines, Tokens
<1>2. a \in Seq(Tokens) /\ b \in Seq(Tokens)
  BY <1>1
<1>3. c \in Seq(Tokens)
  <2> HIDE DEF b
  <2> QED
    BY <1>2, EmptySeq
<1>4. Terminal!Piece(line) = a \o c
  BY DEF Terminal!Piece
<1> HIDE DEF a, c
<1> QED
  BY <1>2, <1>3, <1>4, ConcatProperties

\* The text of a sequence of lines grows line by line.
LEMMA JoinIs ==
  ASSUME NEW s \in Seq(TextLines)
  PROVE  /\ Terminal!Joined(s) = Join(s)[Len(s)] /\ Join(s)[0] = <<>>
         /\ \A n \in 1..Len(s) : Join(s)[n] = Join(s)[n - 1] \o Terminal!Piece(s[n])
         /\ \A n \in 0..Len(s) : Join(s)[n] \in Seq(Tokens)
         /\ Terminal!Joined(s) \in Seq(Tokens)
<1> DEFINE Made(k) == \E f : f = [n \in 0..k |-> IF n = 0 THEN <<>>
                                                 ELSE f[n - 1] \o Terminal!Piece(s[n])]
           T == {k \in Nat : Made(k)}
<1>0. Len(s) \in Nat /\ \A n \in 1..Len(s) : s[n] \in TextLines
  BY LenProperties, ElementOfSeq
<1>1. 0 \in T
  <2>1. \E f : f = [n \in 0..0 |-> IF n = 0 THEN <<>> ELSE f[n - 1] \o Terminal!Piece(s[n])]
    <3> DEFINE f == [n \in 0..0 |-> <<>>]
    <3>1. f = [n \in 0..0 |-> IF n = 0 THEN <<>> ELSE f[n - 1] \o Terminal!Piece(s[n])]
      OBVIOUS
    <3> QED
      BY <3>1
  <2> QED
    BY <2>1
<1>2. ASSUME NEW k \in Nat, k \in T PROVE k + 1 \in T
  <2>1. PICK f : f = [n \in 0..k |-> IF n = 0 THEN <<>> ELSE f[n - 1] \o Terminal!Piece(s[n])]
    BY <1>2
  <2> DEFINE g == [n \in 0..(k + 1) |-> IF n = k + 1 THEN f[k] \o Terminal!Piece(s[n]) ELSE f[n]]
  <2>2. \A n \in 0..k : f[n] = IF n = 0 THEN <<>> ELSE f[n - 1] \o Terminal!Piece(s[n])
    BY <2>1
  <2>3. \A n \in 0..(k + 1) : g[n] = IF n = 0 THEN <<>> ELSE g[n - 1] \o Terminal!Piece(s[n])
    BY <2>2
  <2>4. g = [n \in 0..(k + 1) |-> g[n]]
    OBVIOUS
  <2> HIDE DEF g
  <2>5. g = [n \in 0..(k + 1) |-> IF n = 0 THEN <<>> ELSE g[n - 1] \o Terminal!Piece(s[n])]
    BY <2>3, <2>4
  <2>6. Made(k + 1)
    BY <2>5
  <2> HIDE DEF Made
  <2> QED
    BY <2>6
<1> HIDE DEF T
<1>3. Nat \subseteq T
  BY <1>1, <1>2, SetInduction
<1>4. Made(Len(s))
  <2>1. Len(s) \in T
    BY <1>0, <1>3
  <2> HIDE DEF Made
  <2> QED
    BY <2>1 DEF T
<1> DEFINE j == Join(s)
<1>5. j = [n \in 0..Len(s) |-> IF n = 0 THEN <<>> ELSE j[n - 1] \o Terminal!Piece(s[n])]
  BY <1>4 DEF Join
<1>6. Terminal!Joined(s) = j[Len(s)]
  BY DEF Terminal!Joined, Join
<1> HIDE DEF j
<1>7. \A n \in 0..Len(s) : j[n] = IF n = 0 THEN <<>> ELSE j[n - 1] \o Terminal!Piece(s[n])
  BY <1>5
<1>8. j[0] = <<>> /\ \A n \in 1..Len(s) : j[n] = j[n - 1] \o Terminal!Piece(s[n])
  <2>1. 0 \in 0..Len(s) /\ \A n \in 1..Len(s) : n \in 0..Len(s) /\ n # 0
    BY <1>0
  <2>2. j[0] = <<>>
    BY <1>7, <2>1
  <2>3. ASSUME NEW n \in 1..Len(s) PROVE j[n] = j[n - 1] \o Terminal!Piece(s[n])
    <3>1. n \in 0..Len(s) /\ n # 0
      BY <2>1
    <3> DEFINE x == j[n - 1] \o Terminal!Piece(s[n])
    <3>2. j[n] = IF n = 0 THEN <<>> ELSE x
      BY <1>7, <3>1
    <3> HIDE DEF x
    <3>3. j[n] = x
      BY <3>1, <3>2
    <3> QED
      BY <3>3 DEF x
  <2> QED
    BY <2>2, <2>3
<1>9. \A n \in 0..Len(s) : j[n] \in Seq(Tokens)
  <2> DEFINE U == {n \in Nat : n <= Len(s) => j[n] \in Seq(Tokens)}
  <2>1. 0 \in U
    BY <1>8, EmptySeq
  <2>2. ASSUME NEW n \in Nat, n \in U PROVE n + 1 \in U
    <3> SUFFICES ASSUME n + 1 <= Len(s) PROVE j[n + 1] \in Seq(Tokens)
      OBVIOUS
    <3>1. n + 1 \in 1..Len(s) /\ (n + 1) - 1 = n /\ n <= Len(s)
      BY <1>0
    <3>2. j[n] \in Seq(Tokens)
      BY <2>2, <3>1
    <3>3. Terminal!Piece(s[n + 1]) \in Seq(Tokens)
      BY <1>0, <3>1, PieceIs
    <3>4. j[n + 1] = j[n] \o Terminal!Piece(s[n + 1])
      BY <1>8, <3>1
    <3> QED
      BY <3>2, <3>3, <3>4, ConcatProperties
  <2> HIDE DEF U
  <2>3. Nat \subseteq U
    BY <2>1, <2>2, SetInduction
  <2> QED
    BY <1>0, <2>3 DEF U
<1>10. j[Len(s)] \in Seq(Tokens)
  BY <1>0, <1>9
<1> QED
  BY <1>6, <1>8, <1>9, <1>10 DEF j

\* The text of some lines goes on where that of the lines above them ends.
LEMMA JoinGoesOn ==
  ASSUME NEW s \in Seq(TextLines), NEW a \in Nat, NEW b \in Nat, a <= b, b <= Len(s)
  PROVE  Join(s)[a] \o Terminal!Joined(SubSeq(s, a + 1, b)) = Join(s)[b]
<1> DEFINE u == SubSeq(s, a + 1, b)  j == Join(s)  h == Join(u)
<1>0. Len(s) \in Nat /\ \A n \in 1..Len(s) : s[n] \in TextLines
  BY LenProperties, ElementOfSeq
<1>1. u \in Seq(TextLines) /\ Len(u) = b - a /\ \A k \in 1..(b - a) : u[k] = s[a + k]
  <2>1. \A k \in (a + 1)..b : s[k] \in TextLines
    BY <1>0
  <2>2. /\ u \in Seq(TextLines) /\ Len(u) = IF a + 1 <= b THEN b - (a + 1) + 1 ELSE 0
        /\ \A k \in 1..(b - (a + 1) + 1) : u[k] = s[(a + 1) + k - 1]
    BY <2>1, SubSeqProperties
  <2> HIDE DEF u
  <2>3. Len(u) = b - a
    BY <2>2
  <2>4. ASSUME NEW k \in 1..(b - a) PROVE u[k] = s[a + k]
    <3>1. k \in 1..(b - (a + 1) + 1) /\ (a + 1) + k - 1 = a + k
      OBVIOUS
    <3> QED
      BY <2>2, <3>1
  <2> QED
    BY <2>2, <2>3, <2>4
<1>2. /\ \A n \in 1..Len(s) : j[n] = j[n - 1] \o Terminal!Piece(s[n])
      /\ \A n \in 0..Len(s) : j[n] \in Seq(Tokens)
  BY JoinIs
<1> HIDE DEF u
<1>3. /\ Terminal!Joined(u) = h[b - a] /\ h[0] = <<>>
      /\ \A n \in 1..(b - a) : h[n] = h[n - 1] \o Terminal!Piece(u[n])
      /\ \A n \in 0..(b - a) : h[n] \in Seq(Tokens)
  BY <1>1, JoinIs
<1> HIDE DEF j, h
<1> DEFINE Same(k) == j[a] \o h[k] = j[a + k]  U == {k \in Nat : k <= b - a => Same(k)}
<1>4. j[a] \in Seq(Tokens)
  BY <1>0, <1>2
<1>5. 0 \in U
  <2>1. j[a] \o <<>> = j[a] /\ a + 0 = a
    BY <1>4, ConcatEmptySeq
  <2>2. Same(0)
    BY <1>3, <2>1
  <2> HIDE DEF Same
  <2> QED
    BY <2>2
<1>6. ASSUME NEW k \in Nat, k + 1 <= b - a, Same(k) PROVE Same(k + 1)
  <2>1. /\ k + 1 \in 1..(b - a) /\ (k + 1) - 1 = k /\ k \in 0..(b - a)
        /\ a + (k + 1) \in 1..Len(s) /\ (a + (k + 1)) - 1 = a + k
    BY <1>0, <1>6
  <2> DEFINE p == Terminal!Piece(s[a + (k + 1)])  x == h[k]  y == j[a]
  <2>2. y \o x = j[a + k]
    BY <1>6
  <2>3. p \in Seq(Tokens)
    BY <1>0, <2>1, PieceIs
  <2>4. x \in Seq(Tokens) /\ h[k + 1] = x \o p
    BY <1>1, <1>3, <2>1
  <2>5. j[a + (k + 1)] = j[a + k] \o p
    BY <1>2, <2>1
  <2>6. y \in Seq(Tokens)
    BY <1>4
  <2> HIDE DEF p, x, y
  <2>7. y \o (x \o p) = (y \o x) \o p
    BY <2>3, <2>4, <2>6, ConcatAssociative
  <2>8. y \o h[k + 1] = j[a + (k + 1)]
    BY <2>2, <2>4, <2>5, <2>7
  <2> QED
    BY <2>8 DEF y
<1> HIDE DEF Same
<1>7. ASSUME NEW k \in Nat, k \in U PROVE k + 1 \in U
  <2>1. k + 1 <= b - a => k <= b - a
    OBVIOUS
  <2> QED
    BY <1>6, <1>7, <2>1
<1> HIDE DEF U
<1>8. Nat \subseteq U
  BY <1>5, <1>7, SetInduction
<1>9. Same(b - a) /\ a + (b - a) = b
  <2>1. b - a \in Nat /\ a + (b - a) = b
    OBVIOUS
  <2> QED
    BY <1>8, <2>1 DEF U
<1>10. j[a] \o h[b - a] = j[b]
  BY <1>9 DEF Same
<1> QED
  BY <1>3, <1>10 DEF j, u

\* Whatever the size of the pages, page after page is the history.
LEMMA PagesAreTheHistory ==
  ASSUME grid.lines \in Seq(TextLines), Rows \in Nat
  PROVE  Terminal!PagesMakeTheHistory
<1> SUFFICES ASSUME NEW limit \in 1..(Rows + 1)
             PROVE  LET read[n \in 0..Len(grid.lines)] ==
                          LET page == Terminal!Page(n, limit)
                          IN IF page.hasMore THEN read[n + page.limit] \o page.text
                             ELSE page.text
                    IN read[0] = Terminal!Joined(grid.lines)
  BY DEF Terminal!PagesMakeTheHistory
<1> DEFINE s == grid.lines
           N == Len(s)
           j == Join(s)
           From(f, n) == IF Terminal!Page(n, limit).hasMore
                         THEN f[n + Terminal!Page(n, limit).limit] \o Terminal!Page(n, limit).text
                         ELSE Terminal!Page(n, limit).text
           read == CHOOSE f : f = [n \in 0..N |-> From(f, n)]
<1>0. N \in Nat /\ j[N] = Terminal!Joined(s) /\ j[0] = <<>> /\ s \in Seq(TextLines)
      /\ \A n \in 0..N : j[n] \in Seq(Tokens)
  BY LenProperties, JoinIs
<1>1. ASSUME NEW n \in 0..N
      PROVE  /\ Terminal!Page(n, limit).hasMore => /\ Terminal!Page(n, limit).limit = limit
                                                   /\ n + limit \in 0..N
             /\ j[N - n] = IF Terminal!Page(n, limit).hasMore
                           THEN j[N - (n + limit)] \o Terminal!Page(n, limit).text
                           ELSE Terminal!Page(n, limit).text
  <2> DEFINE end == N - n
             start == IF end > limit THEN end - limit ELSE 0
             text == Terminal!Joined(SubSeq(s, start + 1, end))
             page == Terminal!Page(n, limit)
  <2>1. Terminal!Smaller(n, N) = n
    BY <1>0 DEF Terminal!Smaller
  <2>2. /\ page.text = text /\ page.limit = end - start /\ page.hasMore = (start > 0)
    BY <2>1 DEF Terminal!Page, Terminal!Above
  <2>3. start \in Nat /\ end \in Nat /\ start <= end /\ end <= N
    BY <1>0
  <2>4. j[start] \o text = j[end]
    BY <1>0, <2>3, JoinGoesOn
  <2>5. start > 0 => start = N - (n + limit) /\ end - start = limit /\ n + limit \in 0..N
    BY <1>0
  <2>6. CASE start > 0
    <3> HIDE DEF page, text, start, j, N, s
    <3> QED
      BY <2>2, <2>4, <2>5, <2>6 DEF page
  <2>7. CASE ~(start > 0)
    <3>1. start = 0
      BY <2>3, <2>7
    <3>2. text \in Seq(Tokens)
      <4>1. SubSeq(s, 1, end) \in Seq(TextLines)
        BY <1>0, <2>3, SubSeqProperties, ElementOfSeq
      <4>3. Terminal!Joined(SubSeq(s, 1, end)) \in Seq(Tokens)
        BY <4>1, JoinIs
      <4>4. 0 + 1 = 1
        OBVIOUS
      <4> HIDE DEF start
      <4> QED
        BY <3>1, <4>3, <4>4
    <3> HIDE DEF text, start, j, N, s
    <3>3. <<>> \o text = text
      BY <3>2, ConcatEmptySeq
    <3> HIDE DEF page
    <3> QED
      BY <1>0, <2>2, <2>4, <2>7, <3>1, <3>3 DEF page
  <2> QED
    BY <2>6, <2>7
<1> DEFINE g == [n \in 0..N |-> j[N - n]]
<1>2. g = [n \in 0..N |-> From(g, n)]
  <2>1. ASSUME NEW n \in 0..N PROVE g[n] = From(g, n)
    <3>1. g[n] = j[N - n]
      OBVIOUS
    <3>2. n + limit \in 0..N => g[n + limit] = j[N - (n + limit)]
      OBVIOUS
    <3> HIDE DEF g, j, N, s
    <3> QED
      BY <1>1, <3>1, <3>2
  <2>2. g = [n \in 0..N |-> g[n]]
    OBVIOUS
  <2> HIDE DEF g, From
  <2> QED
    BY <2>1, <2>2
<1>3. read = [n \in 0..N |-> From(read, n)]
  <2> HIDE DEF g, From, N
  <2> QED
    BY <1>2
<1> HIDE DEF read
<1>4. \A n \in 0..N : read[n] = From(read, n)
  <2> HIDE DEF From, N
  <2> QED
    BY <1>3
<1> DEFINE U == {k \in Nat : \A m \in 0..k : m <= N => read[N - m] = j[m]}
<1> HIDE DEF j, N, s
<1>5. ASSUME NEW k \in Nat, k <= N, \A m \in 0..(k - 1) : read[N - m] = j[m]
      PROVE  read[N - k] = j[k]
  <2>1. N - k \in 0..N /\ N - (N - k) = k
    BY <1>0, <1>5
  <2>2. read[N - k] = From(read, N - k)
    BY <1>4, <2>1
  <2> DEFINE page == Terminal!Page(N - k, limit)
  <2>3. CASE page.hasMore
    <3>1. page.limit = limit /\ (N - k) + limit \in 0..N
      BY <1>1, <2>1, <2>3
    <3>2. k - limit \in 0..(k - 1) /\ N - (k - limit) = (N - k) + limit
          /\ N - ((N - k) + limit) = k - limit
      BY <1>0, <3>1
    <3>3. read[(N - k) + limit] = j[N - ((N - k) + limit)]
      BY <1>5, <3>2
    <3>4. j[k] = j[N - ((N - k) + limit)] \o page.text
      BY <1>1, <2>1, <2>3
    <3>5. read[N - k] = read[(N - k) + page.limit] \o page.text
      BY <2>2, <2>3
    <3> HIDE DEF page
    <3> QED
      BY <3>1, <3>3, <3>4, <3>5
  <2>4. CASE ~page.hasMore
    <3>1. j[k] = page.text
      BY <1>1, <2>1, <2>4
    <3>2. read[N - k] = page.text
      BY <2>2, <2>4
    <3> QED
      BY <3>1, <3>2
  <2> QED
    BY <2>3, <2>4
<1> HIDE DEF From
<1>6. 0 \in U
  <2>1. read[N - 0] = j[0]
    <3>1. \A m \in 0..(0 - 1) : read[N - m] = j[m]
      OBVIOUS
    <3>2. 0 \in Nat /\ 0 <= N
      BY <1>0
    <3> HIDE DEF U, g
    <3> QED
      BY <1>5, <3>1, <3>2
  <2>2. \A m \in 0..0 : m = 0
    OBVIOUS
  <2> QED
    BY <2>1, <2>2
<1>7. ASSUME NEW k \in Nat, k \in U PROVE k + 1 \in U
  <2>1. ASSUME k + 1 <= N PROVE read[N - (k + 1)] = j[k + 1]
    <3>1. \A m \in 0..((k + 1) - 1) : m \in 0..k /\ m <= N
      BY <1>0, <2>1
    <3>2. \A m \in 0..((k + 1) - 1) : read[N - m] = j[m]
      BY <1>7, <3>1
    <3> QED
      BY <1>5, <2>1, <3>2
  <2>2. \A m \in 0..(k + 1) : m \in 0..k \/ m = k + 1
    OBVIOUS
  <2> QED
    BY <1>7, <2>1, <2>2
<1> HIDE DEF U
<1>8. N \in U
  BY <1>0, <1>6, <1>7, SetInduction
<1>9. read[N - N] = j[N] /\ N - N = 0
  BY <1>0, <1>8 DEF U
<1>10. read[0] = Terminal!Joined(s)
  BY <1>0, <1>9
<1> QED
  BY <1>10 DEF read, From, N, s

-----------------------------------------------------------------------------
(* The grid and its frames                                                 *)

\* What is drawn or saved is not nothing.
LEMMA GridsAre == \A g, limit : Formed(g, limit) => g # Terminal!None
<1> SUFFICES ASSUME NEW g, NEW limit, Formed(g, limit) PROVE g # Terminal!None
  OBVIOUS
<1>1. g \in [lines : Seq(TextLines), cursor : 1..Rows, offset : Nat]
  BY DEF Formed
<1>2. "lines" \in DOMAIN g
  BY <1>1
<1>3. DOMAIN <<>> = {}
  OBVIOUS
<1> QED
  BY <1>2, <1>3 DEF Terminal!None

LEMMA EmptyGridIs ==
  /\ \A limit \in Nat : Formed(Terminal!EmptyGrid, limit)
  /\ Terminal!EmptyLine \in TextLines
<1>1. Terminal!EmptyLine \in TextLines
  BY DEF Terminal!EmptyLine, TextLines
<1> DEFINE l == [i \in 1..Rows |-> Terminal!EmptyLine]
<1>2. Rows \in Nat \ {0}
  BY TerminalAssumption
<1>3. l \in Seq(TextLines) /\ Len(l) = Rows
  BY <1>1, <1>2, IsASeq
<1>4. Terminal!EmptyGrid = [lines |-> l, cursor |-> 1, offset |-> 0]
  BY DEF Terminal!EmptyGrid
<1> HIDE DEF l
<1>5. /\ Terminal!EmptyGrid \in [lines : Seq(TextLines), cursor : 1..Rows, offset : Nat]
      /\ Terminal!EmptyGrid.lines = l /\ Terminal!EmptyGrid.offset = 0
  BY <1>2, <1>3, <1>4
<1>6. \A limit \in Nat : Rows \in Rows..(Rows + limit) /\ 0 <= Rows - Rows
  BY <1>2
<1> QED
  BY <1>1, <1>3, <1>5, <1>6 DEF Formed, Terminal!History

\* A line down.
LEMMA DownIs ==
  ASSUME NEW limit \in Nat, NEW g, Formed(g, limit)
  PROVE  /\ Formed(Terminal!Down(g, limit), limit)
         /\ g.cursor < Rows => /\ Terminal!Down(g, limit).lines = g.lines
                               /\ Terminal!Down(g, limit).offset = g.offset
<1>0. /\ g \in [lines : Seq(TextLines), cursor : 1..Rows, offset : Nat] /\ g.lines \in Seq(TextLines)
      /\ g.cursor \in 1..Rows /\ g.offset \in Nat /\ Len(g.lines) \in Rows..(Rows + limit)
      /\ g.offset <= Len(g.lines) - Rows /\ Rows \in Nat \ {0} /\ Len(g.lines) \in Nat
  BY TerminalAssumption, LenProperties DEF Formed, Terminal!History
<1>1. CASE g.cursor < Rows
  <2> DEFINE n == Terminal!Down(g, limit)
  <2>1. n = [g EXCEPT !.cursor = @ + 1]
    BY <1>1 DEF Terminal!Down
  <2>2. g.cursor + 1 \in 1..Rows
    BY <1>0, <1>1
  <2> HIDE DEF n
  <2>3. /\ n \in [lines : Seq(TextLines), cursor : 1..Rows, offset : Nat]
        /\ n.lines = g.lines /\ n.offset = g.offset
    BY <1>0, <2>1, <2>2
  <2>4. Formed(n, limit)
    BY <1>0, <2>3 DEF Formed, Terminal!History
  <2> QED
    BY <2>3, <2>4 DEF n
<1>2. CASE ~(g.cursor < Rows)
  <2> DEFINE n == Terminal!Down(g, limit)
             more == Append(g.lines, Terminal!EmptyLine)
             l == IF Len(more) > limit + Rows THEN Tail(more) ELSE more
             o == IF g.offset = 0 THEN 0 ELSE Terminal!Smaller(g.offset + 1, limit)
  <2>1. n = [g EXCEPT !.lines = l, !.offset = o]
    BY <1>2 DEF Terminal!Down
  <2>2. more \in Seq(TextLines) /\ Len(more) = Len(g.lines) + 1 /\ more # <<>>
    BY <1>0, EmptyGridIs, AppendProperties
  <2> HIDE DEF more
  <2>3. /\ Tail(more) \in Seq(TextLines) /\ Len(Tail(more)) = Len(g.lines)
    BY <1>0, <2>2, HeadTailProperties
  <2>4. /\ l \in Seq(TextLines)
        /\ Len(l) = IF Len(g.lines) + 1 > limit + Rows THEN Len(g.lines) ELSE Len(g.lines) + 1
    BY <2>2, <2>3
  <2> HIDE DEF l
  <2>5. Len(l) \in Rows..(Rows + limit)
    BY <1>0, <2>4
  <2>6. o \in Nat /\ o <= Len(l) - Rows
    <3>1. CASE g.offset = 0
      BY <1>0, <2>5, <3>1
    <3>2. CASE g.offset # 0
      <4>1. o = IF g.offset + 1 < limit THEN g.offset + 1 ELSE limit
        BY <3>2 DEF Terminal!Smaller
      <4> HIDE DEF o
      <4> QED
        BY <1>0, <2>4, <4>1
    <3> QED
      BY <3>1, <3>2
  <2> HIDE DEF n, o
  <2>7. /\ n \in [lines : Seq(TextLines), cursor : 1..Rows, offset : Nat]
        /\ n.lines = l /\ n.offset = o
    BY <1>0, <2>1, <2>4, <2>6
  <2>8. Formed(n, limit)
    BY <2>5, <2>6, <2>7 DEF Formed, Terminal!History
  <2> QED
    BY <1>2, <2>8 DEF n
<1> QED
  BY <1>1, <1>2

\* A line is changed where the cursor is.
LEMMA WrittenIs ==
  ASSUME NEW limit \in Nat, NEW g, Formed(g, limit), NEW line \in TextLines,
         NEW new, new = [g EXCEPT !.lines = [g.lines EXCEPT ![Terminal!Here(g)] = line]]
  PROVE  /\ Formed(new, limit) /\ Terminal!Here(g) \in 1..Len(g.lines)
         /\ Len(new.lines) = Len(g.lines) /\ new.offset = g.offset /\ new.cursor = g.cursor
         /\ \A k \in 1..Len(g.lines) : k # Terminal!Here(g) => new.lines[k] = g.lines[k]
<1>0. /\ g \in [lines : Seq(TextLines), cursor : 1..Rows, offset : Nat] /\ g.lines \in Seq(TextLines)
      /\ g.cursor \in 1..Rows /\ Len(g.lines) \in Rows..(Rows + limit)
      /\ Rows \in Nat \ {0} /\ Len(g.lines) \in Nat /\ g.offset <= Terminal!History(g)
  BY TerminalAssumption, LenProperties DEF Formed
<1>1. Terminal!Here(g) \in 1..Len(g.lines)
  BY <1>0 DEF Terminal!Here, Terminal!History
<1> DEFINE i == Terminal!Here(g)  l == [g.lines EXCEPT ![i] = line]
<1>2. l \in Seq(TextLines) /\ Len(l) = Len(g.lines)
  BY <1>0, <1>1, ExceptSeq
<1>3. \A k \in 1..Len(g.lines) : k # i => l[k] = g.lines[k]
  BY <1>0, <1>1, LenProperties
<1>4. new = [g EXCEPT !.lines = l]
  OBVIOUS
<1> HIDE DEF l
<1>5. /\ new \in [lines : Seq(TextLines), cursor : 1..Rows, offset : Nat]
      /\ new.lines = l /\ new.offset = g.offset /\ new.cursor = g.cursor
  BY <1>0, <1>2, <1>4
<1>6. Formed(new, limit)
  BY <1>0, <1>2, <1>5 DEF Formed, Terminal!History
<1> QED
  BY <1>1, <1>2, <1>3, <1>5, <1>6

\* What a control leaves of the lines: all but the one the cursor is in, unless it scrolls.
Kept(g, new, row) ==
  /\ Len(new.lines) = Len(g.lines) /\ new.offset = g.offset
  /\ \A k \in 1..Len(g.lines) : k # Terminal!History(g) + row => new.lines[k] = g.lines[k]

LEMMA ControlIs ==
  ASSUME NEW limit \in Nat, NEW g, Formed(g, limit), NEW control \in Terminal!Controls
  PROVE  LET new  == Terminal!AfterControl(g, control, limit)
             rows == Terminal!DamageOf(g, control)
         IN /\ Formed(new, limit)
            /\ \/ rows = Terminal!All
               \/ rows \subseteq 1..Rows /\ g.cursor \in rows /\ Kept(g, new, g.cursor)
<1> DEFINE new == Terminal!AfterControl(g, control, limit)
           rows == Terminal!DamageOf(g, control)
<1>0. /\ g \in [lines : Seq(TextLines), cursor : 1..Rows, offset : Nat] /\ g.lines \in Seq(TextLines)
      /\ g.cursor \in 1..Rows /\ Rows \in Nat \ {0} /\ Len(g.lines) \in Nat
      /\ \A k \in 1..Len(g.lines) : g.lines[k] \in TextLines
  BY TerminalAssumption, LenProperties, ElementOfSeq DEF Formed
<1>h. Terminal!Here(g) \in 1..Len(g.lines)
  BY <1>0 DEF Formed, Terminal!Here, Terminal!History
<1>t. "newline" \notin Texts /\ "wrap" \notin Texts /\ "up" \notin Texts
  BY TerminalAssumption
<1>1. CASE control = "newline"
  <2>1. new = Terminal!Down(g, limit)
    BY <1>t, <1>1 DEF Terminal!AfterControl
  <2>2. rows = IF g.cursor < Rows THEN {g.cursor, g.cursor + 1} ELSE Terminal!All
    BY <1>t, <1>1 DEF Terminal!DamageOf
  <2>3. g.cursor < Rows => {g.cursor, g.cursor + 1} \subseteq 1..Rows
    BY <1>0
  <2> HIDE DEF new, rows
  <2>4. g.cursor < Rows => Kept(g, new, g.cursor)
    BY <2>1, DownIs DEF Kept
  <2>5. Formed(new, limit)
    BY <2>1, DownIs
  <2> QED
    BY <2>2, <2>3, <2>4, <2>5 DEF new, rows
<1>2. CASE control = "wrap"
  <2> DEFINE line == [g.lines[Terminal!Here(g)] EXCEPT !.wrapped = TRUE]
             w == [g EXCEPT !.lines = [g.lines EXCEPT ![Terminal!Here(g)] = line]]
  <2>1. line \in TextLines
    BY <1>0, <1>h DEF TextLines
  <2>2. new = Terminal!Down(w, limit)
    <3>1. new = Terminal!Down([g EXCEPT !.lines[Terminal!Here(g)].wrapped = TRUE], limit)
      BY <1>t, <1>2 DEF Terminal!AfterControl
    <3> QED
      BY <3>1
  <2> HIDE DEF line
  <2>3. /\ Formed(w, limit) /\ Len(w.lines) = Len(g.lines) /\ w.offset = g.offset
        /\ w.cursor = g.cursor
        /\ \A k \in 1..Len(g.lines) : k # Terminal!Here(g) => w.lines[k] = g.lines[k]
    BY <2>1, WrittenIs
  <2> HIDE DEF w
  <2>4. rows = IF g.cursor < Rows THEN {g.cursor, g.cursor + 1} ELSE Terminal!All
    BY <1>t, <1>2 DEF Terminal!DamageOf
  <2>5. g.cursor < Rows => {g.cursor, g.cursor + 1} \subseteq 1..Rows
    BY <1>0
  <2> HIDE DEF new, rows
  <2>6. /\ Formed(new, limit)
        /\ g.cursor < Rows => new.lines = w.lines /\ new.offset = w.offset
    BY <2>2, <2>3, DownIs
  <2>7. g.cursor < Rows => Kept(g, new, g.cursor)
    BY <2>3, <2>6 DEF Kept, Terminal!Here
  <2> QED
    BY <2>4, <2>5, <2>6, <2>7 DEF new, rows
<1>3. CASE control = "up"
  <2> DEFINE row == IF g.cursor > 1 THEN g.cursor - 1 ELSE 1
  <2>1. new = [g EXCEPT !.cursor = row] /\ row \in 1..Rows
    BY <1>0, <1>t, <1>3 DEF Terminal!AfterControl
  <2>2. rows = {g.cursor, g.cursor - 1} \ {0}
    BY <1>t, <1>3 DEF Terminal!DamageOf
  <2>3. rows \subseteq 1..Rows /\ g.cursor \in rows
    BY <1>0, <2>2
  <2> HIDE DEF new, rows, row
  <2>4. /\ new \in [lines : Seq(TextLines), cursor : 1..Rows, offset : Nat]
        /\ new.lines = g.lines /\ new.offset = g.offset
    BY <1>0, <2>1
  <2>5. Formed(new, limit) /\ Kept(g, new, g.cursor)
    BY <2>4 DEF Formed, Terminal!History, Kept
  <2> QED
    BY <2>3, <2>5 DEF new, rows
<1>4. CASE control \in Texts
  <2> DEFINE line == [g.lines[Terminal!Here(g)] EXCEPT !.text = control]
  <2>0. control \notin {"newline", "wrap", "up"}
    BY <1>4, TerminalAssumption
  <2>1. line \in TextLines
    BY <1>0, <1>h, <1>4 DEF TextLines
  <2>2. new = [g EXCEPT !.lines = [g.lines EXCEPT ![Terminal!Here(g)] = line]]
    <3>1. new = [g EXCEPT !.lines[Terminal!Here(g)].text = control]
      BY <1>4, <2>0 DEF Terminal!AfterControl
    <3> QED
      BY <3>1
  <2>3. rows = {g.cursor}
    BY <1>4, <2>0 DEF Terminal!DamageOf
  <2> HIDE DEF new, rows, line
  <2>4. /\ Formed(new, limit) /\ Len(new.lines) = Len(g.lines) /\ new.offset = g.offset
        /\ \A k \in 1..Len(g.lines) : k # Terminal!Here(g) => new.lines[k] = g.lines[k]
    BY <2>1, <2>2, WrittenIs
  <2>5. Kept(g, new, g.cursor)
    BY <2>4 DEF Kept, Terminal!Here
  <2>6. rows \subseteq 1..Rows /\ g.cursor \in rows
    BY <1>0, <2>3
  <2> QED
    BY <2>4, <2>5, <2>6 DEF new, rows
<1> QED
  BY <1>1, <1>2, <1>3, <1>4 DEF Terminal!Controls

\* A line begun is stamped in a list that had none, and so is the one after a newline.
LEMMA StampedIs ==
  ASSUME NEW list \in Seq(Nat), NEW newline \in BOOLEAN, begun \in Seq(Nat)
  PROVE  LET new == Terminal!Stamped(list, newline)
         IN /\ new \in Seq(Nat) /\ new # <<>>
            /\ Len(new) = (IF list = <<>> THEN 1 ELSE Len(list)) + (IF newline THEN 1 ELSE 0)
            /\ \A k \in 1..Len(new) : new[k] = IF k <= Len(list) THEN list[k] ELSE Len(begun) + 1
<1> DEFINE now == Terminal!Now  started == IF list = <<>> THEN <<now>> ELSE list
           new == Terminal!Stamped(list, newline)
<1>0. Len(list) \in Nat /\ now \in Nat /\ now = Len(begun) + 1
  BY LenProperties DEF Terminal!Now
<1>n. new = IF newline THEN Append(started, now) ELSE started
  BY DEF Terminal!Stamped
<1> HIDE DEF now, new
<1>1. /\ started \in Seq(Nat) /\ started # <<>>
      /\ Len(started) = IF list = <<>> THEN 1 ELSE Len(list)
      /\ \A k \in 1..Len(started) : started[k] = IF k <= Len(list) THEN list[k] ELSE now
  <2>1. CASE list = <<>>
    <3> DEFINE one == <<now>>
    <3>1. one \in Seq(Nat) /\ one # <<>> /\ Len(one) = 1 /\ one[1] = now
      BY <1>0
    <3>2. started = one /\ Len(list) = 0
      BY <2>1, EmptySeq
    <3> HIDE DEF one, started
    <3>3. ASSUME NEW k \in 1..Len(started)
          PROVE  started[k] = IF k <= Len(list) THEN list[k] ELSE now
      <4>0. Len(started) = 1 /\ Len(list) = 0
        BY <3>1, <3>2
      <4>1. k = 1 /\ ~(k <= Len(list))
        <5> HIDE DEF started
        <5> QED
          BY <4>0
      <4>2. started[1] = now
        BY <3>1, <3>2
      <4> HIDE DEF started
      <4> QED
        BY <4>1, <4>2
    <3> QED
      BY <2>1, <3>1, <3>2, <3>3
  <2>2. CASE list # <<>>
    BY <1>0, <2>2
  <2> QED
    BY <2>1, <2>2
<1> HIDE DEF started
<1>2. Len(started) \in Nat /\ Len(list) <= Len(started)
  <2>1. list = <<>> => Len(list) = 0
    BY EmptySeq
  <2> QED
    BY <1>0, <1>1, <2>1
<1>3. CASE ~newline
  BY <1>0, <1>1, <1>2, <1>3, <1>n DEF new
<1>4. CASE newline
  <2>1. /\ new \in Seq(Nat) /\ new # <<>> /\ Len(new) = Len(started) + 1
        /\ \A k \in 1..Len(started) : new[k] = started[k]
        /\ new[Len(started) + 1] = now
    <3>1. new = Append(started, now) /\ started \in Seq(Nat) /\ now \in Nat
      BY <1>0, <1>1, <1>4, <1>n
    <3> QED
      BY <3>1, AppendProperties
  <2>2. ASSUME NEW k \in 1..Len(new)
        PROVE  new[k] = IF k <= Len(list) THEN list[k] ELSE now
    <3>1. CASE k \in 1..Len(started)
      BY <1>1, <2>1, <3>1
    <3>2. CASE k = Len(started) + 1
      <4>1. ~(k <= Len(list))
        BY <1>0, <1>2, <3>2
      <4> QED
        BY <2>1, <3>2, <4>1
    <3> QED
      BY <1>2, <2>1, <3>1, <3>2
  <2>3. Len(new) = (IF list = <<>> THEN 1 ELSE Len(list)) + (IF newline THEN 1 ELSE 0)
    BY <1>1, <1>4, <2>1
  <2> QED
    BY <1>0, <2>1, <2>2, <2>3 DEF new
<1> QED
  BY <1>3, <1>4

\* The oldest stamp makes room, and the others are those of the same lines as before.
LEMMA CountIs ==
  ASSUME StampsAreBegun, NEW newline \in BOOLEAN, Terminal!Count(newline)
  PROVE  /\ StampsAreBegun' /\ Len(begun) \in Nat /\ Len(begun') \in Nat
         /\ Len(begun') >= Len(begun) /\ \A k \in 1..Len(begun) : begun'[k] = begun[k]
<1> DEFINE s == Terminal!Stamped(stamps, newline)  b == Terminal!Stamped(begun, newline)
           more == IF newline THEN 1 ELSE 0
<1>0. /\ stamps \in Seq(Nat) /\ begun \in Seq(Nat) /\ current \in Nat /\ first \in Nat \ {0}
      /\ Len(stamps) \in Nat /\ Len(begun) \in Nat /\ Len(stamps) <= Tracked
      /\ (stamps = <<>> <=> begun = <<>>) /\ first + Len(stamps) = Len(begun) + 1
      /\ Tracked \in Nat \ {0}
      /\ \A k \in 1..Len(stamps) : stamps[k] = begun[first + k - 1]
  BY TerminalAssumption, LenProperties DEF StampsAreBegun
<1>1. /\ s \in Seq(Nat) /\ s # <<>> /\ Len(s) = (IF stamps = <<>> THEN 1 ELSE Len(stamps)) + more
      /\ \A k \in 1..Len(s) : s[k] = IF k <= Len(stamps) THEN stamps[k] ELSE Len(begun) + 1
  BY <1>0, StampedIs
<1>2. /\ b \in Seq(Nat) /\ b # <<>> /\ Len(b) = (IF begun = <<>> THEN 1 ELSE Len(begun)) + more
      /\ \A k \in 1..Len(b) : b[k] = IF k <= Len(begun) THEN begun[k] ELSE Len(begun) + 1
  BY <1>0, StampedIs
<1>3. /\ stamps' = IF Len(s) > Tracked THEN Tail(s) ELSE s
      /\ first' = IF Len(s) > Tracked THEN first + 1 ELSE first
      /\ current' = IF newline THEN current + 1 ELSE current
      /\ begun' = b
  BY DEF Terminal!Count
<1>m. more \in {0, 1}
  OBVIOUS
<1> HIDE DEF s, b, more
<1>4. /\ stamps = <<>> => Len(stamps) = 0 /\ Len(begun) = 0 /\ Len(s) = 1 + more /\ Len(b) = 1 + more
      /\ stamps # <<>> => Len(s) = Len(stamps) + more /\ Len(b) = Len(begun) + more
  <2>1. stamps = <<>> => Len(stamps) = 0
    BY EmptySeq
  <2>2. begun = <<>> => Len(begun) = 0
    BY EmptySeq
  <2> QED
    BY <1>0, <1>1, <1>2, <2>1, <2>2
<1>5. /\ Len(s) \in Nat /\ Len(b) \in Nat /\ Len(s) <= Tracked + 1 /\ Len(s) >= Len(stamps)
      /\ Len(b) >= Len(begun) /\ first + Len(s) = Len(b) + 1
  BY <1>0, <1>4, <1>m
<1>6. ASSUME NEW k \in 1..Len(s) PROVE s[k] = b[first + k - 1]
  <2>1. first + k - 1 \in 1..Len(b)
    BY <1>0, <1>5
  <2>2. k <= Len(stamps) <=> first + k - 1 <= Len(begun)
    BY <1>0
  <2>3. k <= Len(stamps) => k \in 1..Len(stamps)
    BY <1>0
  <2>4. b[first + k - 1] = IF first + k - 1 <= Len(begun) THEN begun[first + k - 1]
                           ELSE Len(begun) + 1
    BY <1>2, <2>1
  <2>5. s[k] = IF k <= Len(stamps) THEN stamps[k] ELSE Len(begun) + 1
    BY <1>1
  <2>6. k <= Len(stamps) => stamps[k] = begun[first + k - 1]
    BY <1>0, <2>3
  <2> QED
    BY <2>2, <2>4, <2>5, <2>6
<1>7. current' \in Nat
  BY <1>0, <1>3
<1>8. ASSUME NEW k \in 1..Len(begun) PROVE begun'[k] = begun[k]
  <2>1. k \in 1..Len(b) /\ k <= Len(begun)
    BY <1>0, <1>5
  <2> QED
    BY <1>2, <1>3, <2>1
<1>9. CASE ~(Len(s) > Tracked)
  <2>1. stamps' = s /\ first' = first /\ Len(s) <= Tracked
    BY <1>0, <1>3, <1>5, <1>9
  <2>2. StampsAreBegun'
    BY <1>0, <1>1, <1>2, <1>3, <1>5, <1>6, <1>7, <2>1 DEF StampsAreBegun
  <2> QED
    BY <1>0, <1>3, <1>5, <1>8, <2>2
<1>10. CASE Len(s) > Tracked
  <2> DEFINE t == Tail(s)
  <2>1. /\ t \in Seq(Nat) /\ Len(t) = Len(s) - 1 /\ \A k \in 1..Len(t) : t[k] = s[k + 1]
    BY <1>1, HeadTailProperties
  <2>2. stamps' = t /\ first' = first + 1 /\ Len(s) = Tracked + 1
    BY <1>0, <1>3, <1>5, <1>10
  <2> HIDE DEF t
  <2>3. Len(t) = Tracked /\ (first + 1) + Len(t) = Len(b) + 1 /\ Len(t) # 0
    BY <1>0, <1>5, <2>1, <2>2
  <2>4. t # <<>>
    BY <2>3, EmptySeq
  <2>5. ASSUME NEW k \in 1..Len(t) PROVE t[k] = b[(first + 1) + k - 1]
    <3>1. k + 1 \in 1..Len(s) /\ first + (k + 1) - 1 = (first + 1) + k - 1
      BY <1>0, <1>5, <2>1
    <3> QED
      BY <1>6, <2>1, <3>1
  <2>6. first + 1 \in Nat \ {0} /\ Len(t) <= Tracked
    BY <1>0, <2>3
  <2>7. StampsAreBegun'
    BY <1>2, <1>3, <1>7, <2>1, <2>2, <2>3, <2>4, <2>5, <2>6 DEF StampsAreBegun
  <2> QED
    BY <1>0, <1>3, <1>5, <1>8, <2>7
<1> QED
  BY <1>9, <1>10

LEMMA TerminalStarts == Terminal!Init => TerminalInv
<1> SUFFICES ASSUME Terminal!Init PROVE TerminalInv
  OBVIOUS
<1> USE DEF Terminal!Init
<1>1. GridsFormed
  BY EmptyGridIs, TerminalAssumption DEF GridsFormed
<1>2. StampsAreBegun
  <2>1. <<>> \in Seq(Nat) /\ Len(<<>>) = 0
    BY EmptySeq
  <2> QED
    BY <2>1, TerminalAssumption DEF StampsAreBegun
<1> QED
  BY <1>1, <1>2 DEF TerminalInv, FrameFormed, UndamagedIsShown, FreshIsShown

\* The frame stays what it was, and its numbers are still those of lines begun.
LEMMA FrameStays ==
  ASSUME FrameFormed, frame' = frame, Len(begun) \in Nat, Len(begun') \in Nat,
         Len(begun') >= Len(begun), \A k \in 1..Len(begun) : begun'[k] = begun[k]
  PROVE  FrameFormed'
<1> SUFFICES ASSUME frame # Terminal!None PROVE FrameFormed'
  BY DEF FrameFormed
<1>1. frame \in [lines : [1..Rows -> FrameLines], history : Nat, offset : Nat, cursor : Nat]
  BY DEF FrameFormed
<1>2. ASSUME NEW i \in 1..Rows, frame.lines[i].number # 0
      PROVE  /\ frame.lines[i].number \in 1..Len(begun')
             /\ frame.lines[i].time = begun'[frame.lines[i].number]
  <2>1. /\ frame.lines[i].number \in 1..Len(begun)
        /\ frame.lines[i].time = begun[frame.lines[i].number]
    BY <1>2 DEF FrameFormed
  <2>2. 1..Len(begun) \subseteq 1..Len(begun')
    OBVIOUS
  <2> QED
    BY <2>1, <2>2
<1> QED
  BY <1>1, <1>2 DEF FrameFormed

LEMMA TerminalProcesses ==
  ASSUME TerminalInv, NEW control \in Terminal!Controls, Terminal!Process(control)
  PROVE  TerminalInv'
<1> DEFINE limit == IF saved = Terminal!None THEN Scrollback ELSE 0
           new == Terminal!AfterControl(grid, control, limit)
           rows == Terminal!DamageOf(grid, control)
<1>0. limit \in Nat /\ Formed(grid, limit) /\ Rows \in Nat \ {0}
  BY TerminalAssumption DEF TerminalInv, GridsFormed
<1>1. /\ grid' = new /\ damage' = Terminal!Damaged(damage, rows) /\ fresh' = FALSE
      /\ saved' = saved /\ frame' = frame
  BY DEF Terminal!Process
<1>2. /\ Formed(new, limit)
      /\ \/ rows = Terminal!All
         \/ rows \subseteq 1..Rows /\ grid.cursor \in rows /\ Kept(grid, new, grid.cursor)
  BY <1>0, ControlIs
<1>3. GridsFormed'
  <2>1. damage' = Terminal!All \/ damage' \subseteq 1..Rows
    BY <1>1, <1>2 DEF TerminalInv, GridsFormed, Terminal!Damaged
  <2>2. Formed(grid', IF saved' = Terminal!None THEN Scrollback ELSE 0)
    BY <1>1, <1>2
  <2> HIDE DEF new, rows, limit
  <2> QED
    BY <1>1, <2>1, <2>2 DEF TerminalInv, GridsFormed
<1>4. /\ StampsAreBegun' /\ Len(begun) \in Nat /\ Len(begun') \in Nat
      /\ Len(begun') >= Len(begun) /\ \A k \in 1..Len(begun) : begun'[k] = begun[k]
  <2>1. CASE saved = Terminal!None
    <3>1. Terminal!Count(control = "newline") /\ StampsAreBegun
      BY <2>1 DEF Terminal!Process, TerminalInv
    <3> QED
      BY <3>1, CountIs
  <2>2. CASE saved # Terminal!None
    <3>1. UNCHANGED <<current, first, stamps, begun>> /\ Len(begun) \in Nat
      BY <2>2, LenProperties DEF Terminal!Process, TerminalInv, StampsAreBegun
    <3> QED
      BY <3>1 DEF TerminalInv, StampsAreBegun
  <2> QED
    BY <2>1, <2>2
<1>5. FrameFormed'
  BY <1>1, <1>4, FrameStays DEF TerminalInv
<1>6. UndamagedIsShown'
  <2> SUFFICES ASSUME frame # Terminal!None, frame.history = Terminal!History(new),
                      frame.offset = new.offset, damage' # Terminal!All,
                      NEW i \in 1..Rows,
                      i \notin {row + new.offset : row \in damage'} \cap 1..Rows
               PROVE  /\ frame.lines[i].text = new.lines[Terminal!History(new) - new.offset + i].text
                      /\ frame.lines[i].wrapped =
                           new.lines[Terminal!History(new) - new.offset + i].wrapped
    BY <1>1 DEF UndamagedIsShown, Shows, Terminal!Line, Terminal!ShownDamage, Terminal!History
  <2> HIDE DEF new, rows, limit
  <2>1. /\ damage # Terminal!All /\ rows # Terminal!All /\ damage' = damage \cup rows
    BY <1>1 DEF Terminal!Damaged
  <2>2. grid.cursor \in rows /\ Kept(grid, new, grid.cursor)
    BY <1>2, <2>1
  <2>3. /\ Len(new.lines) = Len(grid.lines) /\ new.offset = grid.offset
        /\ Terminal!History(new) = Terminal!History(grid)
        /\ \A k \in 1..Len(grid.lines) :
             k # Terminal!History(grid) + grid.cursor => new.lines[k] = grid.lines[k]
    BY <2>2 DEF Kept, Terminal!History
  <2>4. i \notin Terminal!ShownDamage
    BY <2>1, <2>3 DEF Terminal!ShownDamage
  <2>5. Shows(i)
    BY <2>1, <2>3, <2>4 DEF TerminalInv, UndamagedIsShown
  <2> DEFINE k == Terminal!History(grid) - grid.offset + i
  <2>6. /\ Len(grid.lines) \in Nat /\ Len(grid.lines) >= Rows /\ grid.offset \in Nat
        /\ grid.offset <= Len(grid.lines) - Rows /\ grid.cursor \in 1..Rows
    BY <1>0, LenProperties DEF Formed, Terminal!History
  <2>7. k \in 1..Len(grid.lines)
    BY <1>0, <2>6 DEF Terminal!History
  <2>8. i # grid.cursor + grid.offset
    <3>1. grid.cursor \in damage'
      BY <2>1, <2>2
    <3> QED
      BY <2>3, <3>1
  <2>9. k # Terminal!History(grid) + grid.cursor
    BY <1>0, <2>6, <2>8 DEF Terminal!History
  <2>10. new.lines[k] = grid.lines[k]
    BY <2>3, <2>7, <2>9
  <2>11. /\ frame.lines[i].text = grid.lines[k].text
         /\ frame.lines[i].wrapped = grid.lines[k].wrapped
    BY <2>5 DEF Shows, Terminal!Line
  <2>12. Terminal!History(new) - new.offset + i = k
    BY <2>3
  <2> HIDE DEF k
  <2> QED
    BY <2>10, <2>11, <2>12
<1> QED
  BY <1>1, <1>3, <1>4, <1>5, <1>6 DEF TerminalInv, FreshIsShown

LEMMA TerminalSwitches ==
  ASSUME TerminalInv,
         Terminal!SwitchScreen \/ \E offset \in 0..Scrollback : Terminal!ScrollTo(offset)
  PROVE  TerminalInv'
<1>1. /\ damage' = Terminal!All /\ fresh' = FALSE
      /\ UNCHANGED <<current, first, stamps, frame, begun>>
  BY DEF Terminal!SwitchScreen, Terminal!ScrollTo
<1>2. GridsFormed'
  <2>1. CASE Terminal!SwitchScreen
    <3>1. 0 \in Nat /\ Scrollback \in Nat
      BY TerminalAssumption
    <3>2. CASE saved = Terminal!None
      <4>1. saved' = grid /\ grid' = Terminal!EmptyGrid /\ Formed(grid, Scrollback)
        BY <2>1, <3>2 DEF Terminal!SwitchScreen, TerminalInv, GridsFormed
      <4>2. grid # Terminal!None /\ Formed(Terminal!EmptyGrid, 0)
        BY <3>1, <4>1, GridsAre, EmptyGridIs
      <4> QED
        BY <1>1, <4>1, <4>2 DEF GridsFormed
    <3>3. CASE saved # Terminal!None
      <4>1. saved' = Terminal!None /\ grid' = saved /\ Formed(saved, Scrollback)
        BY <2>1, <3>3 DEF Terminal!SwitchScreen, TerminalInv, GridsFormed
      <4> QED
        BY <1>1, <4>1 DEF GridsFormed
    <3> QED
      BY <3>2, <3>3
  <2>2. ASSUME NEW offset \in 0..Scrollback, Terminal!ScrollTo(offset) PROVE GridsFormed'
    <3> DEFINE to == Terminal!Smaller(offset, Terminal!History(grid))
               limit == IF saved = Terminal!None THEN Scrollback ELSE 0
    <3>1. grid' = [grid EXCEPT !.offset = to] /\ saved' = saved
      BY <2>2 DEF Terminal!ScrollTo
    <3>2. Formed(grid, limit)
      BY DEF TerminalInv, GridsFormed
    <3>3. /\ grid \in [lines : Seq(TextLines), cursor : 1..Rows, offset : Nat]
          /\ Terminal!History(grid) \in Nat /\ Scrollback \in Nat
          /\ Len(grid.lines) \in Rows..(Rows + limit)
      <4>1. Rows \in Nat /\ Len(grid.lines) \in Nat /\ Scrollback \in Nat
        BY <3>2, TerminalAssumption, LenProperties DEF Formed
      <4>2. Len(grid.lines) \in Rows..(Rows + limit) /\ limit \in Nat
        BY <3>2, <4>1 DEF Formed
      <4> HIDE DEF limit
      <4> QED
        BY <3>2, <4>1, <4>2 DEF Formed, Terminal!History
    <3>4. to \in Nat /\ to <= Terminal!History(grid)
      BY <3>3 DEF Terminal!Smaller
    <3> HIDE DEF to, limit
    <3>5. /\ grid' \in [lines : Seq(TextLines), cursor : 1..Rows, offset : Nat]
          /\ grid'.lines = grid.lines /\ grid'.offset = to
      BY <3>1, <3>3, <3>4
    <3>6. Formed(grid', limit)
      BY <3>3, <3>4, <3>5 DEF Formed, Terminal!History
    <3> QED
      BY <1>1, <3>1, <3>6 DEF TerminalInv, GridsFormed, limit
  <2> QED
    BY <2>1, <2>2
<1>3. StampsAreBegun' /\ FrameFormed'
  BY <1>1 DEF TerminalInv, StampsAreBegun, FrameFormed
<1> QED
  BY <1>1, <1>2, <1>3 DEF TerminalInv, UndamagedIsShown, FreshIsShown

\* A line made for a frame is that of the screen, with the time it was begun.
LEMMA LineIs ==
  ASSUME TerminalInv, NEW i \in 1..Rows
  PROVE  /\ Terminal!Line(i) \in FrameLines
         /\ Terminal!Line(i).number # 0 =>
              /\ Terminal!Line(i).number \in 1..Len(begun)
              /\ Terminal!Line(i).time = begun[Terminal!Line(i).number]
<1> DEFINE number == current + i - grid.offset - grid.cursor
           k == number - first + 1
           tracked == saved = Terminal!None /\ number > 0 /\ k \in DOMAIN stamps
           line == grid.lines[Terminal!History(grid) - grid.offset + i]
           n == IF tracked THEN number ELSE 0
           t == IF tracked THEN stamps[k] ELSE 0
<1>0. /\ grid.lines \in Seq(TextLines) /\ Len(grid.lines) \in Nat /\ Len(grid.lines) >= Rows
      /\ grid.offset \in Nat /\ grid.offset <= Len(grid.lines) - Rows /\ grid.cursor \in 1..Rows
      /\ Rows \in Nat \ {0}
  <2>1. Scrollback \in Nat /\ 0 \in Nat /\ Rows \in Nat \ {0}
    BY TerminalAssumption
  <2>2. PICK limit \in {Scrollback, 0} : Formed(grid, limit)
    BY DEF TerminalInv, GridsFormed
  <2> QED
    BY <2>1, <2>2, LenProperties DEF Formed, Terminal!History
<1>1. /\ stamps \in Seq(Nat) /\ current \in Nat /\ first \in Nat \ {0}
      /\ first + Len(stamps) = Len(begun) + 1 /\ DOMAIN stamps = 1..Len(stamps)
      /\ Len(stamps) \in Nat /\ Len(begun) \in Nat
      /\ \A m \in 1..Len(stamps) : stamps[m] = begun[first + m - 1] /\ stamps[m] \in Nat
  BY LenProperties, ElementOfSeq DEF TerminalInv, StampsAreBegun
<1>2. line \in TextLines
  <2>1. Terminal!History(grid) - grid.offset + i \in 1..Len(grid.lines)
    BY <1>0 DEF Terminal!History
  <2> QED
    BY <1>0, <2>1, ElementOfSeq
<1>3. Terminal!Line(i) = [text |-> line.text, wrapped |-> line.wrapped, number |-> n, time |-> t]
  BY DEF Terminal!Line
<1>4. number \in Int /\ k \in Int
  BY <1>0, <1>1
<1>5. tracked => /\ number \in Nat /\ number \in 1..Len(begun) /\ stamps[k] \in Nat
                 /\ stamps[k] = begun[number]
  <2> SUFFICES ASSUME tracked
               PROVE  /\ number \in Nat /\ number \in 1..Len(begun) /\ stamps[k] \in Nat
                      /\ stamps[k] = begun[number]
    OBVIOUS
  <2>1. number > 0 /\ k \in 1..Len(stamps) /\ number = first + k - 1
    BY <1>1, <1>4
  <2>2. stamps[k] = begun[first + k - 1] /\ stamps[k] \in Nat
    BY <1>1, <2>1
  <2> HIDE DEF k
  <2>3. number \in Nat /\ number <= Len(begun)
    <3> HIDE DEF number
    <3> QED
      BY <1>1, <1>4, <2>1
  <2> HIDE DEF number
  <2> QED
    BY <1>1, <2>1, <2>2, <2>3
<1> HIDE DEF number, k, line, tracked
<1>6. n \in Nat /\ t \in Nat /\ (n # 0 => n \in 1..Len(begun) /\ t = begun[n])
  BY <1>5
<1> HIDE DEF n, t
<1> QED
  BY <1>2, <1>3, <1>6 DEF FrameLines, TextLines

LEMMA TerminalShows ==
  ASSUME TerminalInv, Terminal!MakeFrame
  PROVE  TerminalInv'
<1> DEFINE made == [i \in 1..Rows |-> IF i \in Terminal!Changed THEN Terminal!Line(i)
                                      ELSE frame.lines[i]]
<1>1. /\ frame' = [lines |-> made, history |-> Terminal!History(grid), offset |-> grid.offset,
                   cursor |-> Terminal!Cursor]
      /\ damage' = {} /\ fresh' = TRUE
      /\ UNCHANGED <<grid, saved, current, first, stamps, begun>>
  BY DEF Terminal!MakeFrame
<1>2. ASSUME NEW i \in 1..Rows, i \notin Terminal!Changed
      PROVE  frame # Terminal!None /\ Shows(i)
  <2>1. ~Terminal!RebuildAll /\ i \notin Terminal!ShownDamage
    BY <1>2 DEF Terminal!Changed, Terminal!RebuildAll
  <2> QED
    BY <2>1 DEF TerminalInv, UndamagedIsShown, Terminal!RebuildAll
<1>3. ASSUME NEW i \in 1..Rows
      PROVE  /\ made[i] \in FrameLines
             /\ made[i].number # 0 => /\ made[i].number \in 1..Len(begun)
                                      /\ made[i].time = begun[made[i].number]
             /\ made[i].text = Terminal!Line(i).text
             /\ made[i].wrapped = Terminal!Line(i).wrapped
  <2>1. CASE i \in Terminal!Changed
    <3>1. made[i] = Terminal!Line(i)
      BY <2>1
    <3> QED
      BY <3>1, LineIs
  <2>2. CASE i \notin Terminal!Changed
    <3>1. made[i] = frame.lines[i] /\ frame # Terminal!None /\ Shows(i)
      BY <1>2, <2>2
    <3> HIDE DEF made
    <3> QED
      BY <3>1 DEF TerminalInv, FrameFormed, Shows
  <2> QED
    BY <2>1, <2>2
<1>4. made \in [1..Rows -> FrameLines]
  BY <1>3
<1> HIDE DEF made
<1>5. Terminal!History(grid) \in Nat /\ grid.offset \in Nat /\ Terminal!Cursor \in Nat
  <2>1. Scrollback \in Nat /\ 0 \in Nat /\ Rows \in Nat \ {0}
    BY TerminalAssumption
  <2>2. PICK limit \in {Scrollback, 0} : Formed(grid, limit)
    BY DEF TerminalInv, GridsFormed
  <2>3. Len(grid.lines) \in Nat
    BY <2>2, LenProperties DEF Formed
  <2> QED
    BY <2>1, <2>2, <2>3 DEF Formed, Terminal!History, Terminal!Cursor
<1>6. /\ frame' \in [lines : [1..Rows -> FrameLines], history : Nat, offset : Nat, cursor : Nat]
      /\ frame'.lines = made /\ frame'.cursor = Terminal!Cursor
  BY <1>1, <1>4, <1>5
<1>7. frame' # Terminal!None
  <2>1. "lines" \in DOMAIN frame' /\ DOMAIN <<>> = {}
    BY <1>6
  <2> QED
    BY <2>1 DEF Terminal!None
<1>8. GridsFormed' /\ StampsAreBegun'
  BY <1>1 DEF TerminalInv, GridsFormed, StampsAreBegun
<1>9. FrameFormed'
  BY <1>1, <1>3, <1>6 DEF FrameFormed
<1>10. \A i \in 1..Rows : Shows(i)'
  <2>1. \A i \in 1..Rows : Terminal!Line(i)' = Terminal!Line(i)
    BY <1>1 DEF Terminal!Line, Terminal!History
  <2> QED
    BY <1>3, <1>6, <2>1 DEF Shows
<1>11. Terminal!Cursor' = Terminal!Cursor
  BY <1>1 DEF Terminal!Cursor
<1> QED
  BY <1>6, <1>7, <1>8, <1>9, <1>10, <1>11 DEF TerminalInv, UndamagedIsShown, FreshIsShown

LEMMA TerminalKept == TerminalInv /\ [Terminal!Next]_terminalState => TerminalInv'
<1> SUFFICES ASSUME TerminalInv, [Terminal!Next]_terminalState PROVE TerminalInv'
  OBVIOUS
<1>1. CASE UNCHANGED terminalState
  <2> USE <1>1 DEF terminalState
  <2>1. GridsFormed' /\ StampsAreBegun' /\ FrameFormed'
    BY DEF TerminalInv, GridsFormed, StampsAreBegun, FrameFormed
  <2>2. /\ Terminal!History(grid)' = Terminal!History(grid)
        /\ Terminal!ShownDamage' = Terminal!ShownDamage /\ Terminal!Cursor' = Terminal!Cursor
        /\ \A i : Shows(i)' <=> Shows(i)
    BY DEF Terminal!History, Terminal!ShownDamage, Terminal!Cursor, Shows, Terminal!Line
  <2> QED
    BY <2>1, <2>2 DEF TerminalInv, UndamagedIsShown, FreshIsShown
<1> QED
  BY <1>1, TerminalProcesses, TerminalSwitches, TerminalShows DEF Terminal!Next

LEMMA TerminalGoal ==
  TerminalInv => Terminal!TypeOK /\ Terminal!FrameIsTheScreen /\ Terminal!PagesMakeTheHistory
<1> SUFFICES ASSUME TerminalInv
             PROVE  Terminal!TypeOK /\ Terminal!FrameIsTheScreen /\ Terminal!PagesMakeTheHistory
  OBVIOUS
<1>0. Scrollback \in Nat /\ Rows \in Nat \ {0} /\ 0 \in Nat
  BY TerminalAssumption
<1>1. PICK limit \in {Scrollback, 0} : Formed(grid, limit)
  BY DEF TerminalInv, GridsFormed
<1>2. Terminal!TypeOK
  <2>1. Len(grid.lines) \in Rows..(Rows + limit) /\ Len(grid.lines) \in Nat
    BY <1>1, LenProperties DEF Formed
  <2>2. Len(grid.lines) \in Rows..(Rows + Scrollback)
    BY <1>0, <2>1
  <2>3. grid.cursor \in 1..Rows /\ grid.offset \in 0..Terminal!History(grid)
    BY <1>0, <1>1, <2>1 DEF Formed, Terminal!History
  <2>4. ASSUME frame # Terminal!None PROVE Len(frame.lines) = Rows
    <3>1. frame.lines \in [1..Rows -> FrameLines]
      BY <2>4 DEF TerminalInv, FrameFormed
    <3>2. \E f : f = frame.lines
      OBVIOUS
    <3>3. PICK f : f = frame.lines
      BY <3>2
    <3>4. f \in [1..Rows -> FrameLines]
      BY <3>1, <3>3
    <3>5. Len(f) = Rows
      BY <1>0, <3>4
    <3> QED
      BY <3>3, <3>5
  <2>5. Len(stamps) <= Tracked
    BY DEF TerminalInv, StampsAreBegun
  <2> QED
    BY <2>2, <2>3, <2>4, <2>5 DEF Terminal!TypeOK
<1>3. Terminal!FrameIsTheScreen
  BY DEF TerminalInv, FreshIsShown, FrameFormed, Shows, Terminal!FrameIsTheScreen
<1>4. Terminal!PagesMakeTheHistory
  BY <1>0, <1>1, PagesAreTheHistory DEF Formed
<1> QED
  BY <1>2, <1>3, <1>4

LEMMA TerminalHolds == Spec => []TerminalInv
<1>1. Init => TerminalInv
  BY TerminalStarts DEF Init
<1>2. TerminalInv /\ [Next]_all => TerminalInv'
  BY TerminalKept, PartSteps
<1> QED
  BY <1>1, <1>2, PTL DEF Spec

-----------------------------------------------------------------------------
(* At rest the tab bar shows the workspaces of the data context and the    *)
(* sidebar the profiles that are saved, whatever arrived in which order:   *)
(* for any number of workspaces, profiles and refreshes under way          *)
(* (gui/workspace/mod.rs, gui/sidebar_session/core.rs).                    *)
THEOREM WindowIsTrue == Spec => []WindowShowsTheContext
<1>1. BarInv /\ SidebarInv => WindowShowsTheContext
  BY BarGoal, SidebarGoal DEF WindowShowsTheContext
<1> QED
  BY <1>1, BarHolds, SidebarHolds, PTL

(* A drag moves the dragged tab only, beside the one the pointer is over,  *)
(* also when the event reaches a handler drawn before the last reorder,    *)
(* and the others are animated from where they were: for a list of any     *)
(* length (component/draggable_list.rs).                                   *)
THEOREM DragMovesTheDragged == Spec => DragFollowsThePointer
<1>1. BarInv => \A index \in DOMAIN drawn, before \in BOOLEAN :
        Bar!DragMove(index, before) =>
          LET place == Bar!Index(items', drawn[index])
          IN /\ Bar!Without(items', drag) = Bar!Without(items, drag)
             /\ Bar!Index(items', drag) = IF before THEN place - 1 ELSE place + 1
             /\ \A i \in DOMAIN items' :
                  items'[i] # drag => Bar!Index(items, items'[i]) = i + Bar!Displacement(i)'
  BY DraggedIs
<1> QED
  BY <1>1, BarHolds, PTL DEF DragFollowsThePointer, Bar!DragFollowsThePointer

(* A frame is the screen, though most of it is taken from the one before,  *)
(* and the pages an agent reads make the history: for a screen of any      *)
(* size, a history of any length and whatever is written                   *)
(* (data_context/terminal/buffer.rs).                                      *)
THEOREM TerminalShowsTheScreen == Spec => []TerminalIsShown
<1>1. TerminalInv => TerminalIsShown
  BY TerminalGoal DEF TerminalIsShown
<1> QED
  BY <1>1, TerminalHolds, PTL
-----------------------------------------------------------------------------
(* ThemePalette                                                            *)

\* A lightness, and themes with any accent, any colours of the user's own and a
\* wallpaper of any opacity.
Light == {l \in Int : 0 <= l /\ l <= 1000}
AnyLook ==
  [theme : Palette!Themes, accent : Light, font : Light \cup {-1}, background : Light \cup {-1},
   hover : Light \cup {-1}, selected : Light \cup {-1}, wallpaper : BOOLEAN, opacity : Nat]

LEMMA Tones ==
  /\ \A l, d \in Int : /\ Palette!Shifted(l, d) \in Light
                       /\ 20 <= Palette!Shifted(l, d) /\ Palette!Shifted(l, d) <= 980
                       /\ 20 <= l + d /\ l + d <= 980 => Palette!Shifted(l, d) = l + d
  /\ \A a, b \in Int : Palette!Distance(a, b) = IF a < b THEN b - a ELSE a - b
BY DEF Palette!Shifted, Palette!Within, Palette!Distance, Light

\* The built-in themes are light, their text is dark.
LEMMA BuiltInTones ==
  ASSUME NEW theme \in Palette!Themes \ {"Custom"}
  PROVE  LET tokens == Palette!BuiltIn[theme] IN
         /\ tokens.background \in Light /\ tokens.background >= 800
         /\ tokens.foreground \in Light /\ tokens.foreground <= 400
         /\ tokens.accent \in Light /\ tokens.soft \in Light
<1>1. /\ Palette!Lightness(255, 58) = 613 /\ Palette!Lightness(255, 204) = 900
      /\ Palette!Lightness(255, 135) = 764 /\ Palette!Lightness(138, 0) = 270
      /\ Palette!Lightness(255, 117) = 729 /\ Palette!Lightness(252, 214) = 913
      /\ Palette!Lightness(164, 0) = 321 /\ Palette!Lightness(255, 54) = 605
      /\ Palette!Lightness(250, 195) = 872 /\ Palette!Lightness(136, 0) = 266
      /\ Palette!Lightness(255, 64) = 625 /\ Palette!Lightness(251, 198) = 880
      /\ Palette!Lightness(140, 0) = 274 /\ Palette!Lightness(209, 34) = 476
      /\ Palette!Lightness(255, 234) = 958 /\ Palette!Lightness(93, 22) = 225
  BY DEF Palette!Lightness
<1>2. \A accent, soft, border, foreground, muted :
        LET tokens == Palette!Tokens(accent, soft, border, foreground, muted) IN
        /\ tokens.accent = accent /\ tokens.soft = soft /\ tokens.background = soft
        /\ tokens.foreground = foreground
  BY DEF Palette!Tokens
<1> DEFINE Fits(tokens) == /\ tokens.background \in Light /\ tokens.background >= 800
                           /\ tokens.foreground \in Light /\ tokens.foreground <= 400
                           /\ tokens.accent \in Light /\ tokens.soft \in Light
<1>3. \A n \in {613, 900, 764, 270, 729, 913, 321, 605, 872, 266, 625, 880, 274, 476, 958, 225, 1000} :
        n \in Light
  BY DEF Light
<1>4. Fits(Palette!BuiltIn["RoseBerry"])
  <2>1. Palette!BuiltIn["RoseBerry"] =
          Palette!Tokens(613, 900, 764, 270, Palette!Lightness(219, 0))
    BY <1>1 DEF Palette!BuiltIn
  <2> QED
    BY <1>2, <1>3, <2>1
<1>5. Fits(Palette!BuiltIn["LightBlue"])
  <2>1. Palette!BuiltIn["LightBlue"] = Palette!Tokens(729, 913, Palette!Lightness(252, 169), 321, Palette!Lightness(255, 5))
    BY <1>1 DEF Palette!BuiltIn
  <2> QED
    BY <1>2, <1>3, <2>1
<1>6. Fits(Palette!BuiltIn["LightOrange"])
  <2>1. Palette!BuiltIn["LightOrange"] = Palette!Tokens(729, 913, Palette!Lightness(252, 169), 321, Palette!Lightness(255, 5))
    BY <1>1 DEF Palette!BuiltIn
  <2> QED
    BY <1>2, <1>3, <2>1
<1>7. Fits(Palette!BuiltIn["LightPurple"])
  <2>1. Palette!BuiltIn["LightPurple"] = Palette!Tokens(605, 872, Palette!Lightness(251, 130), 266, Palette!Lightness(216, 0))
    BY <1>1 DEF Palette!BuiltIn
  <2> QED
    BY <1>2, <1>3, <2>1
<1>8. Fits(Palette!BuiltIn["LightPink"])
  <2>1. Palette!BuiltIn["LightPink"] = Palette!Tokens(625, 880, Palette!Lightness(251, 136), 274, Palette!Lightness(223, 0))
    BY <1>1 DEF Palette!BuiltIn
  <2> QED
    BY <1>2, <1>3, <2>1
<1>9. Fits(Palette!BuiltIn["DefaultTheme"])
  <2>1. LET tokens == Palette!BuiltIn["DefaultTheme"] IN
        /\ tokens.accent = 476 /\ tokens.soft = 958 /\ tokens.background = 1000
        /\ tokens.foreground = 225
    BY <1>1 DEF Palette!BuiltIn
  <2> QED
    BY <1>3, <2>1
<1> HIDE DEF Fits
<1>10. Fits(Palette!BuiltIn[theme])
  BY <1>4, <1>5, <1>6, <1>7, <1>8, <1>9 DEF Palette!Themes
<1> QED
  BY <1>10 DEF Fits

\* The palette of a look.
LEMMA PaletteTones ==
  ASSUME NEW look \in AnyLook
  PROVE  LET palette == Palette!PaletteOf(look) IN
         /\ palette.background \in Light /\ palette.accent \in Light /\ palette.soft \in Light
         /\ palette.foreground \in Light
         /\ look.theme # "Custom" => palette.background >= 800 /\ palette.foreground <= 400
<1>1. CASE look.theme = "Custom"
  <2>1. Palette!PaletteOf(look) = Palette!CustomPalette(look.accent) /\ look.accent \in Light
    BY <1>1 DEF Palette!PaletteOf, AnyLook
  <2>2. \A a \in Light : LET palette == Palette!CustomPalette(a) IN
          /\ palette.background = a /\ palette.accent = a
          /\ palette.soft = Palette!Shifted(a, IF Palette!Dark(a) THEN 110 ELSE -80)
          /\ palette.foreground = Palette!DefaultForeground(Palette!Dark(a))
    BY DEF Palette!CustomPalette
  <2>3. \A a \in Light : /\ Palette!Shifted(a, IF Palette!Dark(a) THEN 110 ELSE -80) \in Light
                         /\ Palette!DefaultForeground(Palette!Dark(a)) \in Light
    <3>1. \A a \in Light : a \in Int /\ (IF Palette!Dark(a) THEN 110 ELSE -80) \in Int
      BY DEF Light
    <3>2. \A a \in Light : Palette!DefaultForeground(Palette!Dark(a)) \in Light
      BY DEF Palette!DefaultForeground, Light
    <3>3. \A a \in Light : \A d \in Int : Palette!Shifted(a, d) \in Light
      BY <3>1, Tones
    <3> QED
      BY <3>1, <3>2, <3>3
  <2> QED
    BY <1>1, <2>1, <2>2, <2>3
<1>2. CASE look.theme # "Custom"
  <2>1. Palette!PaletteOf(look) = Palette!BuiltIn[look.theme]
    BY <1>2 DEF Palette!PaletteOf
  <2>2. look.theme \in Palette!Themes \ {"Custom"}
    BY <1>2 DEF AnyLook
  <2> QED
    BY <2>1, <2>2, BuiltInTones
<1> QED
  BY <1>1, <1>2

\* What apply_theme writes, in terms of the palette.
LEMMA AppliedIs ==
  ASSUME NEW look \in AnyLook
  PROVE  LET applied == Palette!Applied(look)
             palette == Palette!PaletteOf(look)
             background == Palette!Or(look.background, palette.background)
             selected == Palette!Or(look.selected,
                                    Palette!DerivedSelected(background, palette.accent))
         IN /\ applied.background = background
            /\ applied.foreground = Palette!ForegroundOn(look, background)
            /\ ~Palette!SoftDefault(look) =>
                 /\ applied.selected = selected
                 /\ applied.hover = Palette!Or(look.hover, Palette!DerivedHover(palette.soft, selected))
            /\ Palette!SoftDefault(look) => applied.selected = Palette!Lightness(255, 182)
<1>1. CASE ~Palette!SoftDefault(look)
  BY <1>1 DEF Palette!Applied
<1>2. CASE Palette!SoftDefault(look)
  BY <1>2 DEF Palette!Applied
<1> QED
  BY <1>1, <1>2

LEMMA OrIs ==
  ASSUME NEW override \in Light \cup {-1}, NEW derived \in Light
  PROVE  /\ Palette!Or(override, derived) \in Light
         /\ override = -1 => Palette!Or(override, derived) = derived
         /\ override # -1 => Palette!Or(override, derived) = override
BY DEF Palette!Or, Palette!Unset

\* What is derived stands out from what it is derived from.
LEMMA SelectedStandsOut ==
  ASSUME NEW background \in Light, NEW accent \in Light, NEW soft \in Light
  PROVE  LET selected == Palette!DerivedSelected(background, accent) IN
         /\ selected \in Light /\ selected >= 180
         /\ Palette!DerivedHover(soft, selected) \in Light
         /\ Palette!Distance(Palette!DerivedHover(soft, selected), selected) >= 80
<1> DEFINE selected == Palette!DerivedSelected(background, accent)
<1>1. selected \in Light /\ selected >= 180
  BY DEF Palette!DerivedSelected, Palette!Dark, Palette!Shifted, Palette!Within, Light
<1> HIDE DEF selected
<1>2. /\ Palette!DerivedHover(soft, selected) \in Light
      /\ Palette!Distance(Palette!DerivedHover(soft, selected), selected) >= 80
  BY <1>1 DEF Palette!DerivedHover, Palette!Shifted, Palette!Within, Palette!Distance, Light
<1> QED
  BY <1>1, <1>2 DEF selected

\* Text can be read on any background, what is hovered is told from what is selected,
\* and a selection in the terminal stands out: for any accent, any colours of the
\* user's own and any wallpaper (component/theme).
LEMMA ThemesAreReadable == \A look \in AnyLook : Readable(look)
<1> SUFFICES ASSUME NEW look \in AnyLook PROVE Readable(look)
  OBVIOUS
<1> DEFINE applied == Palette!Applied(look)
           palette == Palette!PaletteOf(look)
           background == Palette!Or(look.background, palette.background)
           derived == Palette!DerivedSelected(background, palette.accent)
           selected == Palette!Or(look.selected, derived)
           back == Palette!WorkspaceBackground(look, applied)
           inTerminal == Palette!TerminalSelection(look, applied)
<1>1. /\ palette.background \in Light /\ palette.accent \in Light /\ palette.soft \in Light
      /\ palette.foreground \in Light
      /\ look.theme # "Custom" => palette.background >= 800 /\ palette.foreground <= 400
  BY PaletteTones
<1>2. /\ look.background \in Light \cup {-1} /\ look.hover \in Light \cup {-1}
      /\ look.selected \in Light \cup {-1} /\ look.font \in Light \cup {-1}
      /\ look.theme \in Palette!Themes
  BY DEF AnyLook
<1>3. /\ applied.background = background
      /\ applied.foreground = Palette!ForegroundOn(look, background)
      /\ ~Palette!SoftDefault(look) =>
           /\ applied.selected = selected
           /\ applied.hover = Palette!Or(look.hover, Palette!DerivedHover(palette.soft, selected))
      /\ Palette!SoftDefault(look) => applied.selected = Palette!Lightness(255, 182)
  BY AppliedIs
<1> HIDE DEF applied, palette
<1>4. /\ background \in Light /\ (look.background = -1 => background = palette.background)
  BY <1>1, <1>2, OrIs
<1> HIDE DEF background
<1>5. /\ derived \in Light /\ derived >= 180 /\ Palette!DerivedHover(palette.soft, derived) \in Light
      /\ Palette!Distance(Palette!DerivedHover(palette.soft, derived), derived) >= 80
  BY <1>1, <1>4, SelectedStandsOut
<1> HIDE DEF derived
<1>6. selected \in Light /\ (look.selected = -1 => selected = derived)
  BY <1>2, <1>5, OrIs
<1> HIDE DEF selected
<1>7. look.font = Palette!Unset =>
        Palette!Distance(applied.foreground, applied.background) >= 400
  <2> SUFFICES ASSUME look.font = -1
               PROVE  Palette!Distance(Palette!ForegroundOn(look, background), background) >= 400
    BY <1>3 DEF Palette!Unset
  <2>1. CASE look.theme = "Custom" \/ look.background # -1
    <3>1. Palette!ForegroundOn(look, background) =
            Palette!DefaultForeground(Palette!Dark(background))
      BY <2>1 DEF Palette!ForegroundOn, Palette!Or, Palette!Unset
    <3> QED
      BY <1>4, <3>1 DEF Palette!DefaultForeground, Palette!Dark, Palette!Distance, Light
  <2>2. CASE look.theme # "Custom" /\ look.background = -1
    <3>1. Palette!ForegroundOn(look, background) = palette.foreground
      BY <2>2 DEF Palette!ForegroundOn, Palette!Or, Palette!Unset, palette
    <3> QED
      BY <1>1, <1>4, <2>2, <3>1 DEF Palette!Distance, Light
  <2> QED
    BY <2>1, <2>2
<1>8. look.hover = Palette!Unset /\ look.selected = Palette!Unset /\ ~Palette!SoftDefault(look) =>
        Palette!Distance(applied.hover, applied.selected) >= 80
  <2> SUFFICES ASSUME look.hover = -1, look.selected = -1, ~Palette!SoftDefault(look)
               PROVE  Palette!Distance(applied.hover, applied.selected) >= 80
    BY DEF Palette!Unset
  <2>1. applied.selected = derived
    BY <1>3, <1>6
  <2>2. applied.hover = Palette!DerivedHover(palette.soft, derived)
    BY <1>3, <1>5, <1>6, OrIs
  <2> QED
    BY <1>5, <2>1, <2>2
<1>9. Palette!Distance(inTerminal, back) >= 120
  <2>1. applied.selected \in Light
    <3>1. Palette!Lightness(255, 182) \in Light
      BY DEF Palette!Lightness, Light
    <3> QED
      BY <1>3, <1>6, <3>1
  <2>2. back \in Light
    BY <1>3, <1>4 DEF Palette!WorkspaceBackground, Light
  <2> DEFINE chosen == Palette!Or(look.selected, applied.selected)
  <2>3. chosen \in Light
    BY <1>2, <2>1, OrIs
  <2>4. inTerminal = IF Palette!Distance(chosen, back) >= 120 THEN chosen
                     ELSE Palette!Within(80, 920, back + IF back >= 500 THEN -140 ELSE 140)
    BY DEF Palette!TerminalSelection
  <2> HIDE DEF chosen, back, inTerminal
  <2> QED
    BY <2>2, <2>3, <2>4 DEF Palette!Distance, Palette!Within, Light
<1> QED
  BY <1>7, <1>8, <1>9 DEF Readable, applied
-----------------------------------------------------------------------------
(* TerminalSelection: clicks                                               *)

\* A line of any characters, of any width.
Glyphs == [width : Nat, style : Nat]
AnyLine == [chars : Seq(Glyphs), wrapped : BOOLEAN]

\* A set of numbers that is not empty has a smallest one.
LEMMA SmallestIs ==
  ASSUME NEW S \in SUBSET Nat, S # {}
  PROVE  \E n \in S : \A m \in S : n <= m
<1>1. \E n \in S : \A m \in S : <<m, n>> \notin OpToRel(<, Nat)
  BY WFMin, NatLessThanWellFounded
<1>2. \A m, n \in Nat : m < n => <<m, n>> \in OpToRel(<, Nat)
  BY DEF OpToRel
<1>3. \A m, n \in Nat : ~(m < n) => n <= m
  OBVIOUS
<1> QED
  BY <1>1, <1>2, <1>3

\* A character starts where the one before it ends.
LEMMA ColumnsAre ==
  ASSUME NEW line \in AnyLine
  PROVE  /\ Len(line.chars) \in Nat /\ DOMAIN line.chars = 1..Len(line.chars)
         /\ \A i \in 1..Len(line.chars) : line.chars[i].width \in Nat
         /\ Selection!Columns(line)[1] = 0
         /\ \A i \in 1..Len(line.chars) :
              Selection!Columns(line)[i + 1] = Selection!Columns(line)[i] + line.chars[i].width
         /\ \A i \in 1..(Len(line.chars) + 1) : Selection!Columns(line)[i] \in Nat
<1> DEFINE w == [i \in 1..Len(line.chars) |-> line.chars[i].width]
           L == Len(line.chars)
           Made(k) == \E f : f = [i \in 1..(k + 1) |-> IF i = 1 THEN 0 ELSE f[i - 1] + w[i - 1]]
           T == {k \in Nat : k <= L => Made(k)}
<1>0. /\ L \in Nat /\ DOMAIN line.chars = 1..L
      /\ \A i \in 1..L : line.chars[i].width \in Nat /\ w[i] = line.chars[i].width
  <2>1. line.chars \in Seq(Glyphs)
    BY DEF AnyLine
  <2>2. L \in Nat /\ DOMAIN line.chars = 1..L /\ \A i \in 1..L : line.chars[i] \in Glyphs
    BY <2>1, LenProperties, ElementOfSeq
  <2>3. \A i \in 1..L : line.chars[i].width \in Nat
    BY <2>2 DEF Glyphs
  <2> QED
    BY <2>2, <2>3
<1>1. 0 \in T
  <2>1. \E f : f = [i \in 1..(0 + 1) |-> IF i = 1 THEN 0 ELSE f[i - 1] + w[i - 1]]
    <3> DEFINE f == [i \in 1..(0 + 1) |-> 0]
    <3>1. f = [i \in 1..(0 + 1) |-> IF i = 1 THEN 0 ELSE f[i - 1] + w[i - 1]]
      OBVIOUS
    <3> QED
      BY <3>1
  <2> QED
    BY <2>1
<1>2. ASSUME NEW k \in Nat, k \in T PROVE k + 1 \in T
  <2> SUFFICES ASSUME k + 1 <= L PROVE Made(k + 1)
    OBVIOUS
  <2>0. k <= L
    BY <1>0
  <2>1. PICK f : f = [i \in 1..(k + 1) |-> IF i = 1 THEN 0 ELSE f[i - 1] + w[i - 1]]
    BY <1>2, <2>0
  <2> HIDE DEF w
  <2> DEFINE g == [i \in 1..(k + 1 + 1) |-> IF i = k + 2 THEN f[k + 1] + w[k + 1] ELSE f[i]]
  <2>2. \A i \in 1..(k + 1) : f[i] = IF i = 1 THEN 0 ELSE f[i - 1] + w[i - 1]
    BY <2>1
  <2>3. \A i \in 1..(k + 1 + 1) : g[i] = IF i = 1 THEN 0 ELSE g[i - 1] + w[i - 1]
    BY <2>2
  <2>4. g = [i \in 1..(k + 1 + 1) |-> g[i]]
    OBVIOUS
  <2> HIDE DEF g
  <2>5. g = [i \in 1..(k + 1 + 1) |-> IF i = 1 THEN 0 ELSE g[i - 1] + w[i - 1]]
    BY <2>3, <2>4
  <2> QED
    BY <2>5
<1>3. Made(L)
  <2> HIDE DEF T
  <2>1. L \in T
    BY <1>0, <1>1, <1>2, SetInduction
  <2> HIDE DEF Made
  <2> QED
    BY <1>0, <2>1 DEF T
<1> DEFINE c == Selection!Columns(line)
<1>4. c = [i \in 1..(L + 1) |-> IF i = 1 THEN 0 ELSE c[i - 1] + line.chars[i - 1].width]
  <2>1. PICK f : f = [i \in 1..(L + 1) |-> IF i = 1 THEN 0 ELSE f[i - 1] + w[i - 1]]
    BY <1>3
  <2>2. \A i \in 1..(L + 1) : i # 1 => i - 1 \in 1..L
    BY <1>0
  <2>3. \A i \in 1..(L + 1) : i # 1 => w[i - 1] = line.chars[i - 1].width
    BY <1>0, <2>2
  <2> HIDE DEF w
  <2>4. f = [i \in 1..(L + 1) |-> IF i = 1 THEN 0 ELSE f[i - 1] + line.chars[i - 1].width]
    BY <2>1, <2>3
  <2> QED
    BY <2>4 DEF Selection!Columns
<1> HIDE DEF c
<1>5. \A i \in 1..(L + 1) : c[i] = IF i = 1 THEN 0 ELSE c[i - 1] + line.chars[i - 1].width
  BY <1>4
<1>6. c[1] = 0 /\ \A i \in 1..L : c[i + 1] = c[i] + line.chars[i].width
  <2>1. c[1] = 0
    BY <1>0, <1>5
  <2>2. ASSUME NEW i \in 1..L PROVE c[i + 1] = c[i] + line.chars[i].width
    <3>1. i + 1 \in 1..(L + 1) /\ i + 1 # 1 /\ (i + 1) - 1 = i
      BY <1>0
    <3> QED
      BY <1>5, <3>1
  <2> QED
    BY <2>1, <2>2
<1>7. \A i \in 1..(L + 1) : c[i] \in Nat
  <2> DEFINE U == {n \in Nat : n <= L => c[n + 1] \in Nat}
  <2>1. 0 \in U
    BY <1>6
  <2>2. ASSUME NEW n \in Nat, n \in U PROVE n + 1 \in U
    <3> SUFFICES ASSUME n + 1 <= L PROVE c[n + 1 + 1] \in Nat
      OBVIOUS
    <3>1. n + 1 \in 1..L /\ n <= L
      BY <1>0
    <3>2. c[n + 1] \in Nat /\ line.chars[n + 1].width \in Nat
      BY <1>0, <2>2, <3>1
    <3>3. c[n + 1 + 1] = c[n + 1] + line.chars[n + 1].width
      BY <1>6, <3>1
    <3> QED
      BY <3>2, <3>3
  <2> HIDE DEF U
  <2>3. Nat \subseteq U
    BY <2>1, <2>2, SetInduction
  <2>4. ASSUME NEW i \in 1..(L + 1) PROVE c[i] \in Nat
    <3>1. i - 1 \in Nat /\ i - 1 <= L /\ (i - 1) + 1 = i
      BY <1>0
    <3>2. i - 1 \in U
      BY <2>3, <3>1
    <3> QED
      BY <3>1, <3>2 DEF U
  <2> QED
    BY <2>4
<1> QED
  BY <1>0, <1>6, <1>7 DEF c

\* A character further right does not start before one further left ends.
LEMMA ColumnsGrow ==
  ASSUME NEW line \in AnyLine, NEW i \in 1..Len(line.chars),
         NEW k \in (i + 1)..(Len(line.chars) + 1)
  PROVE  Selection!Columns(line)[i] + line.chars[i].width <= Selection!Columns(line)[k]
<1> DEFINE c == Selection!Columns(line)
           L == Len(line.chars)
           U == {n \in Nat : i + 1 + n <= L + 1 => c[i + 1] <= c[i + 1 + n]}
<1>0. /\ L \in Nat /\ \A n \in 1..L : line.chars[n].width \in Nat
      /\ \A n \in 1..L : c[n + 1] = c[n] + line.chars[n].width
      /\ \A n \in 1..(L + 1) : c[n] \in Nat
  BY ColumnsAre
<1> HIDE DEF c
<1>1. 0 \in U
  BY <1>0
<1>2. ASSUME NEW n \in Nat, n \in U PROVE n + 1 \in U
  <2> SUFFICES ASSUME i + 1 + (n + 1) <= L + 1 PROVE c[i + 1] <= c[i + 1 + (n + 1)]
    OBVIOUS
  <2>1. i + 1 + n \in 1..L /\ i + 1 + n <= L + 1 /\ i + 1 \in 1..(L + 1)
        /\ (i + 1 + n) + 1 = i + 1 + (n + 1) /\ i + 1 + n \in 1..(L + 1)
    <3>1. L \in Nat
      BY <1>0
    <3> HIDE DEF L
    <3> QED
      BY <3>1
  <2>2. c[i + 1] <= c[i + 1 + n]
    BY <1>2, <2>1
  <2>3. c[i + 1 + (n + 1)] = c[i + 1 + n] + line.chars[i + 1 + n].width
    BY <1>0, <2>1
  <2> QED
    BY <1>0, <2>1, <2>2, <2>3
<1>3. Nat \subseteq U
  <2> HIDE DEF U
  <2> QED
    BY <1>1, <1>2, SetInduction
<1>4. k - (i + 1) \in U /\ i + 1 + (k - (i + 1)) = k /\ k <= L + 1
  BY <1>0, <1>3
<1>5. c[i + 1] <= c[k]
  BY <1>4
<1> QED
  BY <1>0, <1>5 DEF c

\* A click answers a column of the line, and the start of the character under
\* it when there is one, whatever the characters and their widths
\* (gui/workspace/ssh/internal.rs, nearest_character_column).
LEMMA ClicksAreOnCharacters ==
  ASSUME NEW line \in AnyLine, NEW target \in Nat
  PROVE  Selection!ClickIsOnACharacter(line, target)
<1> DEFINE c == Selection!Columns(line)
           L == Len(line.chars)
           hit == {i \in DOMAIN line.chars : /\ line.chars[i].width > 0
                                             /\ target < c[i] + line.chars[i].width}
           column == Selection!Nearest(line, target)
<1>0. /\ L \in Nat /\ DOMAIN line.chars = 1..L /\ \A n \in 1..L : line.chars[n].width \in Nat
      /\ \A n \in 1..(L + 1) : c[n] \in Nat
      /\ \A n \in 1..L, k \in 1..(L + 1) : n < k => c[n] + line.chars[n].width <= c[k]
  <2>1. ASSUME NEW n \in 1..L, NEW k \in 1..(L + 1), n < k
        PROVE  c[n] + line.chars[n].width <= c[k]
    <3>1. k \in (n + 1)..(L + 1)
      BY <2>1, ColumnsAre
    <3> HIDE DEF c
    <3> QED
      BY <3>1, ColumnsGrow DEF c
  <2> QED
    BY <2>1, ColumnsAre
<1>1. column = IF hit = {} THEN Selection!Above(c[L + 1], 1)
               ELSE c[CHOOSE i \in hit : \A j \in hit : i <= j]
  BY DEF Selection!Nearest
<1> HIDE DEF c, column
<1>2. hit \in SUBSET (1..L)
  BY <1>0
<1>3. ASSUME hit # {}
      PROVE  \E m \in hit : column = c[m] /\ \A j \in hit : m <= j
  <2> HIDE DEF hit
  <2>1. \E m \in hit : \A j \in hit : m <= j
    BY <1>0, <1>2, <1>3, SmallestIs
  <2>2. (CHOOSE i \in hit : \A j \in hit : i <= j) \in hit
        /\ \A j \in hit : (CHOOSE i \in hit : \A j2 \in hit : i <= j2) <= j
    BY <2>1
  <2> QED
    BY <1>1, <1>3, <2>2
<1>4. c[L + 1] > 0 => column < c[L + 1]
  <2>1. CASE hit = {}
    <3>1. column = Selection!Above(c[L + 1], 1)
      BY <1>1, <2>1
    <3>2. c[L + 1] \in Nat
      BY <1>0
    <3> QED
      BY <3>1, <3>2 DEF Selection!Above
  <2>2. CASE hit # {}
    <3>1. PICK m \in hit : column = c[m]
      BY <1>3, <2>2
    <3>2. m \in 1..L /\ line.chars[m].width > 0
      BY <1>0, <3>1
    <3>3. c[m] \in Nat /\ c[L + 1] \in Nat /\ line.chars[m].width \in Nat
          /\ c[m] + line.chars[m].width <= c[L + 1]
      BY <1>0, <3>2
    <3> DEFINE w == line.chars[m].width
    <3> HIDE DEF w, L, hit
    <3>4. w \in Nat /\ w > 0 /\ c[m] + w <= c[L + 1]
      BY <3>2, <3>3 DEF w
    <3> QED
      BY <3>1, <3>3, <3>4
  <2> QED
    BY <2>1, <2>2
<1>5. ASSUME NEW i \in 1..L, c[i] <= target, target < c[i] + line.chars[i].width
      PROVE  column = c[i]
  <2>1. i \in hit
    BY <1>0, <1>5
  <2>2. PICK m \in hit : column = c[m] /\ \A j \in hit : m <= j
    BY <1>3, <2>1
  <2>3. m <= i /\ m \in 1..L /\ target < c[m] + line.chars[m].width
    BY <1>0, <2>1, <2>2
  <2>4. ~(m < i)
    <3> SUFFICES ASSUME m < i PROVE FALSE
      OBVIOUS
    <3>1. c[m] + line.chars[m].width <= c[i]
      BY <1>0, <2>3
    <3> QED
      BY <1>0, <1>5, <2>3, <3>1
  <2>5. m = i
    BY <1>0, <2>3, <2>4
  <2> QED
    BY <2>2, <2>5
<1> QED
  BY <1>0, <1>4, <1>5 DEF Selection!ClickIsOnACharacter, c, column
-----------------------------------------------------------------------------
(* TerminalSelection: the scroll bar                                       *)

LEMMA ProductsGrow ==
  /\ \A a, b \in Nat : a * b \in Nat
  /\ \A a, b, c \in Nat : a <= b => a * c <= b * c
  /\ \A a, b \in Nat : a > 0 /\ b > 0 => a * b > 0
OBVIOUS

\* The one number with a remainder is the quotient.
LEMMA QuotientIs ==
  ASSUME NEW b \in Nat, b > 0, NEW q \in Nat, NEW r \in Nat, r < b
  PROVE  (q * b + r) \div b = q
<1> DEFINE a == q * b + r
           d == a \div b
           m == a % b
<1>1. a \in Nat
  OBVIOUS
<1>2. d \in Nat /\ m \in 0..(b - 1) /\ a = b * d + m
  <2> HIDE DEF a
  <2> QED
    BY <1>1
<1>3. ASSUME d < q PROVE FALSE
  <2>1. (d + 1) * b <= q * b
    <3> HIDE DEF d
    <3> QED
      BY <1>2, <1>3, ProductsGrow
  <2>2. (d + 1) * b = b * d + b
    <3> HIDE DEF d
    <3> QED
      BY <1>2
  <2> HIDE DEF d, m
  <2> QED
    BY <1>2, <2>1, <2>2
<1>4. ASSUME q < d PROVE FALSE
  <2>1. (q + 1) * b <= d * b
    <3> HIDE DEF d
    <3> QED
      BY <1>2, <1>4, ProductsGrow
  <2>2. (q + 1) * b = q * b + b /\ d * b = b * d
    <3> HIDE DEF d
    <3> QED
      BY <1>2
  <2> HIDE DEF d, m
  <2> QED
    BY <1>2, <2>1, <2>2
<1> QED
  <2> HIDE DEF d, m
  <2>1. d = q
    BY <1>2, <1>3, <1>4
  <2> QED
    BY <2>1 DEF d

\* More divided by the same is not less.
LEMMA QuotientsGrow ==
  ASSUME NEW b \in Nat, b > 0, NEW x \in Nat, NEW y \in Nat, x <= y
  PROVE  x \div b <= y \div b
<1> DEFINE p == x \div b
           q == y \div b
<1>1. /\ p \in Nat /\ q \in Nat
      /\ x % b \in 0..(b - 1) /\ y % b \in 0..(b - 1)
      /\ x = b * p + (x % b) /\ y = b * q + (y % b)
  OBVIOUS
<1> HIDE DEF p, q
<1>2. ASSUME q < p PROVE FALSE
  <2>1. (q + 1) * b <= p * b
    BY <1>1, <1>2, ProductsGrow
  <2>2. (q + 1) * b = b * q + b /\ p * b = b * p
    BY <1>1
  <2> QED
    BY <1>1, <2>1, <2>2
<1>3. p <= q
  BY <1>1, <1>2
<1> QED
  BY <1>3 DEF p, q

\* The bar of a terminal with a history: the thumb leaves a whole number of
\* parts free for each line of it.
LEMMA FreeIs ==
  ASSUME NEW history \in Nat, history > 0, NEW rows \in Nat
  PROVE  /\ Selection!Unit(history, rows) \in Nat /\ Selection!ThumbSize(history, rows) \in Nat
         /\ Selection!Unit(history, rows)
              = Selection!ThumbSize(history, rows) + Selection!Free(history, rows)
         /\ Selection!ThumbSize(history, rows) \div 2 \in Nat
         /\ Selection!ThumbSize(history, rows) \div 2 <= Selection!ThumbSize(history, rows)
         /\ \E f \in Nat : f > 0 /\ Selection!Free(history, rows) = history * f
<1> DEFINE every == history + rows
           m == Selection!Larger(100 * rows, 8 * every)
           unit == Selection!Unit(history, rows)
           size == Selection!ThumbSize(history, rows)
<1>1. /\ every \in Nat /\ m \in Nat /\ m < 100 * every
  BY DEF Selection!Larger
<1>2. Selection!Larger(history, 1) = history
  BY DEF Selection!Larger
<1>3. unit = 200 * every * history /\ size = 2 * history * m
  BY <1>2 DEF Selection!Unit, Selection!ThumbSize
<1> HIDE DEF every, m, unit, size
<1>4. unit \in Nat /\ size \in Nat
  <2>1. every * history \in Nat /\ history * m \in Nat
    BY <1>1, ProductsGrow
  <2>2. 200 * every * history = 200 * (every * history) /\ 2 * history * m = 2 * (history * m)
    BY <1>1
  <2> QED
    BY <1>3, <2>1, <2>2
<1>5. size \div 2 \in Nat /\ size \div 2 <= size
  BY <1>4
<1>6. Selection!Free(history, rows) = unit - size
  BY DEF Selection!Free, unit, size
<1>7. unit - size = history * (2 * (100 * every - m))
  BY <1>1, <1>3
<1>8. \E f \in Nat : f > 0 /\ Selection!Free(history, rows) = history * f
  <2>1. 2 * (100 * every - m) \in Nat /\ 2 * (100 * every - m) > 0
    BY <1>1
  <2> QED
    BY <1>6, <1>7, <2>1
<1>9. unit = size + Selection!Free(history, rows)
  BY <1>4, <1>6
<1> QED
  <2>1. /\ unit \in Nat /\ size \in Nat /\ unit = size + Selection!Free(history, rows)
        /\ size \div 2 \in Nat /\ size \div 2 <= size
    BY <1>4, <1>5, <1>9
  <2> QED
    BY <2>1, <1>8 DEF unit, size

\* The line a part of what is free stands for.
LineAt(position, history, free) == (2 * position * history + free) \div (2 * free)

LEMMA LinesAre ==
  ASSUME NEW history \in Nat, history > 0, NEW f \in Nat, f > 0
  PROVE  /\ history * f \in Nat /\ history * f > 0
         /\ \A n \in Nat : n * f \in Nat /\ LineAt(n * f, history, history * f) = n
         /\ \A p, q \in Nat : p <= q => /\ LineAt(p, history, history * f) \in Nat
                                        /\ LineAt(p, history, history * f)
                                             <= LineAt(q, history, history * f)
<1> DEFINE free == history * f
<1>1. free \in Nat /\ free > 0 /\ 2 * free \in Nat /\ 2 * free > 0 /\ free < 2 * free
  <2>1. free \in Nat /\ free > 0
    BY ProductsGrow
  <2> HIDE DEF free
  <2> QED
    BY <2>1
<1>2. ASSUME NEW n \in Nat PROVE n * f \in Nat /\ LineAt(n * f, history, free) = n
  <2>1. n * f \in Nat
    BY ProductsGrow
  <2>2. 2 * (n * f) * history = n * (2 * (history * f))
    BY <2>1
  <2>3. LineAt(n * f, history, free) = (n * (2 * free) + free) \div (2 * free)
    BY <2>2 DEF LineAt
  <2> HIDE DEF free
  <2> DEFINE b == 2 * free
  <2>4. b \in Nat /\ b > 0 /\ free < b
    BY <1>1
  <2> HIDE DEF b
  <2>5. (n * b + free) \div b = n
    BY <1>1, <2>4, QuotientIs
  <2> QED
    BY <2>1, <2>3, <2>5 DEF b
<1>3. ASSUME NEW p \in Nat, NEW q \in Nat, p <= q
      PROVE  LineAt(p, history, free) \in Nat /\ LineAt(p, history, free) <= LineAt(q, history, free)
  <2> HIDE DEF free
  <2> DEFINE x == 2 * p * history + free
             y == 2 * q * history + free
             b == 2 * free
  <2>1. p * history <= q * history /\ p * history \in Nat /\ q * history \in Nat
    BY <1>3, ProductsGrow
  <2>2. x = 2 * (p * history) + free /\ y = 2 * (q * history) + free
    BY <1>1
  <2>3. x \in Nat /\ y \in Nat /\ x <= y /\ b \in Nat /\ b > 0
    <3> DEFINE ph == p * history  qh == q * history
    <3>1. ph <= qh /\ ph \in Nat /\ qh \in Nat /\ x = 2 * ph + free /\ y = 2 * qh + free
      BY <2>1, <2>2
    <3> HIDE DEF ph, qh, x, y
    <3> QED
      BY <1>1, <3>1
  <2>4. LineAt(p, history, free) = x \div b /\ LineAt(q, history, free) = y \div b
    BY DEF LineAt
  <2> HIDE DEF x, y, b
  <2>5. x \div b \in Nat /\ x \div b <= y \div b
    BY <2>3, QuotientsGrow
  <2> QED
    BY <2>4, <2>5
<1> QED
  <2> HIDE DEF free
  <2>1. free \in Nat /\ free > 0
    BY <1>1
  <2> QED
    BY <1>2, <1>3, <2>1 DEF free

LEMMA PartIs ==
  ASSUME NEW free \in Nat
  PROVE  /\ \A x \in Int : Selection!Clamp(x, 0, free) \in 0..free
         /\ \A x \in 0..free : Selection!Clamp(x, 0, free) = x
         /\ \A x \in Int : x <= 0 => Selection!Clamp(x, 0, free) = 0
         /\ \A x \in Int : x >= free => Selection!Clamp(x, 0, free) = free
         /\ \A x, y \in Int : x <= y => Selection!Clamp(x, 0, free) <= Selection!Clamp(y, 0, free)
BY DEF Selection!Clamp

\* Pressing the middle of the thumb leaves the terminal where it is, the ends of
\* the bar reach the first and the last line, and further down is never further
\* back, for a history of any length, any number of rows and any offset
\* (gui/workspace/ssh/internal.rs, the scroll bar).
LEMMA ThumbsStay ==
  ASSUME NEW history \in Nat, NEW rows \in Nat, rows > 0, NEW offset \in 0..history
  PROVE  Selection!ThumbStaysUnderThePointer(history, rows, offset)
<1> DEFINE size == Selection!ThumbSize(history, rows)
           unit == Selection!Unit(history, rows)
           free == Selection!Free(history, rows)
           top == Selection!ThumbTop(history, rows, offset)
           half == size \div 2
           At(pointer) == Selection!Scrolled(history, rows, pointer)
<1>1. ASSUME history > 0
      PROVE  /\ unit \in Nat /\ size \in Nat /\ half \in Nat /\ top \in Int
             /\ At(top + half) = offset /\ At(0) = history /\ At(unit) = 0
             /\ \A p, q \in Int : p <= q => At(p) >= At(q)
  <2>1. /\ unit \in Nat /\ size \in Nat /\ half \in Nat /\ half <= size /\ unit = size + free
        /\ \E f \in Nat : f > 0 /\ free = history * f
    BY <1>1, FreeIs
  <2>2. PICK f \in Nat : f > 0 /\ free = history * f
    BY <2>1
  <2>3. /\ free \in Nat /\ free > 0
        /\ \A n \in Nat : n * f \in Nat /\ LineAt(n * f, history, free) = n
        /\ \A p, q \in Nat : p <= q => /\ LineAt(p, history, free) \in Nat
                                       /\ LineAt(p, history, free) <= LineAt(q, history, free)
    <3> HIDE DEF free
    <3> QED
      BY <1>1, <2>2, LinesAre
  <2>4. Selection!Larger(free, 1) = free
    <3> HIDE DEF free
    <3> QED
      BY <2>3 DEF Selection!Larger
  <2> DEFINE P(pointer) == Selection!Clamp(pointer - half, 0, free)
             L(position) == LineAt(position, history, free)
  <2>5. \A p \in Int : At(p) = Selection!Above(history, L(P(p)))
    BY <2>4 DEF Selection!Scrolled, LineAt
  <2>6. top = ((history - offset) * free) \div history
    <3>1. Selection!Above(history, offset) = history - offset
      BY DEF Selection!Above
    <3> HIDE DEF free
    <3> QED
      BY <1>1, <3>1 DEF Selection!ThumbTop, free
  <2> HIDE DEF size, unit, free, top, half, At
  <2> DEFINE n == history - offset
  <2>7. n \in Nat /\ n <= history
    OBVIOUS
  <2>8. top = n * f
    <3> DEFINE q == n * f
    <3>1. q \in Nat
      BY <2>3, <2>7
    <3>2. n * free = n * (history * f)
      BY <2>2
    <3>3. n * (history * f) = (n * f) * history + 0
      <4> HIDE DEF n
      <4> QED
        BY <2>7
    <3>4. top = (q * history + 0) \div history
      BY <2>6, <3>2, <3>3
    <3> HIDE DEF q, n
    <3>5. (q * history + 0) \div history = q
      BY <1>1, <3>1, QuotientIs
    <3> QED
      BY <3>4, <3>5 DEF q
  <2>9. n * f \in 0..free
    <3>1. n * f <= history * f
      <4> HIDE DEF n
      <4> QED
        BY <2>7, ProductsGrow
    <3>2. n * f \in Nat
      BY <2>3, <2>7
    <3> DEFINE nf == n * f
    <3>3. nf \in Nat /\ nf <= free
      BY <2>2, <3>1, <3>2
    <3> HIDE DEF nf, n
    <3>4. nf \in 0..free
      BY <2>3, <3>3
    <3> QED
      BY <3>4 DEF nf
  <2>10. /\ top \in Int /\ (top + half) - half = top
    <3>1. top \in Nat
      BY <2>3, <2>7, <2>8
    <3> QED
      BY <2>1, <3>1
  <2>11. At(top + half) = offset
    <3>1. P(top + half) = n * f
      <4>1. top \in 0..free
        BY <2>8, <2>9
      <4>2. Selection!Clamp(top, 0, free) = top
        BY <2>3, <4>1, PartIs
      <4>3. P(top + half) = Selection!Clamp(top, 0, free)
        BY <2>10
      <4> QED
        BY <2>8, <4>2, <4>3
    <3>2. L(n * f) = n
      BY <2>3, <2>7
    <3>3. At(top + half) = Selection!Above(history, n)
      <4>1. top + half \in Int
        BY <2>1, <2>10
      <4> HIDE DEF P, L
      <4> QED
        BY <2>5, <3>1, <3>2, <4>1
    <3> QED
      BY <2>7, <3>3 DEF Selection!Above
  <2>12. At(0) = history
    <3>1. P(0) = 0
      BY <2>1, <2>3, PartIs
    <3>2. L(0) = 0
      <4>1. LineAt(0 * f, history, free) = 0
        BY <2>3
      <4>2. 0 * f = 0
        OBVIOUS
      <4> QED
        BY <4>1, <4>2
    <3>3. At(0) = Selection!Above(history, 0)
      <4> HIDE DEF P, L
      <4> QED
        BY <2>5, <3>1, <3>2
    <3> QED
      BY <1>1, <3>3 DEF Selection!Above
  <2>13. At(unit) = 0
    <3>1. P(unit) = free
      <4>1. unit - half \in Int /\ unit - half >= free
        BY <2>1, <2>3
      <4> QED
        BY <2>3, <4>1, PartIs
    <3>2. L(free) = history
      BY <2>2, <2>3
    <3>3. At(unit) = Selection!Above(history, history)
      <4> HIDE DEF P, L
      <4> QED
        BY <2>1, <2>5, <3>1, <3>2
    <3> QED
      BY <3>3 DEF Selection!Above
  <2>14. ASSUME NEW p \in Int, NEW q \in Int, p <= q PROVE At(p) >= At(q)
    <3>1. P(p) \in Nat /\ P(q) \in Nat /\ P(p) <= P(q)
      <4>1. p - half \in Int /\ q - half \in Int /\ p - half <= q - half
        BY <2>1, <2>14
      <4>2. P(p) \in 0..free /\ P(q) \in 0..free /\ P(p) <= P(q)
        BY <2>3, <4>1, PartIs
      <4> HIDE DEF P
      <4> QED
        BY <2>3, <4>2
    <3>2. L(P(p)) \in Nat /\ L(P(q)) \in Nat /\ L(P(p)) <= L(P(q))
      <4> HIDE DEF P
      <4> QED
        BY <2>3, <3>1
    <3> DEFINE lp == L(P(p))  lq == L(P(q))
    <3>3. lp \in Nat /\ lq \in Nat /\ lp <= lq
          /\ At(p) = Selection!Above(history, lp) /\ At(q) = Selection!Above(history, lq)
      BY <2>5, <3>2
    <3> HIDE DEF lp, lq
    <3> QED
      BY <3>3 DEF Selection!Above
  <2> QED
    BY <2>1, <2>10, <2>11, <2>12, <2>13, <2>14
<1>2. ASSUME history = 0
      PROVE  /\ unit \in Nat /\ half \in Nat /\ top \in Int
             /\ \A p \in Int : At(p) = 0
  <2>1. Selection!Larger(0, 1) = 1
    BY DEF Selection!Larger
  <2>2. unit \in Nat /\ size = unit /\ free = 0 /\ top = 0 /\ half \in Nat
    <3>1. unit = 200 * rows * 1
      BY <1>2, <2>1 DEF Selection!Unit
    <3>2. unit \in Nat
      BY <3>1
    <3>3. size = unit
      BY <1>2 DEF Selection!ThumbSize
    <3>4. free = unit - size /\ top = 0
      BY <1>2 DEF Selection!Free, Selection!ThumbTop
    <3> HIDE DEF unit, size, free, top
    <3> QED
      BY <3>2, <3>3, <3>4
  <2>3. ASSUME NEW p \in Int PROVE At(p) = 0
    <3>1. Selection!Larger(free, 1) = 1
      BY <2>1, <2>2
    <3> DEFINE c == Selection!Clamp(p - half, 0, 1)
    <3>2. At(p) = Selection!Above(0, (2 * c * 0 + 1) \div (2 * 1))
      BY <1>2, <3>1 DEF Selection!Scrolled
    <3>3. c \in Int
      <4> HIDE DEF half
      <4> QED
        BY <2>2 DEF Selection!Clamp
    <3> HIDE DEF c, At
    <3>4. (2 * c * 0 + 1) \div (2 * 1) = 0
      BY <3>3
    <3> QED
      BY <3>2, <3>4 DEF Selection!Above
  <2> QED
    BY <2>2, <2>3
<1> HIDE DEF size, unit, free, top, half, At
<1>3. /\ unit \in Nat /\ half \in Nat /\ top \in Int
      /\ At(top + half) = offset /\ At(0) = history /\ (history > 0 => At(unit) = 0)
      /\ \A p, q \in Int : p <= q => At(p) >= At(q)
  <2>1. CASE history > 0
    BY <1>1, <2>1
  <2>2. CASE history = 0
    <3>1. top + half \in Int
      BY <1>2, <2>2
    <3> QED
      BY <1>2, <2>2, <3>1
  <2> QED
    BY <2>1, <2>2
<1>4. ASSUME NEW k \in 0..9 PROVE At((k * unit) \div 10) >= At(((k + 1) * unit) \div 10)
  <2> DEFINE x == k * unit  y == (k + 1) * unit
  <2>1. x \in Nat /\ y \in Nat /\ x <= y
    <3>1. k \in Nat /\ k + 1 \in Nat /\ k <= k + 1
      OBVIOUS
    <3> QED
      BY <1>3, <3>1, ProductsGrow
  <2> HIDE DEF x, y
  <2>2. x \div 10 \in Int /\ y \div 10 \in Int /\ x \div 10 <= y \div 10
    BY <2>1
  <2> QED
    BY <1>3, <2>2 DEF x, y
<1> QED
  BY <1>3, <1>4 DEF Selection!ThumbStaysUnderThePointer, size, unit, top, half, At
-----------------------------------------------------------------------------
(* Functions defined by recursion, and sequences of sequences               *)

\* A function is given by its first value and by what follows from the one before.
GivenBy(f, V, base, n, step) ==
  f \in [0..n -> V] /\ f[0] = base /\ \A i \in 1..n : f[i] = step[<<i, f[i - 1]>>]

LEMMA RecursionIs ==
  ASSUME NEW V, NEW base \in V, NEW n \in Nat, NEW step \in [(1..n) \X V -> V]
  PROVE  \E f : GivenBy(f, V, base, n, step)
<1> DEFINE Made(k) == \E f \in [0..k -> V] : /\ f[0] = base
                                            /\ \A i \in 1..k : f[i] = step[<<i, f[i - 1]>>]
           T == {k \in Nat : k <= n => Made(k)}
<1>1. 0 \in T
  <2> DEFINE f == [i \in 0..0 |-> base]
  <2>1. f \in [0..0 -> V] /\ f[0] = base /\ \A i \in 1..0 : f[i] = step[<<i, f[i - 1]>>]
    OBVIOUS
  <2> HIDE DEF f
  <2> QED
    BY <2>1
<1>2. ASSUME NEW k \in Nat, k \in T PROVE k + 1 \in T
  <2> SUFFICES ASSUME k + 1 <= n PROVE Made(k + 1)
    OBVIOUS
  <2>1. k <= n /\ k + 1 \in 1..n
    OBVIOUS
  <2>2. PICK f \in [0..k -> V] : f[0] = base /\ \A i \in 1..k : f[i] = step[<<i, f[i - 1]>>]
    BY <1>2, <2>1
  <2> DEFINE x == step[<<k + 1, f[k]>>]
             g == [i \in 0..(k + 1) |-> IF i = k + 1 THEN x ELSE f[i]]
  <2>3. x \in V
    <3>1. f[k] \in V
      BY <2>2
    <3>2. <<k + 1, f[k]>> \in (1..n) \X V
      BY <2>1, <3>1
    <3> QED
      BY <3>2
  <2>4. \A i \in 0..k : g[i] = f[i] /\ f[i] \in V
    BY <2>2
  <2>5. g[k + 1] = x
    BY DEF g
  <2> HIDE DEF x
  <2>6. g \in [0..(k + 1) -> V]
    BY <2>2, <2>3
  <2> HIDE DEF g
  <2>7. g[0] = base
    BY <2>2, <2>4
  <2>8. ASSUME NEW i \in 1..(k + 1) PROVE g[i] = step[<<i, g[i - 1]>>]
    <3>1. i - 1 \in 0..k /\ g[i - 1] = f[i - 1]
      BY <2>4
    <3>2. CASE i = k + 1
      <4>1. i - 1 = k
        BY <3>2
      <4> QED
        BY <2>5, <3>1, <3>2, <4>1 DEF x
    <3>3. CASE i # k + 1
      <4>1. i \in 1..k /\ i \in 0..k
        BY <3>3
      <4>2. f[i] = step[<<i, f[i - 1]>>]
        BY <2>2, <4>1
      <4> QED
        BY <2>4, <3>1, <4>1, <4>2
    <3> QED
      BY <3>2, <3>3
  <2> QED
    BY <2>6, <2>7, <2>8
<1> HIDE DEF T
<1>3. n \in T
  BY <1>1, <1>2, SetInduction
<1> HIDE DEF Made
<1>4. Made(n)
  BY <1>3 DEF T
<1> QED
  BY <1>4 DEF Made, GivenBy

\* Two functions with the same first value and the same way on are the same.
GoOnAlike(f, g, n) ==
  f[0] = g[0] /\ \A i \in 1..n : f[i - 1] = g[i - 1] => f[i] = g[i]
AreAlike(f, g, n) == \A i \in 0..n : f[i] = g[i]

LEMMA SameFrom ==
  ASSUME NEW n \in Nat, NEW f, NEW g, GoOnAlike(f, g, n)
  PROVE  AreAlike(f, g, n)
<1> DEFINE T == {k \in Nat : k <= n => f[k] = g[k]}
<1>0. f[0] = g[0] /\ \A i \in 1..n : f[i - 1] = g[i - 1] => f[i] = g[i]
  BY DEF GoOnAlike
<1>1. 0 \in T
  BY <1>0
<1>2. ASSUME NEW k \in Nat, k \in T PROVE k + 1 \in T
  <2> SUFFICES ASSUME k + 1 <= n PROVE f[k + 1] = g[k + 1]
    OBVIOUS
  <2>1. k + 1 \in 1..n /\ (k + 1) - 1 = k /\ k <= n
    OBVIOUS
  <2> QED
    BY <1>0, <1>2, <2>1
<1> HIDE DEF T
<1>3. Nat \subseteq T
  BY <1>1, <1>2, SetInduction
<1> QED
  BY <1>3 DEF T, AreAlike

\* What a sequence of sequences is, one behind the other.
LEMMA FlattenIs ==
  ASSUME NEW S, NEW s \in Seq(Seq(S))
  PROVE  /\ Len(s) \in Nat
         /\ \E f \in [0..Len(s) -> Seq(S)] :
              /\ f[0] = <<>> /\ \A i \in 1..Len(s) : f[i] = f[i - 1] \o s[i]
              /\ Selection!FlattenSeq(s) = f[Len(s)]
<1> DEFINE n == Len(s)
           V == Seq(S)
           step == [p \in (1..n) \X V |-> p[2] \o s[p[1]]]
<1>1. n \in Nat /\ \A i \in 1..n : s[i] \in V
  BY LenProperties, ElementOfSeq
<1>2. <<>> \in V
  BY EmptySeq
<1>3. \A p \in (1..n) \X V : p[2] \o s[p[1]] \in V
  <2>1. ASSUME NEW i \in 1..n, NEW t \in V PROVE t \o s[i] \in V
    <3>1. s[i] \in V
      BY <1>1
    <3> QED
      BY <3>1, ConcatProperties
  <2> HIDE DEF V, n
  <2> QED
    BY <2>1
<1>4. step \in [(1..n) \X V -> V]
  BY <1>3
<1>5. \E f \in [0..n -> V] : f[0] = <<>> /\ \A i \in 1..n : f[i] = step[<<i, f[i - 1]>>]
  <2> HIDE DEF V, step, n
  <2>1. n \in Nat
    BY <1>1
  <2>2. \E f : GivenBy(f, V, <<>>, n, step)
    BY <1>2, <1>4, <2>1, RecursionIs
  <2> QED
    BY <2>2 DEF GivenBy
<1>6. PICK f \in [0..n -> V] : f[0] = <<>> /\ \A i \in 1..n : f[i] = step[<<i, f[i - 1]>>]
  BY <1>5
<1>7. \A i \in 1..n : f[i] = f[i - 1] \o s[i] /\ f[i - 1] \in V
  <2>1. ASSUME NEW i \in 1..n PROVE f[i] = f[i - 1] \o s[i] /\ f[i - 1] \in V
    <3>1. i - 1 \in 0..n
      BY <1>1
    <3>2. f[i - 1] \in V
      BY <1>6, <3>1
    <3>3. step[<<i, f[i - 1]>>] = f[i - 1] \o s[i]
      <4> HIDE DEF V, n
      <4> QED
        BY <3>2
    <3> HIDE DEF step
    <3> QED
      BY <1>6, <3>2, <3>3
  <2> QED
    BY <2>1
<1>8. Selection!FlattenSeq(s) = f[n]
  <2>1. CASE n = 0
    <3>1. s = <<>>
      BY <2>1, EmptySeq
    <3>2. Selection!FlattenSeq(s) = s
      BY <2>1 DEF Selection!FlattenSeq
    <3> QED
      BY <1>6, <2>1, <3>1, <3>2
  <2>2. CASE n # 0
    <3> DEFINE G(g) == g = [i \in 1..n |-> IF i = 1 THEN s[i] ELSE g[i - 1] \o s[i]]
               flatten == CHOOSE g : G(g)
               h == [i \in 1..n |-> f[i]]
    <3>0. 1 \in 1..n /\ 1 - 1 = 0
      BY <1>1, <2>2
    <3>1. \A i \in 1..n : h[i] = f[i]
      OBVIOUS
    <3>2. \A i \in 1..n : h[i] = IF i = 1 THEN s[i] ELSE h[i - 1] \o s[i]
      <4>1. ASSUME NEW i \in 1..n PROVE h[i] = IF i = 1 THEN s[i] ELSE h[i - 1] \o s[i]
        <5>1. CASE i = 1
          <6>1. f[1] = f[0] \o s[1]
            BY <1>7, <3>0
          <6>2. s[1] \in Seq(S)
            BY <1>1, <5>1
          <6>3. <<>> \o s[1] = s[1]
            BY <6>2, ConcatEmptySeq
          <6> QED
            BY <1>6, <3>1, <5>1, <6>1, <6>3
        <5>2. CASE i # 1
          <6>1. i - 1 \in 1..n
            BY <1>1, <5>2
          <6> HIDE DEF h
          <6>2. h[i] = h[i - 1] \o s[i]
            BY <1>7, <3>1, <6>1
          <6> QED
            BY <5>2, <6>2
        <5> QED
          BY <5>1, <5>2
      <4> QED
        BY <4>1
    <3>3. h = [i \in 1..n |-> h[i]]
      OBVIOUS
    <3> HIDE DEF h
    <3>4. G(h)
      BY <3>2, <3>3
    <3>5. G(flatten)
      <4> HIDE DEF G
      <4> QED
        BY <3>4
    <3>6. Selection!FlattenSeq(s) = flatten[n]
      BY <2>2 DEF Selection!FlattenSeq
    <3> HIDE DEF flatten
    <3>7. \A i \in 1..n : flatten[i] = IF i = 1 THEN s[i] ELSE flatten[i - 1] \o s[i]
      BY <3>5
    <3> DEFINE e == [i \in 0..n |-> IF i = 0 THEN <<>> ELSE flatten[i]]
    <3>8. e[0] = <<>> /\ \A i \in 1..n : e[i] = flatten[i]
      BY <1>1
    <3> HIDE DEF e
    <3>9. \A i \in 1..n : f[i - 1] = e[i - 1] => f[i] = e[i]
      <4> SUFFICES ASSUME NEW i \in 1..n, f[i - 1] = e[i - 1] PROVE f[i] = e[i]
        OBVIOUS
      <4>1. CASE i = 1
        <5>1. s[1] \in Seq(S) /\ f[1] = f[0] \o s[1] /\ flatten[1] = s[1]
          BY <1>1, <1>7, <3>0, <3>7
        <5>2. <<>> \o s[1] = s[1]
          BY <5>1, ConcatEmptySeq
        <5> QED
          BY <1>6, <3>8, <4>1, <5>1, <5>2
      <4>2. CASE i # 1
        <5>1. i - 1 \in 1..n
          BY <1>1, <4>2
        <5>2. flatten[i] = flatten[i - 1] \o s[i]
          BY <3>7, <4>2
        <5>3. e[i - 1] = flatten[i - 1] /\ e[i] = flatten[i]
          BY <3>8, <5>1
        <5> QED
          BY <1>7, <5>2, <5>3
      <4> QED
        BY <4>1, <4>2
    <3>10. \A i \in 0..n : f[i] = e[i]
      <4>1. n \in Nat /\ f[0] = e[0]
        BY <1>1, <1>6, <3>8
      <4> HIDE DEF n
      <4> QED
        <5>1. GoOnAlike(f, e, n)
          BY <4>1, <3>9 DEF GoOnAlike
        <5>2. AreAlike(f, e, n)
          BY <4>1, <5>1, SameFrom
        <5> QED
          BY <5>2 DEF AreAlike
    <3>11. n \in 1..n
      BY <1>1, <2>2
    <3> QED
      BY <3>6, <3>8, <3>10, <3>11
  <2> QED
    BY <2>1, <2>2
<1> QED
  BY <1>1, <1>6, <1>7, <1>8

\* With one sequence more, it is behind the others.
LEMMA FlattenGrows ==
  ASSUME NEW S, NEW s \in Seq(Seq(S)), NEW t \in Seq(Seq(S)), Len(t) = Len(s) + 1,
         \A i \in 1..Len(s) : t[i] = s[i]
  PROVE  /\ Selection!FlattenSeq(t) = Selection!FlattenSeq(s) \o t[Len(t)]
         /\ Selection!FlattenSeq(s) \in Seq(S)
<1> DEFINE n == Len(s)
<1>1. n \in Nat /\ Len(t) = n + 1
  BY FlattenIs
<1>2. PICK f \in [0..n -> Seq(S)] :
        /\ f[0] = <<>> /\ \A i \in 1..n : f[i] = f[i - 1] \o s[i]
        /\ Selection!FlattenSeq(s) = f[n]
  BY FlattenIs
<1>3. PICK g \in [0..Len(t) -> Seq(S)] :
        /\ g[0] = <<>> /\ \A i \in 1..Len(t) : g[i] = g[i - 1] \o t[i]
        /\ Selection!FlattenSeq(t) = g[Len(t)]
  BY FlattenIs
<1>4. \A i \in 1..n : t[i] = s[i]
  OBVIOUS
<1> HIDE DEF n
<1>5. \A i \in 1..n : f[i - 1] = g[i - 1] => f[i] = g[i]
  <2> SUFFICES ASSUME NEW i \in 1..n, f[i - 1] = g[i - 1] PROVE f[i] = g[i]
    OBVIOUS
  <2>1. i \in 1..Len(t)
    BY <1>1
  <2>2. g[i] = g[i - 1] \o t[i] /\ f[i] = f[i - 1] \o s[i] /\ t[i] = s[i]
    BY <1>2, <1>3, <1>4, <2>1
  <2> QED
    BY <2>2
<1>6. f[n] = g[n]
  <2>1. f[0] = g[0]
    BY <1>2, <1>3
  <2>2. n \in Nat
    BY <1>1
  <2>3. \A i \in 0..n : f[i] = g[i]
    <3>1. GoOnAlike(f, g, n)
      BY <1>5, <2>1 DEF GoOnAlike
    <3>2. AreAlike(f, g, n)
      BY <2>2, <3>1, SameFrom
    <3> QED
      BY <3>2 DEF AreAlike
  <2> QED
    BY <2>2, <2>3
<1>7. g[n + 1] = g[n] \o t[n + 1]
  <2>1. n + 1 \in 1..Len(t) /\ (n + 1) - 1 = n
    BY <1>1
  <2> QED
    BY <1>3, <2>1
<1>8. f[n] \in Seq(S)
  BY <1>1, <1>2
<1> QED
  BY <1>1, <1>2, <1>3, <1>6, <1>7, <1>8

\* What is empty before and after leaves the rest as it is.
AllOf(t, s, a) ==
  /\ a + Len(t) <= Len(s)
  /\ \A i \in 1..Len(s) : i <= a \/ i > a + Len(t) => s[i] = <<>>
  /\ \A i \in 1..Len(t) : t[i] = s[a + i]

LEMMA FlattenSkips ==
  ASSUME NEW S, NEW s \in Seq(Seq(S)), NEW t \in Seq(Seq(S)), NEW a \in Nat, AllOf(t, s, a)
  PROVE  Selection!FlattenSeq(s) = Selection!FlattenSeq(t)
<1> DEFINE n == Len(s)  k == Len(t)
<1>1. n \in Nat /\ k \in Nat /\ a + k <= n
  BY FlattenIs DEF AllOf
<1>2. PICK f \in [0..n -> Seq(S)] :
        /\ f[0] = <<>> /\ \A i \in 1..n : f[i] = f[i - 1] \o s[i]
        /\ Selection!FlattenSeq(s) = f[n]
  BY FlattenIs
<1>3. PICK g \in [0..k -> Seq(S)] :
        /\ g[0] = <<>> /\ \A i \in 1..k : g[i] = g[i - 1] \o t[i]
        /\ Selection!FlattenSeq(t) = g[k]
  BY FlattenIs
<1>4. /\ \A i \in 1..n : i <= a \/ i > a + k => s[i] = <<>>
      /\ \A i \in 1..k : t[i] = s[a + i]
  BY DEF AllOf
<1> HIDE DEF n, k
<1>5. \A i \in 1..n : i <= a \/ i > a + k => f[i] = f[i - 1]
  <2> SUFFICES ASSUME NEW i \in 1..n, i <= a \/ i > a + k PROVE f[i] = f[i - 1]
    OBVIOUS
  <2>1. s[i] = <<>> /\ f[i] = f[i - 1] \o s[i]
    BY <1>2, <1>4
  <2>2. i - 1 \in 0..n
    BY <1>1
  <2>3. f[i - 1] \in Seq(S)
    BY <1>2, <2>2
  <2>4. f[i - 1] \o <<>> = f[i - 1]
    BY <2>3, ConcatEmptySeq
  <2> QED
    BY <2>1, <2>4
<1> DEFINE e == [i \in 0..n |-> IF i <= a THEN <<>> ELSE IF i <= a + k THEN g[i - a] ELSE g[k]]
<1>6. \A i \in 0..n : e[i] = IF i <= a THEN <<>> ELSE IF i <= a + k THEN g[i - a] ELSE g[k]
  OBVIOUS
<1> HIDE DEF e
<1>7. \A i \in 1..n : f[i - 1] = e[i - 1] => f[i] = e[i]
  <2> SUFFICES ASSUME NEW i \in 1..n, f[i - 1] = e[i - 1] PROVE f[i] = e[i]
    OBVIOUS
  <2>1. i \in 0..n /\ i - 1 \in 0..n /\ i \in Nat
    BY <1>1
  <2>2. CASE i <= a
    <3>1. e[i] = <<>> /\ e[i - 1] = <<>>
      BY <1>6, <2>1, <2>2
    <3> QED
      BY <1>5, <2>2, <3>1
  <2>3. CASE i > a /\ i <= a + k
    <3>1. i - a \in 1..k /\ (i - a) - 1 = (i - 1) - a /\ a + (i - a) = i
      BY <1>1, <2>1, <2>3
    <3>2. e[i] = g[i - a]
      BY <1>6, <2>1, <2>3
    <3>3. e[i - 1] = g[(i - a) - 1]
      <4>1. CASE i - 1 = a
        <5>1. (i - a) - 1 = 0 /\ i - 1 <= a
          BY <2>1, <4>1
        <5>2. e[i - 1] = <<>>
          BY <1>6, <2>1, <5>1
        <5> QED
          BY <1>3, <5>1, <5>2
      <4>2. CASE i - 1 # a
        <5>1. i - 1 > a /\ i - 1 <= a + k
          BY <1>1, <2>1, <2>3, <4>2
        <5>2. e[i - 1] = g[(i - 1) - a]
          BY <1>6, <2>1, <5>1
        <5> QED
          BY <3>1, <5>2
      <4> QED
        BY <4>1, <4>2
    <3>4. g[i - a] = g[(i - a) - 1] \o t[i - a] /\ t[i - a] = s[a + (i - a)]
      BY <1>3, <1>4, <3>1
    <3>5. f[i] = f[i - 1] \o s[i]
      BY <1>2
    <3> QED
      BY <3>1, <3>2, <3>3, <3>4, <3>5
  <2>4. CASE i > a + k
    <3>1. e[i] = g[k]
      <4>1. ~(i <= a) /\ ~(i <= a + k)
        BY <1>1, <2>1, <2>4
      <4> QED
        BY <1>6, <2>1, <4>1
    <3>2. e[i - 1] = g[k]
      <4>1. CASE i - 1 > a + k
        BY <1>1, <1>6, <2>1, <4>1
      <4>2. CASE i - 1 = a + k /\ k = 0
        BY <1>1, <1>3, <1>6, <2>1, <4>2
      <4>3. CASE i - 1 = a + k /\ k # 0
        <5>1. (i - 1) - a = k /\ i - 1 > a /\ i - 1 <= a + k
          BY <1>1, <2>1, <4>3
        <5> QED
          BY <1>6, <2>1, <5>1
      <4>4. i - 1 > a + k \/ i - 1 = a + k
        BY <1>1, <2>1, <2>4
      <4> QED
        BY <4>1, <4>2, <4>3, <4>4
    <3> QED
      BY <1>5, <2>4, <3>1, <3>2
  <2>5. i <= a \/ (i > a /\ i <= a + k) \/ i > a + k
    BY <1>1, <2>1
  <2> QED
    BY <2>2, <2>3, <2>4, <2>5
<1>8. f[n] = e[n]
  <2>1. f[0] = e[0]
    <3>1. 0 \in 0..n /\ 0 <= a
      BY <1>1
    <3>2. e[0] = <<>>
      BY <1>6, <3>1
    <3> QED
      BY <1>2, <3>2
  <2>2. n \in Nat
    BY <1>1
  <2>3. \A i \in 0..n : f[i] = e[i]
    <3>1. GoOnAlike(f, e, n)
      BY <1>7, <2>1 DEF GoOnAlike
    <3>2. AreAlike(f, e, n)
      BY <2>2, <3>1, SameFrom
    <3> QED
      BY <3>2 DEF AreAlike
  <2> QED
    BY <2>2, <2>3
<1>9. e[n] = g[k]
  <2>1. n \in 0..n
    BY <1>1
  <2>2. CASE n <= a
    <3>1. k = 0 /\ e[n] = <<>>
      BY <1>1, <1>6, <2>1, <2>2
    <3> QED
      BY <1>3, <3>1
  <2>3. CASE n > a /\ n <= a + k
    <3>1. n - a = k
      BY <1>1, <2>3
    <3> QED
      BY <1>1, <1>6, <2>1, <2>3, <3>1
  <2>4. CASE n > a + k
    BY <1>1, <1>6, <2>1, <2>4
  <2>5. n <= a \/ (n > a /\ n <= a + k) \/ n > a + k
    BY <1>1
  <2> QED
    BY <2>2, <2>3, <2>4, <2>5
<1> QED
  BY <1>2, <1>3, <1>8, <1>9 DEF n, k

LEMMA FunctionIsSeq ==
  ASSUME NEW S, NEW n \in Nat, NEW f \in [1..n -> S]
  PROVE  f \in Seq(S) /\ Len(f) = n
BY SeqDef

LEMMA Associative ==
  ASSUME NEW S, NEW a \in Seq(S), NEW b \in Seq(S), NEW c \in Seq(S), NEW p, p = b \o c
  PROVE  a \o p = (a \o b) \o c
BY ConcatAssociative

-----------------------------------------------------------------------------
(* TerminalSelection: the fragments of a line                              *)

\* When the last of them goes on, the whole does.
LastGrows(s, t, x) ==
  /\ Len(t) = Len(s) /\ Len(s) > 0 /\ t[Len(s)] = s[Len(s)] \o x
  /\ \A i \in 1..(Len(s) - 1) : t[i] = s[i]

LEMMA FlattenGoesOn ==
  ASSUME NEW S, NEW s \in Seq(Seq(S)), NEW t \in Seq(Seq(S)), NEW x \in Seq(S),
         LastGrows(s, t, x)
  PROVE  Selection!FlattenSeq(t) = Selection!FlattenSeq(s) \o x
<1> DEFINE n == Len(s)
           front == [i \in 1..(n - 1) |-> s[i]]
<1>0. /\ Len(t) = n /\ n > 0 /\ t[n] = s[n] \o x
      /\ \A i \in 1..(n - 1) : t[i] = s[i]
  BY DEF LastGrows
<1>1. n \in Nat /\ n - 1 \in Nat /\ (n - 1) + 1 = n /\ \A i \in 1..n : s[i] \in Seq(S)
  BY <1>0, FlattenIs, ElementOfSeq
<1>2. front \in Seq(Seq(S)) /\ Len(front) = n - 1 /\ \A i \in 1..(n - 1) : front[i] = s[i]
  <2>1. front \in [1..(n - 1) -> Seq(S)]
    BY <1>1
  <2>2. \A i \in 1..(n - 1) : front[i] = s[i]
    OBVIOUS
  <2> HIDE DEF front, n
  <2> QED
    BY <1>1, <2>1, <2>2, FunctionIsSeq
<1> HIDE DEF front
<1>3. /\ Selection!FlattenSeq(s) = Selection!FlattenSeq(front) \o s[n]
      /\ Selection!FlattenSeq(front) \in Seq(S)
  BY <1>1, <1>2, FlattenGrows
<1>4. Selection!FlattenSeq(t) = Selection!FlattenSeq(front) \o t[n]
  <2>1. \A i \in 1..Len(front) : t[i] = front[i]
    BY <1>0, <1>2
  <2>2. Len(t) = Len(front) + 1
    BY <1>0, <1>1, <1>2
  <2>3. Selection!FlattenSeq(t) = Selection!FlattenSeq(front) \o t[Len(t)]
    BY <1>2, <2>1, <2>2, FlattenGrows
  <2> QED
    BY <1>0, <2>3
<1> DEFINE a == Selection!FlattenSeq(front)  b == s[n]
<1>5. a \in Seq(S) /\ b \in Seq(S) /\ t[n] = b \o x
      /\ Selection!FlattenSeq(s) = a \o b /\ Selection!FlattenSeq(t) = a \o t[n]
  BY <1>0, <1>1, <1>3, <1>4
<1> HIDE DEF a, b
<1>6. a \o t[n] = (a \o b) \o x
  <2>1. a \in Seq(S) /\ b \in Seq(S) /\ t[n] = b \o x
    BY <1>5
  <2> DEFINE p == t[n]
  <2> HIDE DEF p
  <2>2. a \in Seq(S) /\ b \in Seq(S) /\ p = b \o x
    BY <2>1 DEF p
  <2>3. a \o p = (a \o b) \o x
    BY <2>2, Associative
  <2> QED
    BY <2>3 DEF p
<1> QED
  BY <1>5, <1>6

Cuts == [chars : Seq(Glyphs), style : Nat, selected : BOOLEAN]
CharsOf(fragments) == [n \in DOMAIN fragments |-> fragments[n].chars]
MarkedOf(fragments) ==
  [n \in DOMAIN fragments |-> IF fragments[n].selected THEN fragments[n].chars ELSE <<>>]

LEMMA OfCuts ==
  ASSUME NEW cuts \in Seq(Cuts)
  PROVE  /\ Len(cuts) \in Nat
         /\ CharsOf(cuts) \in Seq(Seq(Glyphs)) /\ Len(CharsOf(cuts)) = Len(cuts)
         /\ MarkedOf(cuts) \in Seq(Seq(Glyphs)) /\ Len(MarkedOf(cuts)) = Len(cuts)
         /\ \A i \in 1..Len(cuts) :
              /\ cuts[i] \in Cuts
              /\ CharsOf(cuts)[i] = cuts[i].chars
              /\ MarkedOf(cuts)[i] = IF cuts[i].selected THEN cuts[i].chars ELSE <<>>
<1> DEFINE n == Len(cuts)
<1>1. n \in Nat /\ DOMAIN cuts = 1..n /\ \A i \in 1..n : cuts[i] \in Cuts
  BY LenProperties, ElementOfSeq
<1>2. \A i \in 1..n : cuts[i].chars \in Seq(Glyphs)
  <2> HIDE DEF n
  <2> QED
    BY <1>1 DEF Cuts
<1>3. <<>> \in Seq(Glyphs)
  BY EmptySeq
<1> HIDE DEF n
<1>4. /\ CharsOf(cuts) \in [1..n -> Seq(Glyphs)]
      /\ \A i \in 1..n : CharsOf(cuts)[i] = cuts[i].chars
  BY <1>1, <1>2 DEF CharsOf
<1>5. /\ MarkedOf(cuts) \in [1..n -> Seq(Glyphs)]
      /\ \A i \in 1..n : MarkedOf(cuts)[i] = IF cuts[i].selected THEN cuts[i].chars ELSE <<>>
  BY <1>1, <1>2, <1>3 DEF MarkedOf
<1>6. /\ CharsOf(cuts) \in Seq(Seq(Glyphs)) /\ Len(CharsOf(cuts)) = n
      /\ MarkedOf(cuts) \in Seq(Seq(Glyphs)) /\ Len(MarkedOf(cuts)) = n
  BY <1>1, <1>4, <1>5, FunctionIsSeq
<1> QED
  BY <1>1, <1>4, <1>5, <1>6 DEF n

\* A character is added to the text, and to what is selected when it is.
LEMMA AddedIs ==
  ASSUME NEW cuts \in Seq(Cuts), NEW char \in Glyphs, NEW is \in BOOLEAN
  PROVE  /\ Selection!Added(cuts, char, is) \in Seq(Cuts)
         /\ Selection!FlattenSeq(CharsOf(Selection!Added(cuts, char, is)))
              = Selection!FlattenSeq(CharsOf(cuts)) \o <<char>>
         /\ Selection!FlattenSeq(MarkedOf(Selection!Added(cuts, char, is)))
              = Selection!FlattenSeq(MarkedOf(cuts)) \o (IF is THEN <<char>> ELSE <<>>)
<1> DEFINE n == Len(cuts)
           new == Selection!Added(cuts, char, is)
           joins == /\ cuts # <<>>
                    /\ Selection!Last(cuts).style = char.style
                    /\ Selection!Last(cuts).selected = is
<1>1. n \in Nat /\ \A i \in 1..n : cuts[i] \in Cuts
  BY OfCuts
<1>2. <<char>> \in Seq(Glyphs) /\ Len(<<char>>) = 1 /\ <<>> \in Seq(Glyphs)
  BY EmptySeq
<1>3. CASE joins
  <2>1. n > 0 /\ n \in 1..n
    BY <1>3, <1>1, EmptySeq
  <2>2. cuts[n].selected = is
    BY <1>3 DEF Selection!Last
  <2>3. new = [cuts EXCEPT ![n].chars = Append(@, char)]
    BY <1>3 DEF Selection!Added
  <2> DEFINE last == [cuts[n] EXCEPT !.chars = Append(@, char)]
  <2>4. new = [cuts EXCEPT ![n] = last]
    BY <2>3
  <2>5. cuts[n].chars \in Seq(Glyphs) /\ cuts[n].style \in Nat /\ cuts[n].selected \in BOOLEAN
    BY <1>1, <2>1 DEF Cuts
  <2>6. Append(cuts[n].chars, char) = cuts[n].chars \o <<char>>
    <3> DEFINE c == cuts[n].chars
    <3>1. c \in Seq(Glyphs)
      BY <2>5
    <3> HIDE DEF c
    <3>2. Append(c, char) = c \o <<char>>
      BY <3>1
    <3> QED
      BY <3>2 DEF c
  <2>7. /\ last \in Cuts /\ last.chars = cuts[n].chars \o <<char>> /\ last.selected = is
    <3>1. cuts[n].chars \o <<char>> \in Seq(Glyphs)
      BY <1>2, <2>5, ConcatProperties
    <3>2. cuts[n] \in Cuts
      BY <1>1, <2>1
    <3> DEFINE c == Append(cuts[n].chars, char)
    <3>3. c \in Seq(Glyphs)
      BY <2>6, <3>1
    <3> HIDE DEF c
    <3>4. [cuts[n] EXCEPT !.chars = c] \in Cuts
      BY <3>2, <3>3 DEF Cuts
    <3>5. [cuts[n] EXCEPT !.chars = c].chars = c /\ [cuts[n] EXCEPT !.chars = c].selected = cuts[n].selected
      BY <3>2 DEF Cuts
    <3>6. last = [cuts[n] EXCEPT !.chars = c]
      BY DEF c
    <3> HIDE DEF last
    <3> QED
      BY <2>2, <2>6, <3>4, <3>5, <3>6 DEF c
  <2> HIDE DEF last
  <2>8. /\ new \in Seq(Cuts) /\ Len(new) = n
        /\ \A i \in 1..n : new[i] = IF i = n THEN last ELSE cuts[i]
    BY <2>1, <2>4, <2>7, ExceptSeq
  <2> HIDE DEF new
  <2>9. /\ Selection!FlattenSeq(CharsOf(new)) = Selection!FlattenSeq(CharsOf(cuts)) \o <<char>>
    <3> DEFINE s == CharsOf(cuts)  t == CharsOf(new)
    <3>1. s \in Seq(Seq(Glyphs)) /\ t \in Seq(Seq(Glyphs)) /\ Len(s) = n /\ Len(t) = n
      BY <2>8, OfCuts
    <3>2. \A i \in 1..(n - 1) : t[i] = s[i]
      <4> SUFFICES ASSUME NEW i \in 1..(n - 1) PROVE t[i] = s[i]
        OBVIOUS
      <4>1. i \in 1..n /\ i # n
        BY <1>1
      <4>2. s[i] = cuts[i].chars /\ t[i] = new[i].chars
        BY <2>8, <4>1, OfCuts
      <4> HIDE DEF s, t
      <4> QED
        BY <2>8, <4>1, <4>2
    <3>3. t[n] = s[n] \o <<char>>
      <4>1. s[n] = cuts[n].chars /\ t[n] = new[n].chars
        BY <2>1, <2>8, OfCuts
      <4>2. new[n] = last
        BY <2>1, <2>8
      <4> HIDE DEF s, t
      <4> QED
        BY <2>7, <4>1, <4>2
    <3> HIDE DEF s, t
    <3>4. LastGrows(s, t, <<char>>)
      BY <2>1, <3>1, <3>2, <3>3 DEF LastGrows
    <3>5. Selection!FlattenSeq(t) = Selection!FlattenSeq(s) \o <<char>>
      BY <1>2, <3>1, <3>4, FlattenGoesOn
    <3> QED
      BY <3>5 DEF s, t
  <2> DEFINE x == IF is THEN <<char>> ELSE <<>>
  <2>10. Selection!FlattenSeq(MarkedOf(new)) = Selection!FlattenSeq(MarkedOf(cuts)) \o x
    <3> DEFINE s == MarkedOf(cuts)  t == MarkedOf(new)
    <3>1. s \in Seq(Seq(Glyphs)) /\ t \in Seq(Seq(Glyphs)) /\ Len(s) = n /\ Len(t) = n
      BY <2>8, OfCuts
    <3>2. \A i \in 1..(n - 1) : t[i] = s[i]
      <4> SUFFICES ASSUME NEW i \in 1..(n - 1) PROVE t[i] = s[i]
        OBVIOUS
      <4>1. i \in 1..n /\ i # n
        BY <1>1
      <4>2. /\ s[i] = IF cuts[i].selected THEN cuts[i].chars ELSE <<>>
            /\ t[i] = IF new[i].selected THEN new[i].chars ELSE <<>>
        BY <2>8, <4>1, OfCuts
      <4>3. new[i] = cuts[i]
        BY <2>8, <4>1
      <4> HIDE DEF s, t
      <4> QED
        BY <4>2, <4>3
    <3>3. t[n] = s[n] \o x
      <4>1. /\ s[n] = IF cuts[n].selected THEN cuts[n].chars ELSE <<>>
            /\ t[n] = IF new[n].selected THEN new[n].chars ELSE <<>>
        BY <2>1, <2>8, OfCuts
      <4>2. new[n] = last
        BY <2>1, <2>8
      <4> HIDE DEF s, t
      <4>3. CASE is
        BY <2>2, <2>7, <4>1, <4>2, <4>3
      <4>4. CASE ~is
        <5>1. s[n] = <<>> /\ t[n] = <<>> /\ x = <<>>
          BY <2>2, <2>7, <4>1, <4>2, <4>4
        <5>2. <<>> \o <<>> = <<>>
          BY <1>2, ConcatEmptySeq
        <5> QED
          BY <5>1, <5>2
      <4> QED
        BY <4>3, <4>4
    <3>4. x \in Seq(Glyphs)
      BY <1>2
    <3> HIDE DEF s, t, x
    <3>5. Selection!FlattenSeq(t) = Selection!FlattenSeq(s) \o x
      <4>1. LastGrows(s, t, x)
        BY <2>1, <3>1, <3>2, <3>3 DEF LastGrows
      <4> QED
        BY <3>1, <3>4, <4>1, FlattenGoesOn
    <3> QED
      BY <3>5 DEF s, t
  <2> QED
    BY <2>8, <2>9, <2>10 DEF new
<1>4. CASE ~joins
  <2> DEFINE cut == [chars |-> <<char>>, style |-> char.style, selected |-> is]
  <2>1. new = Append(cuts, cut)
    BY <1>4 DEF Selection!Added
  <2>2. cut \in Cuts /\ cut.chars = <<char>> /\ cut.selected = is
    <3>1. char.style \in Nat
      BY DEF Glyphs
    <3> QED
      BY <1>2, <3>1 DEF Cuts
  <2> HIDE DEF cut
  <2>3. /\ new \in Seq(Cuts) /\ Len(new) = n + 1 /\ new[n + 1] = cut
        /\ \A i \in 1..n : new[i] = cuts[i]
    BY <1>1, <2>1, <2>2
  <2> HIDE DEF new
  <2>4. n + 1 \in 1..(n + 1) /\ \A i \in 1..n : i \in 1..(n + 1)
    BY <1>1
  <2>5. Selection!FlattenSeq(CharsOf(new)) = Selection!FlattenSeq(CharsOf(cuts)) \o <<char>>
    <3> DEFINE s == CharsOf(cuts)  t == CharsOf(new)
    <3>1. s \in Seq(Seq(Glyphs)) /\ t \in Seq(Seq(Glyphs)) /\ Len(s) = n /\ Len(t) = n + 1
      BY <2>3, OfCuts
    <3>2. \A i \in 1..n : t[i] = s[i]
      BY <2>3, <2>4, OfCuts
    <3>3. t[n + 1] = <<char>>
      BY <2>2, <2>3, <2>4, OfCuts
    <3> HIDE DEF s, t
    <3>4. Selection!FlattenSeq(t) = Selection!FlattenSeq(s) \o t[Len(t)]
      BY <3>1, <3>2, FlattenGrows
    <3> QED
      BY <3>1, <3>3, <3>4 DEF s, t
  <2>6. Selection!FlattenSeq(MarkedOf(new))
          = Selection!FlattenSeq(MarkedOf(cuts)) \o (IF is THEN <<char>> ELSE <<>>)
    <3> DEFINE s == MarkedOf(cuts)  t == MarkedOf(new)
    <3>1. s \in Seq(Seq(Glyphs)) /\ t \in Seq(Seq(Glyphs)) /\ Len(s) = n /\ Len(t) = n + 1
      BY <2>3, OfCuts
    <3>2. \A i \in 1..n : t[i] = s[i]
      BY <2>3, <2>4, OfCuts
    <3>3. t[n + 1] = IF is THEN <<char>> ELSE <<>>
      BY <2>2, <2>3, <2>4, OfCuts
    <3> HIDE DEF s, t
    <3>4. Selection!FlattenSeq(t) = Selection!FlattenSeq(s) \o t[Len(t)]
      BY <3>1, <3>2, FlattenGrows
    <3> QED
      BY <3>1, <3>3, <3>4 DEF s, t
  <2> QED
    BY <2>3, <2>5, <2>6 DEF new
<1> QED
  BY <1>3, <1>4

LEMMA FlattenEmpty == Selection!FlattenSeq(<<>>) = <<>>
<1>1. Len(<<>>) = 0
  OBVIOUS
<1> QED
  BY <1>1 DEF Selection!FlattenSeq

\* The characters of a line that are selected, each one for itself.
PickedOf(line, row, selection) ==
  [i \in DOMAIN line.chars |->
     IF Selection!Selected(line, row, selection, i) THEN <<line.chars[i]>> ELSE <<>>]

\* The fragments of a line are all of its characters, and the selected ones those
\* that are selected.
LEMMA FragmentsAre ==
  ASSUME NEW line \in AnyLine, NEW row, NEW selection
  PROVE  /\ Selection!Fragments(line, row, selection) \in Seq(Cuts)
         /\ Selection!FlattenSeq(CharsOf(Selection!Fragments(line, row, selection))) = line.chars
         /\ PickedOf(line, row, selection) \in Seq(Seq(Glyphs))
         /\ Len(PickedOf(line, row, selection)) = Len(line.chars)
         /\ Selection!FlattenSeq(MarkedOf(Selection!Fragments(line, row, selection)))
              = Selection!FlattenSeq(PickedOf(line, row, selection))
<1> DEFINE chars == line.chars
           n == Len(chars)
           Is(i) == Selection!Selected(line, row, selection, i)
           V == Seq(Cuts)
           step == [p \in (1..n) \X V |-> Selection!Added(p[2], chars[p[1]], Is(p[1]))]
<1>0. \A i : Is(i) \in BOOLEAN
  BY DEF Selection!Selected
<1>1. chars \in Seq(Glyphs) /\ n \in Nat /\ DOMAIN chars = 1..n /\ \A i \in 1..n : chars[i] \in Glyphs
  <2>1. chars \in Seq(Glyphs)
    BY DEF AnyLine
  <2> HIDE DEF chars
  <2> QED
    BY <2>1, LenProperties, ElementOfSeq
<1>2. Selection!Fragments(line, row, selection)
        = (CHOOSE g : g = [i \in 0..n |-> IF i = 0 THEN <<>>
                                          ELSE Selection!Added(g[i - 1], chars[i], Is(i))])[n]
  BY DEF Selection!Fragments
<1> HIDE DEF Is, chars, n
<1>3. <<>> \in V
  BY EmptySeq
<1>4. step \in [(1..n) \X V -> V]
  <2>1. ASSUME NEW i \in 1..n, NEW cuts \in V PROVE Selection!Added(cuts, chars[i], Is(i)) \in V
    BY <1>0, <1>1, AddedIs
  <2> HIDE DEF V
  <2> QED
    BY <2>1
<1>5. \E f : GivenBy(f, V, <<>>, n, step)
  <2>1. n \in Nat
    BY <1>1
  <2> HIDE DEF V, step
  <2> QED
    BY <1>3, <1>4, <2>1, RecursionIs
<1>6. PICK f : GivenBy(f, V, <<>>, n, step)
  BY <1>5
<1>7. /\ f \in [0..n -> V] /\ f[0] = <<>>
      /\ \A i \in 1..n : f[i] = Selection!Added(f[i - 1], chars[i], Is(i)) /\ f[i - 1] \in V
  <2>1. f \in [0..n -> V] /\ f[0] = <<>> /\ \A i \in 1..n : f[i] = step[<<i, f[i - 1]>>]
    BY <1>6 DEF GivenBy
  <2>2. ASSUME NEW i \in 1..n
        PROVE  f[i] = Selection!Added(f[i - 1], chars[i], Is(i)) /\ f[i - 1] \in V
    <3> HIDE DEF V
    <3>1. i - 1 \in 0..n
      BY <1>1
    <3>2. f[i - 1] \in V
      BY <2>1, <3>1
    <3>3. step[<<i, f[i - 1]>>] = Selection!Added(f[i - 1], chars[i], Is(i))
      BY <3>2
    <3> HIDE DEF step
    <3> QED
      BY <2>1, <3>2, <3>3
  <2> QED
    BY <2>1, <2>2
<1> HIDE DEF step
<1> DEFINE G(g) == g = [i \in 0..n |-> IF i = 0 THEN <<>>
                                       ELSE Selection!Added(g[i - 1], chars[i], Is(i))]
           made == CHOOSE g : G(g)
<1>8. G(f)
  <2>1. \A i \in 0..n : f[i] = IF i = 0 THEN <<>> ELSE Selection!Added(f[i - 1], chars[i], Is(i))
    <3>1. \A i \in 0..n : i # 0 => i \in 1..n
      BY <1>1
    <3> HIDE DEF V
    <3> QED
      BY <1>7, <3>1
  <2>2. f = [i \in 0..n |-> f[i]]
    BY <1>7
  <2> QED
    BY <2>1, <2>2
<1>9. G(made)
  <2> HIDE DEF G
  <2> QED
    BY <1>8
<1>10. Selection!Fragments(line, row, selection) = made[n]
  BY <1>2
<1> HIDE DEF made, V
<1>11. f[n] = made[n]
  <2>1. \A i \in 0..n : made[i] = IF i = 0 THEN <<>> ELSE Selection!Added(made[i - 1], chars[i], Is(i))
    BY <1>9
  <2>2. f[0] = made[0]
    <3>1. 0 \in 0..n
      BY <1>1
    <3> QED
      BY <1>7, <2>1, <3>1
  <2>3. \A i \in 1..n : f[i - 1] = made[i - 1] => f[i] = made[i]
    <3> SUFFICES ASSUME NEW i \in 1..n, f[i - 1] = made[i - 1] PROVE f[i] = made[i]
      OBVIOUS
    <3>1. i \in 0..n /\ i # 0
      BY <1>1
    <3>2. made[i] = Selection!Added(made[i - 1], chars[i], Is(i))
      BY <2>1, <3>1
    <3> QED
      BY <1>7, <3>2
  <2>4. n \in Nat
    BY <1>1
  <2>5. GoOnAlike(f, made, n)
    BY <2>2, <2>3 DEF GoOnAlike
  <2>6. AreAlike(f, made, n)
    BY <2>4, <2>5, SameFrom
  <2> QED
    BY <2>4, <2>6 DEF AreAlike
<1> DEFINE Bit(i) == IF Is(i) THEN <<chars[i]>> ELSE <<>>
           Bits(k) == [i \in 1..k |-> Bit(i)]
           Good(k) == /\ Selection!FlattenSeq(CharsOf(f[k])) = SubSeq(chars, 1, k)
                      /\ Selection!FlattenSeq(MarkedOf(f[k])) = Selection!FlattenSeq(Bits(k))
           T == {k \in Nat : k <= n => Good(k)}
<1>12. ASSUME NEW k \in Nat, k <= n
       PROVE  /\ Bits(k) \in Seq(Seq(Glyphs)) /\ Len(Bits(k)) = k
              /\ \A i \in 1..k : Bits(k)[i] = Bit(i)
  <2>1. \A i \in 1..n : Bit(i) \in Seq(Glyphs)
    <3>1. ASSUME NEW i \in 1..n PROVE Bit(i) \in Seq(Glyphs)
      <4>1. <<>> \in Seq(Glyphs) /\ chars[i] \in Glyphs
        BY <1>1, EmptySeq
      <4> QED
        BY <4>1
    <3> QED
      BY <3>1
  <2> HIDE DEF Bit
  <2>2. \A i \in 1..k : i \in 1..n
    BY <1>1, <1>12
  <2>3. Bits(k) \in [1..k -> Seq(Glyphs)] /\ \A i \in 1..k : Bits(k)[i] = Bit(i)
    BY <2>1, <2>2
  <2> HIDE DEF Bits
  <2> QED
    BY <2>3, FunctionIsSeq
<1> HIDE DEF Bit
<1>13. 0 \in T
  <2>1. CharsOf(<<>>) = <<>> /\ MarkedOf(<<>>) = <<>> /\ Bits(0) = <<>>
    <3>1. <<>> \in Seq(Cuts) /\ Len(<<>>) = 0
      BY EmptySeq
    <3>2. CharsOf(<<>>) \in Seq(Seq(Glyphs)) /\ Len(CharsOf(<<>>)) = 0
          /\ MarkedOf(<<>>) \in Seq(Seq(Glyphs)) /\ Len(MarkedOf(<<>>)) = 0
      BY <3>1, OfCuts
    <3>3. Bits(0) \in Seq(Seq(Glyphs)) /\ Len(Bits(0)) = 0
      BY <1>1, <1>12
    <3> HIDE DEF Bits
    <3> QED
      BY <3>2, <3>3, EmptySeq
  <2>2. SubSeq(chars, 1, 0) = <<>>
    BY SubSeqEmpty
  <2> HIDE DEF Bits
  <2>3. Good(0)
    BY <1>7, <2>1, <2>2, FlattenEmpty
  <2> QED
    BY <2>3
<1>14. ASSUME NEW k \in Nat, k \in T PROVE k + 1 \in T
  <2> SUFFICES ASSUME k + 1 <= n PROVE Good(k + 1)
    OBVIOUS
  <2>1. k <= n /\ k + 1 \in 1..n /\ (k + 1) - 1 = k /\ k \in 0..n
    BY <1>1
  <2>2. Good(k)
    BY <1>14, <2>1
  <2>3. f[k + 1] = Selection!Added(f[k], chars[k + 1], Is(k + 1)) /\ f[k] \in Seq(Cuts)
    BY <1>7, <2>1 DEF V
  <2>4. chars[k + 1] \in Glyphs /\ Is(k + 1) \in BOOLEAN
    BY <1>0, <1>1, <2>1
  <2>5. /\ Selection!FlattenSeq(CharsOf(f[k + 1]))
             = Selection!FlattenSeq(CharsOf(f[k])) \o <<chars[k + 1]>>
        /\ Selection!FlattenSeq(MarkedOf(f[k + 1]))
             = Selection!FlattenSeq(MarkedOf(f[k])) \o Bit(k + 1)
    <3> DEFINE p == f[k]  c == chars[k + 1]  is == Is(k + 1)  q == f[k + 1]
    <3>1. q = Selection!Added(p, c, is) /\ p \in Seq(Cuts) /\ c \in Glyphs /\ is \in BOOLEAN
      BY <2>3, <2>4
    <3>2. Bit(k + 1) = IF is THEN <<c>> ELSE <<>>
      BY DEF Bit
    <3> HIDE DEF p, c, is, q
    <3>3. /\ Selection!FlattenSeq(CharsOf(q)) = Selection!FlattenSeq(CharsOf(p)) \o <<c>>
          /\ Selection!FlattenSeq(MarkedOf(q))
               = Selection!FlattenSeq(MarkedOf(p)) \o (IF is THEN <<c>> ELSE <<>>)
      BY <3>1, AddedIs
    <3> QED
      BY <3>2, <3>3 DEF p, c, q
  <2>6. SubSeq(chars, 1, k + 1) = SubSeq(chars, 1, k) \o <<chars[k + 1]>>
    <3>1. 1 \in 1..Len(chars) /\ k + 1 \in 1..Len(chars)
      BY <1>1, <2>1 DEF n
    <3>2. SubSeq(chars, 1, k + 1) = SubSeq(chars, 1, (k + 1) - 1) \o <<chars[k + 1]>>
      BY <1>1, <3>1, SubSeqRecursiveSecond
    <3> QED
      BY <2>1, <3>2
  <2>7. Selection!FlattenSeq(Bits(k + 1)) = Selection!FlattenSeq(Bits(k)) \o Bit(k + 1)
    <3>1. /\ Bits(k) \in Seq(Seq(Glyphs)) /\ Len(Bits(k)) = k
          /\ \A i \in 1..k : Bits(k)[i] = Bit(i)
      BY <1>12, <2>1
    <3>2. /\ Bits(k + 1) \in Seq(Seq(Glyphs)) /\ Len(Bits(k + 1)) = k + 1
          /\ \A i \in 1..(k + 1) : Bits(k + 1)[i] = Bit(i)
      BY <1>12, <2>1
    <3> DEFINE s == Bits(k)  t == Bits(k + 1)
    <3> HIDE DEF Bits
    <3>3. Len(t) = Len(s) + 1 /\ (\A i \in 1..Len(s) : t[i] = s[i]) /\ t[Len(t)] = Bit(k + 1)
      <4>1. \A i \in 1..k : i \in 1..(k + 1)
        OBVIOUS
      <4> QED
        BY <3>1, <3>2, <4>1
    <3>4. s \in Seq(Seq(Glyphs)) /\ t \in Seq(Seq(Glyphs))
      BY <3>1, <3>2
    <3> HIDE DEF s, t
    <3>5. Selection!FlattenSeq(t) = Selection!FlattenSeq(s) \o t[Len(t)]
      BY <3>3, <3>4, FlattenGrows
    <3> QED
      BY <3>3, <3>5 DEF s, t
  <2> HIDE DEF Bits
  <2> QED
    BY <2>2, <2>5, <2>6, <2>7
<1>15. Good(n)
  <2> HIDE DEF T
  <2>1. n \in T
    BY <1>1, <1>13, <1>14, SetInduction
  <2> HIDE DEF Good
  <2> QED
    BY <1>1, <2>1 DEF T
<1>16. SubSeq(chars, 1, n) = chars
  BY <1>1, SubSeqFull DEF n
<1>17. PickedOf(line, row, selection) = Bits(n)
  BY <1>1 DEF PickedOf, Bit, Is, chars
<1>18. f[n] \in Seq(Cuts)
  <2>1. n \in 0..n
    BY <1>1
  <2> QED
    BY <1>7, <2>1 DEF V
<1>19. Bits(n) \in Seq(Seq(Glyphs)) /\ Len(Bits(n)) = n
  BY <1>1, <1>12
<1> HIDE DEF Bits
<1> QED
  BY <1>10, <1>11, <1>15, <1>16, <1>17, <1>18, <1>19 DEF chars, n

-----------------------------------------------------------------------------
(* TerminalSelection: drags                                                *)

AnyPoint == Nat \X Nat
AnyFrame == [lines : Seq(AnyLine), history : Nat, offset : Nat]
AnyStep == [frame : AnyFrame, point : AnyPoint]
Selections == [anchor : AnyPoint, head : AnyPoint, frame : AnyFrame]
DragStates == [origin : AnyPoint, selection : {Selection!Nothing} \cup Selections]

LEMMA PointsAre ==
  /\ \A m, n \in Nat : /\ Selection!Above(m, n) \in Nat
                       /\ m > n => Selection!Above(m, n) = m - n
                       /\ m <= n => Selection!Above(m, n) = 0
  /\ \A view_ \in AnyFrame : /\ Selection!StartRow(view_) \in Nat /\ Len(view_.lines) \in Nat
                              /\ \A i \in 1..Len(view_.lines) : view_.lines[i] \in AnyLine
  /\ \A view_ \in AnyFrame, point \in AnyPoint : Selection!BufferPoint(view_, point) \in AnyPoint
<1>1. \A m, n \in Nat : /\ Selection!Above(m, n) \in Nat
                        /\ m > n => Selection!Above(m, n) = m - n
                        /\ m <= n => Selection!Above(m, n) = 0
  BY DEF Selection!Above
<1>2. ASSUME NEW view_ \in AnyFrame
      PROVE  /\ Selection!StartRow(view_) \in Nat /\ Len(view_.lines) \in Nat
             /\ \A i \in 1..Len(view_.lines) : view_.lines[i] \in AnyLine
  <2>1. view_.history \in Nat /\ view_.offset \in Nat /\ view_.lines \in Seq(AnyLine)
    BY DEF AnyFrame
  <2>2. Selection!StartRow(view_) \in Nat
    BY <1>1, <2>1 DEF Selection!StartRow
  <2> QED
    BY <2>1, <2>2, LenProperties, ElementOfSeq
<1>3. ASSUME NEW view_ \in AnyFrame, NEW point \in AnyPoint
      PROVE  Selection!BufferPoint(view_, point) \in AnyPoint
  <2>1. Selection!StartRow(view_) \in Nat
    BY <1>2
  <2>2. point[1] \in Nat /\ point[2] \in Nat
    BY DEF AnyPoint
  <2>3. Selection!StartRow(view_) + point[1] \in Nat
    BY <2>1, <2>2
  <2> QED
    BY <2>2, <2>3 DEF Selection!BufferPoint, AnyPoint
<1> QED
  BY <1>1, <1>2, <1>3

\* A drag selects between two points of the frame it began in.
LEMMA DragsAre ==
  ASSUME NEW steps \in Seq(AnyStep), steps # <<>>
  PROVE  Selection!Dragged(steps) \in {Selection!Nothing} \cup Selections
<1> DEFINE n == Len(steps)
           V == DragStates
<1>1. n \in Nat /\ n > 0 /\ \A i \in 1..n : steps[i] \in AnyStep
  BY EmptySeq, LenProperties, ElementOfSeq
<1>2. ASSUME NEW step \in AnyStep PROVE Selection!Begin(step) \in V
  <2>1. step.frame \in AnyFrame /\ step.point \in AnyPoint
    BY DEF AnyStep
  <2>2. Selection!BufferPoint(step.frame, step.point) \in AnyPoint
    BY <2>1, PointsAre
  <2> QED
    BY <2>2 DEF Selection!Begin, DragStates
<1>3. ASSUME NEW state \in V, NEW step \in AnyStep PROVE Selection!Extend(state, step) \in V
  <2>1. step.frame \in AnyFrame /\ step.point \in AnyPoint
    BY DEF AnyStep
  <2> DEFINE point == Selection!BufferPoint(step.frame, step.point)
  <2>2. point \in AnyPoint
    BY <2>1, PointsAre
  <2>3. state.origin \in AnyPoint /\ state.selection \in {Selection!Nothing} \cup Selections
    BY DEF DragStates
  <2>4. CASE state.selection # Selection!Nothing
    <3>1. Selection!Extend(state, step) = [state EXCEPT !.selection.head = point]
      BY <2>4 DEF Selection!Extend
    <3>2. state.selection \in Selections
      BY <2>3, <2>4
    <3> HIDE DEF point
    <3> DEFINE moved == [state.selection EXCEPT !.head = point]
    <3>3. moved \in Selections
      BY <2>2, <3>2 DEF Selections
    <3>4. [state EXCEPT !.selection.head = point] = [state EXCEPT !.selection = moved]
      OBVIOUS
    <3> HIDE DEF moved
    <3>5. [state EXCEPT !.selection = moved] \in DragStates
      BY <3>3 DEF DragStates
    <3> QED
      BY <3>1, <3>4, <3>5
  <2>5. CASE state.selection = Selection!Nothing /\ state.origin = point
    BY <2>5 DEF Selection!Extend
  <2>6. CASE state.selection = Selection!Nothing /\ state.origin # point
    <3> DEFINE made == [anchor |-> state.origin, head |-> point, frame |-> step.frame]
    <3>1. Selection!Extend(state, step) = [state EXCEPT !.selection = made]
      BY <2>6 DEF Selection!Extend
    <3>2. made \in Selections
      BY <2>1, <2>2, <2>3 DEF Selections
    <3> HIDE DEF made, point
    <3>3. [state EXCEPT !.selection = made] \in DragStates
      BY <3>2 DEF DragStates
    <3> QED
      BY <3>1, <3>3
  <2> QED
    BY <2>4, <2>5, <2>6
<1> DEFINE Go(g, i) == IF i = 1 THEN Selection!Begin(steps[1])
                       ELSE Selection!Extend(g[i - 1], steps[i])
           G(g) == g = [i \in 1..n |-> Go(g, i)]
           state == CHOOSE g : G(g)
<1>4. Selection!Dragged(steps) = state[n].selection
  BY DEF Selection!Dragged
<1> DEFINE base == Selection!Begin(steps[1])
           step == [p \in (1..(n - 1)) \X V |-> Selection!Extend(p[2], steps[p[1] + 1])]
<1>5. base \in V
  BY <1>1, <1>2
<1>6. step \in [(1..(n - 1)) \X V -> V]
  <2>1. ASSUME NEW i \in 1..(n - 1), NEW from \in V PROVE Selection!Extend(from, steps[i + 1]) \in V
    <3>1. i + 1 \in 1..n
      BY <1>1
    <3>2. steps[i + 1] \in AnyStep
      BY <1>1, <3>1
    <3> HIDE DEF V
    <3> QED
      BY <1>3, <3>2
  <2> HIDE DEF V
  <2> QED
    BY <2>1
<1> HIDE DEF base
<1>7. PICK f : GivenBy(f, V, base, n - 1, step)
  <2>1. n - 1 \in Nat
    BY <1>1
  <2> HIDE DEF V, step
  <2>2. \E f : GivenBy(f, V, base, n - 1, step)
    BY <1>5, <1>6, <2>1, RecursionIs
  <2> QED
    BY <2>2
<1> DEFINE h == [i \in 1..n |-> f[i - 1]]
<1> HIDE DEF V
<1>8. /\ f \in [0..(n - 1) -> V] /\ f[0] = base
      /\ \A i \in 1..(n - 1) : f[i] = Selection!Extend(f[i - 1], steps[i + 1])
  <2>1. /\ f \in [0..(n - 1) -> V] /\ f[0] = base
        /\ \A i \in 1..(n - 1) : f[i] = step[<<i, f[i - 1]>>]
    BY <1>7 DEF GivenBy
  <2>2. ASSUME NEW i \in 1..(n - 1) PROVE f[i] = Selection!Extend(f[i - 1], steps[i + 1])
    <3>1. i - 1 \in 0..(n - 1)
      BY <1>1
    <3>2. f[i - 1] \in V
      BY <2>1, <3>1
    <3>3. step[<<i, f[i - 1]>>] = Selection!Extend(f[i - 1], steps[i + 1])
      BY <3>2
    <3> HIDE DEF step
    <3> QED
      BY <2>1, <3>3
  <2> QED
    BY <2>1, <2>2
<1> HIDE DEF step
<1>9. /\ \A i \in 1..n : h[i] = f[i - 1]
      /\ h = [i \in 1..n |-> h[i]]
  OBVIOUS
<1> HIDE DEF h
<1>10. G(h)
  <2>1. ASSUME NEW i \in 1..n PROVE h[i] = Go(h, i)
    <3>1. CASE i = 1
      <4>1. h[1] = f[0]
        BY <1>9, <3>1
      <4> QED
        BY <1>8, <3>1, <4>1 DEF base
    <3>2. CASE i # 1
      <4>1. i - 1 \in 1..(n - 1) /\ i - 1 \in 1..n /\ (i - 1) + 1 = i
        BY <1>1, <3>2
      <4>2. f[i - 1] = Selection!Extend(f[(i - 1) - 1], steps[i])
        BY <1>8, <4>1
      <4>3. h[i - 1] = f[(i - 1) - 1] /\ h[i] = f[i - 1]
        BY <1>9, <4>1
      <4> QED
        BY <3>2, <4>2, <4>3
    <3> QED
      BY <3>1, <3>2
  <2> HIDE DEF Go
  <2> QED
    BY <1>9, <2>1
<1>11. G(state)
  <2> HIDE DEF G
  <2> QED
    BY <1>10
<1> HIDE DEF state
<1>12. \A i \in 1..n : state[i] = Go(state, i)
  <2> HIDE DEF Go
  <2> QED
    BY <1>11
<1> DEFINE T == {k \in Nat : k + 1 <= n => state[k + 1] \in V}
<1>13. 0 \in T
  <2>1. 1 \in 1..n
    BY <1>1
  <2>2. state[1] = base
    BY <1>12, <2>1 DEF base
  <2> QED
    BY <1>5, <2>2
<1>14. ASSUME NEW k \in Nat, k \in T PROVE k + 1 \in T
  <2> SUFFICES ASSUME (k + 1) + 1 <= n PROVE state[(k + 1) + 1] \in V
    OBVIOUS
  <2>1. /\ (k + 1) + 1 \in 1..n /\ (k + 1) + 1 # 1 /\ ((k + 1) + 1) - 1 = k + 1 /\ k + 1 <= n
    BY <1>1
  <2>2. state[k + 1] \in V
    BY <1>14, <2>1
  <2>3. state[(k + 1) + 1] = Selection!Extend(state[k + 1], steps[(k + 1) + 1])
    BY <1>12, <2>1
  <2>4. steps[(k + 1) + 1] \in AnyStep
    BY <1>1, <2>1
  <2> QED
    BY <1>3, <2>2, <2>3, <2>4
<1>15. state[n] \in V
  <2> HIDE DEF T
  <2>1. n - 1 \in Nat /\ (n - 1) + 1 = n
    BY <1>1
  <2>2. n - 1 \in T
    BY <1>13, <1>14, <2>1, SetInduction
  <2> QED
    BY <2>1, <2>2 DEF T
<1> QED
  BY <1>4, <1>15 DEF V, DragStates

\* What is covered is in the rows between the ends.
LEMMA CoversAre ==
  ASSUME NEW selection \in Selections
  PROVE  /\ Selection!From(selection)[1] \in Nat /\ Selection!To(selection)[1] \in Nat
         /\ \A row \in Nat : \A column : Selection!Covers(selection, <<row, column>>) =>
              Selection!From(selection)[1] <= row /\ row <= Selection!To(selection)[1]
<1>1. selection.anchor \in AnyPoint /\ selection.head \in AnyPoint
  BY DEF Selections
<1>2. Selection!From(selection) \in AnyPoint /\ Selection!To(selection) \in AnyPoint
  BY <1>1 DEF Selection!From, Selection!To
<1> DEFINE p == Selection!From(selection)  q == Selection!To(selection)
<1>3. p[1] \in Nat /\ q[1] \in Nat
  BY <1>2 DEF AnyPoint
<1>4. ASSUME NEW row \in Nat, NEW column, Selection!Covers(selection, <<row, column>>)
      PROVE  p[1] <= row /\ row <= q[1]
  <2> DEFINE r == <<row, column>>
  <2>1. Selection!NotAfter(p, r) /\ Selection!NotAfter(r, q)
    BY <1>4 DEF Selection!Covers
  <2>2. r[1] = row
    OBVIOUS
  <2> HIDE DEF p, q, r
  <2>3. (p[1] < row \/ p[1] = row) /\ (row < q[1] \/ row = q[1])
    BY <2>1, <2>2 DEF Selection!NotAfter
  <2> QED
    BY <1>3, <2>3
<1> QED
  BY <1>3, <1>4

\* What of a line is copied is what is drawn as selected, and nothing in a row
\* that is not of the selection.
LEMMA KeptIs ==
  ASSUME NEW selection \in Selections, selection # Selection!Nothing,
         NEW line \in AnyLine, NEW row \in Nat
  PROVE  /\ [i \in DOMAIN line.chars |->
               IF Selection!Covers(selection, <<row, Selection!Columns(line)[i]>>)
               THEN <<line.chars[i]>> ELSE <<>>]
            = PickedOf(line, row, selection)
         /\ Selection!FlattenSeq(PickedOf(line, row, selection)) \in Seq(Glyphs)
         /\ ~(Selection!From(selection)[1] <= row /\ row <= Selection!To(selection)[1]) =>
              Selection!FlattenSeq(PickedOf(line, row, selection)) = <<>>
<1> DEFINE In(i) == Selection!Covers(selection, <<row, Selection!Columns(line)[i]>>)
           low == Selection!From(selection)[1]
           high == Selection!To(selection)[1]
           picked == PickedOf(line, row, selection)
<1>1. low \in Nat /\ high \in Nat /\ \A i : In(i) => low <= row /\ row <= high
  BY CoversAre
<1>2. \A i : Selection!Selected(line, row, selection, i) <=> In(i)
  <2>1. \A i : Selection!Selected(line, row, selection, i) <=> row \in low..high /\ In(i)
    BY DEF Selection!Selected
  <2>2. low <= row /\ row <= high => row \in low..high
    BY <1>1
  <2> HIDE DEF In, low, high
  <2> QED
    BY <1>1, <2>1, <2>2
<1>3. picked = [i \in DOMAIN line.chars |-> IF In(i) THEN <<line.chars[i]>> ELSE <<>>]
  <2> HIDE DEF In
  <2> QED
    BY <1>2 DEF PickedOf
<1>4. picked \in Seq(Seq(Glyphs)) /\ Len(picked) = Len(line.chars)
  BY FragmentsAre
<1>5. Selection!FlattenSeq(picked) \in Seq(Glyphs)
  <2>1. PICK f \in [0..Len(picked) -> Seq(Glyphs)] : Selection!FlattenSeq(picked) = f[Len(picked)]
    BY <1>4, FlattenIs
  <2>2. Len(picked) \in Nat
    BY <1>4, FlattenIs
  <2> HIDE DEF picked
  <2> QED
    BY <2>1, <2>2
<1>6. ASSUME ~(low <= row /\ row <= high) PROVE Selection!FlattenSeq(picked) = <<>>
  <2>1. \A i \in 1..Len(picked) : picked[i] = <<>>
    <3>1. \A i : ~In(i)
      <4> HIDE DEF In, low, high
      <4> QED
        BY <1>1, <1>6
    <3>2. DOMAIN line.chars = 1..Len(picked)
      BY <1>4, ColumnsAre
    <3> HIDE DEF In, picked
    <3> QED
      BY <1>3, <3>1, <3>2
  <2> HIDE DEF picked
  <2> DEFINE none == <<>>
  <2>2. none \in Seq(Seq(Glyphs)) /\ Len(none) = 0
    BY EmptySeq
  <2>3. Len(picked) \in Nat
    BY <1>4, FlattenIs
  <2>4. none = <<>>
    OBVIOUS
  <2> HIDE DEF none
  <2>5. AllOf(none, picked, 0)
    BY <2>1, <2>2, <2>3 DEF AllOf
  <2>6. Selection!FlattenSeq(picked) = Selection!FlattenSeq(none)
    <3>1. picked \in Seq(Seq(Glyphs)) /\ none \in Seq(Seq(Glyphs))
      BY <1>4, <2>2
    <3>2. \A a \in Nat : AllOf(none, picked, a) =>
            Selection!FlattenSeq(picked) = Selection!FlattenSeq(none)
      BY <3>1, FlattenSkips
    <3> QED
      BY <2>5, <3>2
  <2> QED
    BY <2>4, <2>6, FlattenEmpty
<1> QED
  BY <1>3, <1>5, <1>6

\* The text of a selection, line by line of its frame.
TextOf(selection) ==
  LET lines == selection.frame.lines
      row(i) == Selection!StartRow(selection.frame) + i - 1
      broken(i) == /\ i < Len(lines) /\ ~lines[i].wrapped
                   /\ Selection!From(selection)[1] <= row(i)
                   /\ row(i) < Selection!To(selection)[1]
  IN [i \in 1..Len(lines) |->
        Selection!FlattenSeq(PickedOf(lines[i], row(i), selection))
          \o (IF broken(i) THEN <<Selection!NewLine>> ELSE <<>>)]

LEMMA TextIs ==
  ASSUME NEW selection \in Selections, selection # Selection!Nothing
  PROVE  Selection!SelectedText(selection) = Selection!FlattenSeq(TextOf(selection))
<1> DEFINE lines == selection.frame.lines
           m == Len(lines)
           at == Selection!StartRow(selection.frame)
           text == TextOf(selection)
           low == Selection!From(selection)[1]
           high == Selection!To(selection)[1]
           start == Selection!Above(low, at)
           last == Selection!Above(high, at)
           end == IF last < m THEN last ELSE m - 1
           Row(i) == Selection!FlattenSeq(PickedOf(lines[i], at + i - 1, selection))
           Broken(i) == /\ i < m /\ ~lines[i].wrapped
                        /\ low <= at + i - 1 /\ at + i - 1 < high
           Tail1(is) == IF is THEN <<Selection!NewLine>> ELSE <<>>
           Text(i) == Row(i) \o Tail1(Broken(i))
           Goes(index) == index < end /\ ~lines[index + 1].wrapped
           Taken(line, row) ==
             [i \in DOMAIN line.chars |->
                IF Selection!Covers(selection, <<row, Selection!Columns(line)[i]>>)
                THEN <<line.chars[i]>> ELSE <<>>]
           Piece(index) ==
             Selection!FlattenSeq(Taken(lines[index + 1], index + at)) \o Tail1(Goes(index))
           k == Selection!Above(end + 1, start)
           piece == [n \in 1..k |-> Piece(start + n - 1)]
<1>1. Selection!SelectedText(selection) = Selection!FlattenSeq(piece)
  BY DEF Selection!SelectedText, Selection!RowOf
<1>2. text = [i \in 1..m |-> Text(i)]
  BY DEF TextOf
<1>3. /\ at \in Nat /\ m \in Nat /\ low \in Nat /\ high \in Nat
      /\ \A i \in 1..m : lines[i] \in AnyLine
  <2>1. selection.frame \in AnyFrame
    BY DEF Selections
  <2> QED
    BY <2>1, PointsAre, CoversAre
<1> HIDE DEF lines, low, high, m, at, text
<1>4. /\ start \in Nat /\ last \in Nat
      /\ low > at => start = low - at
      /\ low <= at => start = 0
      /\ high > at => last = high - at
      /\ high <= at => last = 0
  BY <1>3, PointsAre
<1> HIDE DEF start, last
<1>5. /\ end \in Int /\ end < m /\ end <= last /\ end >= -1
      /\ m > 0 => end >= 0
      /\ last < m => end = last
      /\ last >= m => end = m - 1
  BY <1>3, <1>4
<1> HIDE DEF end
<1>6. /\ k \in Nat
      /\ end + 1 > start => k = end + 1 - start
      /\ end + 1 <= start => k = 0
  <2> DEFINE e == end + 1
  <2>1. e \in Nat /\ (end + 1 > start <=> e > start) /\ end + 1 - start = e - start
    BY <1>4, <1>5
  <2> HIDE DEF e
  <2>2. /\ Selection!Above(e, start) \in Nat
        /\ e > start => Selection!Above(e, start) = e - start
        /\ e <= start => Selection!Above(e, start) = 0
    BY <1>4, <2>1, PointsAre
  <2> QED
    BY <1>4, <2>1, <2>2 DEF e
<1> HIDE DEF k
<1>7. ASSUME NEW i \in 1..m
      PROVE  /\ Taken(lines[i], at + i - 1) = PickedOf(lines[i], at + i - 1, selection)
             /\ Row(i) \in Seq(Glyphs)
             /\ ~(low <= at + i - 1 /\ at + i - 1 <= high) => Row(i) = <<>>
  <2>1. at + i - 1 \in Nat /\ lines[i] \in AnyLine
    BY <1>3
  <2> QED
    BY <2>1, KeptIs DEF low, high
<1>8. \A is \in BOOLEAN : Tail1(is) \in Seq(Glyphs)
  <2>1. Selection!NewLine \in Glyphs
    BY DEF Selection!NewLine, Glyphs
  <2>2. <<Selection!NewLine>> \in Seq(Glyphs) /\ <<>> \in Seq(Glyphs)
    BY <2>1, EmptySeq
  <2> QED
    BY <2>2
<1>9. \A i : Broken(i) \in BOOLEAN /\ Goes(i) \in BOOLEAN
  OBVIOUS
<1>10. ASSUME NEW i \in 1..m PROVE Text(i) \in Seq(Glyphs)
  <2> HIDE DEF Row, Tail1, Broken
  <2>1. Row(i) \in Seq(Glyphs) /\ Tail1(Broken(i)) \in Seq(Glyphs)
    BY <1>7, <1>8, <1>9
  <2> QED
    BY <2>1, ConcatProperties
<1>11. ASSUME NEW i \in 1..m, i - 1 < start \/ i - 1 > end PROVE Text(i) = <<>>
  <2>1. ~(low <= at + i - 1 /\ at + i - 1 <= high) /\ ~(low <= at + i - 1 /\ at + i - 1 < high)
    BY <1>3, <1>4, <1>5, <1>11
  <2>2. ~Broken(i)
    BY <2>1
  <2>3. Tail1(Broken(i)) = <<>>
    BY <2>2
  <2>4. Row(i) = <<>>
    BY <1>7, <2>1
  <2> HIDE DEF Row, Tail1, Broken
  <2>5. Text(i) = <<>> \o <<>>
    BY <2>3, <2>4
  <2>6. <<>> \o <<>> = <<>>
    BY EmptySeq, ConcatEmptySeq
  <2> QED
    BY <2>5, <2>6
<1>12. ASSUME NEW n \in 1..k PROVE start + n \in 1..m /\ Piece(start + n - 1) = Text(start + n)
  <2> DEFINE i == start + n  index == start + n - 1
  <2>1. /\ i \in 1..m /\ index + 1 = i /\ index + at = at + i - 1
        /\ index = i - 1 /\ start <= i - 1 /\ i - 1 <= end
    BY <1>3, <1>4, <1>5, <1>6
  <2>2. index < end <=> i < m /\ low <= at + i - 1 /\ at + i - 1 < high
    BY <1>3, <1>4, <1>5, <2>1
  <2> HIDE DEF i, index
  <2>3. Goes(index) <=> Broken(i)
    BY <2>1, <2>2
  <2>4. Tail1(Goes(index)) = Tail1(Broken(i))
    BY <2>3
  <2>5. Taken(lines[index + 1], index + at) = PickedOf(lines[i], at + i - 1, selection)
    <3> HIDE DEF Taken
    <3> QED
      BY <1>7, <2>1
  <2> HIDE DEF Taken, Tail1, Goes, Broken
  <2>6. Piece(index) = Text(i)
    BY <2>4, <2>5
  <2> HIDE DEF Piece, Text
  <2> QED
    BY <2>1, <2>6 DEF i, index
<1> HIDE DEF Piece, Text
<1>13. text \in Seq(Seq(Glyphs)) /\ Len(text) = m /\ \A i \in 1..m : text[i] = Text(i)
  <2>1. text \in [1..m -> Seq(Glyphs)] /\ \A i \in 1..m : text[i] = Text(i)
    BY <1>2, <1>10
  <2> QED
    BY <1>3, <2>1, FunctionIsSeq
<1>14. piece \in Seq(Seq(Glyphs)) /\ Len(piece) = k /\ \A n \in 1..k : piece[n] = Text(start + n)
  <2>1. \A n \in 1..k : piece[n] = Piece(start + n - 1)
    OBVIOUS
  <2>2. \A n \in 1..k : piece[n] = Text(start + n) /\ Text(start + n) \in Seq(Glyphs)
    BY <1>10, <1>12, <2>1
  <2>3. piece \in [1..k -> Seq(Glyphs)]
    <3>1. piece = [n \in 1..k |-> piece[n]]
      OBVIOUS
    <3> HIDE DEF piece
    <3> QED
      BY <2>2, <3>1
  <2> HIDE DEF piece
  <2> QED
    BY <1>6, <2>2, <2>3, FunctionIsSeq
<1> HIDE DEF piece
<1> DEFINE a == IF k = 0 THEN 0 ELSE start
<1>15. /\ a \in Nat /\ a + k <= m
       /\ \A i \in 1..m : i <= a \/ i > a + k => i - 1 < start \/ i - 1 > end
       /\ k > 0 => a = start
  BY <1>3, <1>4, <1>5, <1>6
<1> HIDE DEF a
<1>16. \A i \in 1..Len(text) : i <= a \/ i > a + Len(piece) => text[i] = <<>>
  BY <1>11, <1>13, <1>14, <1>15
<1>17. \A n \in 1..Len(piece) : piece[n] = text[a + n]
  <2> SUFFICES ASSUME NEW n \in 1..k PROVE piece[n] = text[a + n]
    BY <1>14
  <2>1. a = start /\ start + n \in 1..m
    BY <1>6, <1>12, <1>15
  <2> QED
    BY <1>13, <1>14, <2>1
<1>18. a \in Nat /\ a + Len(piece) <= Len(text)
  BY <1>13, <1>14, <1>15
<1>19. Selection!FlattenSeq(text) = Selection!FlattenSeq(piece)
  <2>1. AllOf(piece, text, a)
    BY <1>16, <1>17, <1>18 DEF AllOf
  <2>2. a \in Nat /\ text \in Seq(Seq(Glyphs)) /\ piece \in Seq(Seq(Glyphs))
    BY <1>13, <1>14, <1>18
  <2> QED
    BY <2>1, <2>2, FlattenSkips
<1> QED
  BY <1>1, <1>19 DEF text

\* What is copied is what is drawn as selected, and a line is drawn whole, after any
\* drag, over lines of any characters (gui/workspace/ssh/internal.rs, selected_text
\* and selected_fragments).
LEMMA CopiesAreHighlights ==
  ASSUME NEW steps \in Seq(AnyStep), steps # <<>>
  PROVE  Selection!CopyIsTheHighlight(steps)
<1> DEFINE selection == Selection!Dragged(steps)
           m == Len(selection.frame.lines)
           at == Selection!StartRow(selection.frame)
           Cut(i) == Selection!Fragments(selection.frame.lines[i], at + i - 1, selection)
           Broken(i) == /\ i < m /\ ~selection.frame.lines[i].wrapped
                        /\ Selection!From(selection)[1] <= at + i - 1
                        /\ at + i - 1 < Selection!To(selection)[1]
           Text(i) == Selection!FlattenSeq(MarkedOf(Cut(i)))
                        \o (IF Broken(i) THEN <<Selection!NewLine>> ELSE <<>>)
<1>1. Selection!CopyIsTheHighlight(steps) <=>
        (selection # Selection!Nothing =>
           /\ \A i \in DOMAIN selection.frame.lines :
                Selection!FlattenSeq(CharsOf(Cut(i))) = selection.frame.lines[i].chars
           /\ Selection!SelectedText(selection)
                = Selection!FlattenSeq([i \in DOMAIN selection.frame.lines |-> Text(i)]))
  BY DEF Selection!CopyIsTheHighlight, CharsOf, MarkedOf
<1>2. selection \in {Selection!Nothing} \cup Selections
  BY DragsAre
<1> HIDE DEF selection
<1> SUFFICES ASSUME selection # Selection!Nothing
             PROVE  /\ \A i \in DOMAIN selection.frame.lines :
                         Selection!FlattenSeq(CharsOf(Cut(i))) = selection.frame.lines[i].chars
                    /\ Selection!SelectedText(selection)
                         = Selection!FlattenSeq([i \in DOMAIN selection.frame.lines |-> Text(i)])
  BY <1>1
<1>3. selection \in Selections
  BY <1>2
<1>4. /\ m \in Nat /\ DOMAIN selection.frame.lines = 1..m
      /\ \A i \in 1..m : selection.frame.lines[i] \in AnyLine
  <2>1. selection.frame \in AnyFrame
    BY <1>3 DEF Selections
  <2>2. selection.frame.lines \in Seq(AnyLine)
    BY <2>1 DEF AnyFrame
  <2> QED
    BY <2>2, LenProperties, ElementOfSeq
<1>5. ASSUME NEW i \in 1..m
      PROVE  /\ Selection!FlattenSeq(CharsOf(Cut(i))) = selection.frame.lines[i].chars
             /\ Selection!FlattenSeq(MarkedOf(Cut(i)))
                  = Selection!FlattenSeq(PickedOf(selection.frame.lines[i], at + i - 1, selection))
  BY <1>4, FragmentsAre
<1> DEFINE Copied(i) ==
             Selection!FlattenSeq(PickedOf(selection.frame.lines[i], at + i - 1, selection))
               \o (IF Broken(i) THEN <<Selection!NewLine>> ELSE <<>>)
           text == [i \in 1..m |-> Copied(i)]
<1>6. Selection!SelectedText(selection) = Selection!FlattenSeq(text)
  BY <1>3, TextIs DEF TextOf
<1>7. \A i \in 1..m : Text(i) = Copied(i)
  <2> HIDE DEF Cut, Broken, at, m
  <2> QED
    BY <1>5
<1>8. text = [i \in DOMAIN selection.frame.lines |-> Text(i)]
  <2> HIDE DEF Text, Copied, m
  <2> QED
    BY <1>4, <1>7
<1> HIDE DEF text, Text, Copied
<1> QED
  BY <1>4, <1>5, <1>6, <1>8

-----------------------------------------------------------------------------
(* The inputs of the parts without state                                   *)

LEMMA LinesAreAny == Lines \subseteq AnyLine
<1>1. /\ Char(1, 1) \in Glyphs /\ Char(0, 1) \in Glyphs /\ Char(1, 2) \in Glyphs
      /\ Char(2, 1) \in Glyphs
  BY DEF Char, Glyphs
<1>2. /\ <<>> \in Seq(Glyphs) /\ <<Char(1, 1), Char(0, 1), Char(1, 2)>> \in Seq(Glyphs)
      /\ <<Char(2, 1), Char(1, 1)>> \in Seq(Glyphs)
  BY <1>1
<1> QED
  BY <1>2 DEF Lines, AnyLine

LEMMA StepsAreAny ==
  ASSUME NEW text \in [1..3 -> Lines]
  PROVE  Steps(text) \subseteq AnyStep
<1>1. text \in Seq(AnyLine) /\ Len(text) = 3 /\ \A i \in 1..3 : text[i] \in AnyLine
  <2>1. text \in [1..3 -> AnyLine]
    BY LinesAreAny
  <2> QED
    BY <2>1, FunctionIsSeq
<1>2. ASSUME NEW m \in 1..2 PROVE SubSeq(text, m, m + 1) \in Seq(AnyLine)
  <2>1. \A i \in m..(m + 1) : text[i] \in AnyLine
    BY <1>1
  <2> QED
    BY <2>1, SubSeqProperties
<1>3. Views(text) \subseteq AnyFrame
  <2>1. SubSeq(text, 1, 2) \in Seq(AnyLine) /\ SubSeq(text, 2, 3) \in Seq(AnyLine)
    BY <1>2
  <2>2. Views(text) =
          {[lines |-> SubSeq(text, 1, 2), history |-> 0, offset |-> 0],
           [lines |-> SubSeq(text, 2, 3), history |-> 1, offset |-> 0],
           [lines |-> SubSeq(text, 1, 2), history |-> 1, offset |-> 1]}
    <3> DEFINE View(v) == [lines |-> SubSeq(text, v[1] - v[2] + 1, v[1] - v[2] + 2),
                           history |-> v[1], offset |-> v[2]]
    <3>1. Views(text) = {View(<<0, 0>>), View(<<1, 0>>), View(<<1, 1>>)}
      BY Zenon DEF Views
    <3> QED
      BY <3>1
  <2> QED
    BY <2>1, <2>2 DEF AnyFrame
<1>4. (0..1) \X (0..3) \subseteq AnyPoint
  BY DEF AnyPoint
<1> QED
  BY <1>3, <1>4 DEF Steps, AnyStep

LEMMA DragsAreAny ==
  ASSUME NEW drag_ \in Drags
  PROVE  drag_ \in Seq(AnyStep) /\ drag_ # <<>>
<1>1. \A s, t \in AnyStep : <<s, t>> \in Seq(AnyStep) /\ <<s, t>> # <<>>
  OBVIOUS
<1>2. \A s, t, u \in AnyStep : <<s, t, u>> \in Seq(AnyStep) /\ <<s, t, u>> # <<>>
  OBVIOUS
<1>3. \A s \in AnyStep : /\ [s EXCEPT !.point = <<0, @[2]>>] \in AnyStep
                         /\ [s EXCEPT !.point = <<@[1], 0>>] \in AnyStep
  BY DEF AnyStep, AnyPoint
<1>4. \/ \E text \in [1..3 -> Lines] : \E s, t \in Steps(text) : drag_ = <<s, t>>
      \/ \E text \in [1..3 -> Lines] : \E s, u \in Steps(text) :
           drag_ = <<[s EXCEPT !.point = <<0, @[2]>>], [s EXCEPT !.point = <<@[1], 0>>], u>>
  BY DEF Drags
<1>5. CASE \E text \in [1..3 -> Lines] : \E s, t \in Steps(text) : drag_ = <<s, t>>
  BY <1>1, <1>5, StepsAreAny
<1>6. CASE \E text \in [1..3 -> Lines] : \E s, u \in Steps(text) :
             drag_ = <<[s EXCEPT !.point = <<0, @[2]>>], [s EXCEPT !.point = <<@[1], 0>>], u>>
  <2>1. PICK s \in AnyStep, u \in AnyStep :
          drag_ = <<[s EXCEPT !.point = <<0, @[2]>>], [s EXCEPT !.point = <<@[1], 0>>], u>>
    BY <1>6, StepsAreAny
  <2> DEFINE p == [s EXCEPT !.point = <<0, @[2]>>]  q == [s EXCEPT !.point = <<@[1], 0>>]
  <2>2. p \in AnyStep /\ q \in AnyStep /\ drag_ = <<p, q, u>>
    BY <1>3, <2>1
  <2> HIDE DEF p, q
  <2> QED
    BY <1>2, <2>2
<1> QED
  BY <1>4, <1>5, <1>6

(* What is copied is what was highlighted, a click is on a character, the  *)
(* thumb of the scroll bar stays under the pointer and colours can be told *)
(* apart: the runs' inputs are among those the lemmas speak of, which are  *)
(* drags of any steps over lines of any characters, histories of any       *)
(* length and themes of any lightness (gui/workspace/ssh, component/theme).*)
THEOREM PicturesAreRight == Spec => []PicturesAreTrue
<1> DEFINE Given == /\ part = "drag" => input \in Seq(AnyStep) /\ input # <<>>
                    /\ part = "click" => input \in [line : AnyLine, target : Nat]
                    /\ part = "bar" => /\ input \in [history : Nat, rows : Nat \ {0}, offset : Nat]
                                       /\ input.offset <= input.history
                    /\ part = "colours" => input \in AnyLook
<1>1. Clicks \subseteq [line : AnyLine, target : Nat]
  BY LinesAreAny DEF Clicks
<1>2. \A b \in Bars : b \in [history : Nat, rows : Nat \ {0}, offset : Nat] /\ b.offset <= b.history
  BY DEF Bars
<1>3. Looks \subseteq AnyLook
  <2> DEFINE A == {10, 300, 500, 900}  F == {Palette!Unset, 500}
             B == {Palette!Unset, 0, 400, 600, 1000}  C == {Palette!Unset, 0, 500, 1000}
             O == {0, 50}
  <2>1. /\ A \subseteq Light /\ F \subseteq Light \cup {-1} /\ B \subseteq Light \cup {-1}
        /\ C \subseteq Light \cup {-1} /\ O \subseteq Nat
    BY DEF Light, Palette!Unset
  <2>2. Looks = [theme : Palette!Themes, accent : A, font : F, background : B, hover : F,
                 selected : C, wallpaper : BOOLEAN, opacity : O]
    BY DEF Looks
  <2> HIDE DEF A, F, B, C, O
  <2> QED
    BY <2>1, <2>2 DEF AnyLook
<1>4. Init => Given
  <2> SUFFICES ASSUME Init PROVE Given
    OBVIOUS
  <2>1. /\ part = "drag" => input \in Drags
        /\ part = "click" => input \in Clicks
        /\ part = "bar" => input \in Bars
        /\ part = "colours" => input \in Looks
    BY Zenon DEF Init
  <2> QED
    BY <1>1, <1>2, <1>3, <2>1, DragsAreAny
<1>5. Given /\ [Next]_all => Given'
  BY DEF Next, all, BarSteps, SidebarSteps, TerminalSteps
<1>6. Given => PicturesAreTrue
  <2> SUFFICES ASSUME Given PROVE PicturesAreTrue
    OBVIOUS
  <2>1. part = "drag" => Selection!CopyIsTheHighlight(input)
    BY CopiesAreHighlights
  <2>2. part = "click" => Selection!ClickIsOnACharacter(input.line, input.target)
    BY ClicksAreOnCharacters
  <2>3. part = "bar" =>
          Selection!ThumbStaysUnderThePointer(input.history, input.rows, input.offset)
    <3> SUFFICES ASSUME part = "bar"
                 PROVE  Selection!ThumbStaysUnderThePointer(input.history, input.rows, input.offset)
      OBVIOUS
    <3>1. /\ input.history \in Nat /\ input.rows \in Nat /\ input.rows > 0
          /\ input.offset \in 0..input.history
      OBVIOUS
    <3> HIDE DEF Given
    <3> QED
      BY <3>1, ThumbsStay
  <2>4. part = "colours" => Readable(input)
    BY ThemesAreReadable
  <2> QED
    BY <2>1, <2>2, <2>3, <2>4 DEF PicturesAreTrue
<1> QED
  BY <1>4, <1>5, <1>6, PTL DEF Spec
=============================================================================
