-------------------------- MODULE LifecycleProofs --------------------------
(***************************************************************************)
(* Proofs about Lifecycle for every number of callers, every bound on the  *)
(* handlers and every capacity of the channel: after the barrier no        *)
(* operation runs, and no accepted refresh is thrown away by stop_event_bus.*)
(*                                                                         *)
(* The argument: a writer excludes readers; a writer is only ever queued   *)
(* after the flag is set, so whoever gets a guard behind it reads the flag *)
(* and leaves; and a request in the bus always belongs to exactly one      *)
(* operation that still holds its guard.                                   *)
(***************************************************************************)
EXTENDS Lifecycle, FiniteSetTheorems, TLAPS

Queued(r) == \E i \in 1..Len(busQueue) : busQueue[i] = r

\* The flag is set before the writer queues, and the writer is alone.
Exiting == stage \notin {"boot", "up"}
BarrierInv ==
    /\ Exiting => shuttingDown
    /\ (\E i \in 1..Len(lockQueue) : lockQueue[i] = Writer) => Exiting
    /\ writing => Exiting /\ Readers = {}
    /\ stage # "boot" => op[Boot] = "idle"

\* A caller queues for the guard once, and has none meanwhile.
LockInv ==
    /\ \A i \in 1..Len(lockQueue) : lockQueue[i] # Writer => op[lockQueue[i]] = "queued"
    /\ \A i, j \in 1..Len(lockQueue) :
          lockQueue[i] = lockQueue[j] /\ lockQueue[i] # Writer => i = j

\* A request is in the channel or in a handler, once, and its sender waits.
BusInv ==
    /\ \A r \in Requesters : Queued(r) \/ r \in handlers => op[r] = "waiting"
    /\ \A r \in Requesters : ~(Queued(r) /\ r \in handlers)
    /\ \A i, j \in 1..Len(busQueue) : busQueue[i] = busQueue[j] => i = j

Shape ==
    /\ op \in [Requesters -> {"idle", "queued"} \cup Guarded]
    /\ lockQueue \in Seq(Callers \cup {Writer})
    /\ writing \in BOOLEAN /\ shuttingDown \in BOOLEAN /\ busAlive \in BOOLEAN
    /\ busQueue \in Seq(Requesters)
    /\ handlers \subseteq Requesters
    /\ stage \in {"boot", "up", "flagged", "waiting"} \cup Drained

\* The channel and the JoinSet stay within their limits.
Bounds ==
    /\ Len(busQueue) <= BusCapacity
    /\ IsFiniteSet(handlers) /\ Cardinality(handlers) <= MaxHandlers

IInv == Shape /\ Bounds /\ BarrierInv /\ LockInv /\ BusInv /\ NoWorkAfterDrain

-----------------------------------------------------------------------------
(* Sequences                                                               *)

LEMMA AppendFacts ==
    ASSUME NEW S, NEW s \in Seq(S), NEW e \in S
    PROVE  /\ Append(s, e) \in Seq(S)
           /\ Len(Append(s, e)) = Len(s) + 1
           /\ \A i \in 1..Len(s) : Append(s, e)[i] = s[i]
           /\ Append(s, e)[Len(s) + 1] = e
  OBVIOUS

LEMMA TailFacts ==
    ASSUME NEW S, NEW s \in Seq(S), s # <<>>
    PROVE  /\ Head(s) \in S /\ Head(s) = s[1]
           /\ Tail(s) \in Seq(S)
           /\ Len(s) \in Nat /\ Len(s) > 0
           /\ Len(Tail(s)) = Len(s) - 1
           /\ \A i \in 1..Len(Tail(s)) : Tail(s)[i] = s[i + 1]
  OBVIOUS

-----------------------------------------------------------------------------
(* Types and bounds                                                        *)

LEMMA ShapeStep == Shape /\ [Next]_vars => Shape'
<1> SUFFICES ASSUME Shape, [Next]_vars PROVE Shape'
  OBVIOUS
<1> USE LifecycleAssumption DEF Shape, Guarded, Drained, Requesters
<1>1. ASSUME NEW c \in Callers, Arrive(c) PROVE Shape'
  <2>1. lockQueue' \in Seq(Callers \cup {Writer})
    BY <1>1, AppendFacts DEF Arrive
  <2> QED
    BY <1>1, <2>1 DEF Arrive, busVars
<1>2. ASSUME NEW c \in Callers, GrantRead(c) PROVE Shape'
  <2>1. lockQueue' \in Seq(Callers \cup {Writer})
    BY <1>2, TailFacts DEF GrantRead
  <2> QED
    BY <1>2, <2>1 DEF GrantRead, busVars
<1>3. ASSUME NEW c \in Callers, Accept(c) PROVE Shape'
  BY <1>3 DEF Accept, busVars
<1>4. ASSUME NEW c \in Callers, Finish(c) PROVE Shape'
  BY <1>4 DEF Finish, busVars
<1>5. ASSUME NEW c \in Callers, Refresh(c) PROVE Shape'
  BY <1>5 DEF Refresh, busVars
<1>6. ASSUME NEW r \in Requesters, Send(r) PROVE Shape'
  <2>1. busQueue' \in Seq(Requesters)
    BY <1>6, AppendFacts DEF Send
  <2> QED
    BY <1>6, <2>1 DEF Send
<1>7. CASE Take
  <2>1. busQueue' \in Seq(Requesters) /\ Head(busQueue) \in Requesters
    BY <1>7, TailFacts DEF Take
  <2> QED
    BY <1>7, <2>1 DEF Take
<1>8. ASSUME NEW r \in Requesters, Handle(r) PROVE Shape'
  BY <1>8 DEF Handle
<1>9. CASE Start
  BY <1>9 DEF Start, busVars
<1>10. CASE BeginShutdown
  BY <1>10 DEF BeginShutdown, busVars
<1>11. CASE QueueWriter
  <2>1. lockQueue' \in Seq(Callers \cup {Writer})
    BY <1>11, AppendFacts DEF QueueWriter
  <2> QED
    BY <1>11, <2>1 DEF QueueWriter, busVars
<1>12. CASE GrantWrite
  <2>1. lockQueue' \in Seq(Callers \cup {Writer})
    BY <1>12, TailFacts DEF GrantWrite
  <2> QED
    BY <1>12, <2>1 DEF GrantWrite, busVars
<1>13. CASE ReleaseWrite
  BY <1>13 DEF ReleaseWrite, busVars
<1>14. CASE StopBus
  <2>1. op' \in [Requesters -> {"idle", "queued"} \cup Guarded]
    BY <1>14 DEF StopBus
  <2>2. <<>> \in Seq(Requesters) /\ {} \subseteq Requesters
    OBVIOUS
  <2> QED
    BY <1>14, <2>1, <2>2 DEF StopBus
<1>15. CASE StopServices
  BY <1>15 DEF StopServices, busVars
<1>16. CASE UNCHANGED vars
  BY <1>16 DEF vars, busVars
<1> QED
  BY <1>1, <1>2, <1>3, <1>4, <1>5, <1>6, <1>7, <1>8, <1>9, <1>10, <1>11, <1>12,
     <1>13, <1>14, <1>15, <1>16 DEF Next, Progress, Bus, Exit

LEMMA BoundsStep == Shape /\ Bounds /\ [Next]_vars => Bounds'
<1> SUFFICES ASSUME Shape, Bounds, [Next]_vars PROVE Bounds'
  OBVIOUS
<1> USE LifecycleAssumption DEF Bounds
<1>1. busQueue' = busQueue /\ handlers' = handlers => Bounds'
  OBVIOUS
<1>2. ASSUME NEW r \in Requesters, Send(r) PROVE Bounds'
  <2>1. Len(busQueue') = Len(busQueue) + 1 /\ Len(busQueue) \in Nat
    BY <1>2, AppendFacts DEF Send, Shape
  <2> QED
    BY <1>2, <2>1 DEF Send
<1>3. CASE Take
  <2>1. Len(busQueue') <= BusCapacity
    BY <1>3, TailFacts DEF Take, Shape
  <2>2. /\ IsFiniteSet(handlers')
        /\ Cardinality(handlers') = Cardinality(handlers)
           \/ Cardinality(handlers') = Cardinality(handlers) + 1
    BY <1>3, FS_AddElement DEF Take
  <2>3. Cardinality(handlers) \in Nat /\ Cardinality(handlers) < MaxHandlers
    BY <1>3, FS_CardinalityType DEF Take
  <2> QED
    BY <2>1, <2>2, <2>3
<1>4. ASSUME NEW r \in Requesters, Handle(r) PROVE Bounds'
  <2>1. /\ IsFiniteSet(handlers')
        /\ Cardinality(handlers') = Cardinality(handlers) - 1
    BY <1>4, FS_RemoveElement DEF Handle
  <2>2. Cardinality(handlers) \in Nat
    BY FS_CardinalityType
  <2> QED
    BY <1>4, <2>1, <2>2 DEF Handle
<1>5. CASE StopBus
  <2>1. IsFiniteSet({}) /\ Cardinality({}) = 0
    BY FS_EmptySet
  <2>2. Len(<<>>) = 0
    OBVIOUS
  <2> QED
    BY <1>5, <2>1, <2>2 DEF StopBus
<1> QED
  BY <1>1, <1>2, <1>3, <1>4, <1>5
  DEF Next, Progress, Bus, Exit, vars, busVars, Arrive, GrantRead, Accept, Finish,
      Refresh, Start, BeginShutdown, QueueWriter, GrantWrite, ReleaseWrite, StopServices

-----------------------------------------------------------------------------
(* The barrier                                                             *)

LEMMA BarrierStep ==
    Shape /\ BarrierInv /\ BusInv /\ NoWorkAfterDrain /\ [Next]_vars
        => BarrierInv' /\ NoWorkAfterDrain'
<1> SUFFICES ASSUME Shape, BarrierInv, BusInv, NoWorkAfterDrain, [Next]_vars
             PROVE  BarrierInv' /\ NoWorkAfterDrain'
  OBVIOUS
<1> DEFINE WriterQueued == \E i \in 1..Len(lockQueue) : lockQueue[i] = Writer
           Rest == /\ Exiting => shuttingDown
                   /\ writing => Exiting /\ Readers = {}
                   /\ stage # "boot" => op[Boot] = "idle"
<1>1. Rest' /\ (WriterQueued' => Exiting') => BarrierInv'
  BY DEF BarrierInv
<1> SUFFICES /\ Rest' /\ NoWorkAfterDrain'
             /\ WriterQueued' => Exiting'
  BY <1>1
<1>a. Rest /\ (WriterQueued => Exiting) /\ op \in [Requesters -> {"idle", "queued"} \cup Guarded]
  BY DEF BarrierInv, Shape
<1>b. /\ lockQueue \in Seq(Callers \cup {Writer})
      /\ \A r \in handlers : r \in Requesters /\ op[r] = "waiting"
      /\ Boot \notin Callers /\ Writer \notin Callers
      /\ \A c \in Callers : c \in Requesters
  BY LifecycleAssumption DEF Shape, BusInv, Requesters
<1>c. lockQueue' = lockQueue /\ (Exiting => Exiting') => (WriterQueued' => Exiting')
  BY <1>a
<1> HIDE DEF WriterQueued
<1> USE <1>a, <1>b DEF NoWorkAfterDrain, Working, Readers, Guarded, Drained, Exiting
<1>2. ASSUME NEW c \in Callers, Arrive(c) PROVE Rest' /\ NoWorkAfterDrain' /\ (WriterQueued' => Exiting')
  <2>1. WriterQueued' => WriterQueued
    BY <1>2, AppendFacts DEF Arrive, WriterQueued
  <2> QED
    BY <1>2, <2>1 DEF Arrive
<1>3. ASSUME NEW c \in Callers, GrantRead(c) PROVE Rest' /\ NoWorkAfterDrain' /\ (WriterQueued' => Exiting')
  <2>1. WriterQueued' => WriterQueued
    BY <1>3, TailFacts DEF GrantRead, WriterQueued
  <2> QED
    BY <1>3, <2>1 DEF GrantRead
<1>4. ASSUME NEW c \in Callers, Accept(c) PROVE Rest' /\ NoWorkAfterDrain' /\ (WriterQueued' => Exiting')
  BY <1>4, <1>c DEF Accept
<1>5. ASSUME NEW c \in Callers, Finish(c) PROVE Rest' /\ NoWorkAfterDrain' /\ (WriterQueued' => Exiting')
  BY <1>5, <1>c DEF Finish
<1>6. ASSUME NEW c \in Callers, Refresh(c) PROVE Rest' /\ NoWorkAfterDrain' /\ (WriterQueued' => Exiting')
  BY <1>6, <1>c DEF Refresh
<1>7. ASSUME NEW r \in Requesters, Send(r) PROVE Rest' /\ NoWorkAfterDrain' /\ (WriterQueued' => Exiting')
  BY <1>7, <1>c DEF Send, Requesters
<1>8. CASE Take
  BY <1>8, <1>c DEF Take
<1>9. ASSUME NEW r \in Requesters, Handle(r) PROVE Rest' /\ NoWorkAfterDrain' /\ (WriterQueued' => Exiting')
  BY <1>9, <1>c DEF Handle, Requesters
<1>10. CASE Start
  BY <1>10, <1>c DEF Start, Requesters
<1>11. CASE BeginShutdown
  BY <1>11 DEF BeginShutdown
<1>12. CASE QueueWriter
  BY <1>12 DEF QueueWriter
<1>13. CASE GrantWrite
  <2>1. WriterQueued /\ (WriterQueued' => WriterQueued)
    BY <1>13, TailFacts DEF GrantWrite, WriterQueued
  <2> QED
    BY <1>13, <2>1 DEF GrantWrite
<1>14. CASE ReleaseWrite
  BY <1>14, <1>c DEF ReleaseWrite
<1>15. CASE StopBus
  <2>1. \A r \in Requesters : op[r] # "waiting" => op'[r] = op[r]
    BY <1>15 DEF StopBus
  <2>2. \A c \in Callers : op'[c] = op[c]
    BY <1>15, <2>1 DEF StopBus
  <2>3. op'[Boot] = "idle"
    BY <1>15, <2>1 DEF StopBus, Requesters
  <2>4. NoWorkAfterDrain' /\ (writing' => Exiting' /\ Readers' = {})
    BY <1>15, <2>2 DEF StopBus
  <2> QED
    BY <1>15, <1>c, <2>3, <2>4 DEF StopBus
<1>16. CASE StopServices
  BY <1>16, <1>c DEF StopServices
<1>17. CASE UNCHANGED vars
  BY <1>17, <1>c DEF vars
<1> QED
  BY <1>2, <1>3, <1>4, <1>5, <1>6, <1>7, <1>8, <1>9, <1>10, <1>11, <1>12,
     <1>13, <1>14, <1>15, <1>16, <1>17 DEF Next, Progress, Bus, Exit

-----------------------------------------------------------------------------
(* The queue of the lock                                                   *)

LEMMA LockStep == Shape /\ BusInv /\ LockInv /\ [Next]_vars => LockInv'
<1> SUFFICES ASSUME Shape, BusInv, LockInv, [Next]_vars PROVE LockInv'
  OBVIOUS
<1>a. /\ op \in [Requesters -> {"idle", "queued"} \cup Guarded]
      /\ lockQueue \in Seq(Callers \cup {Writer})
      /\ Writer \notin Callers
      /\ \A c \in Callers : c \in Requesters
  BY LifecycleAssumption DEF Shape, Requesters
<1>0. \A i \in 1..Len(lockQueue) : lockQueue[i] \in Callers \cup {Writer}
  BY <1>a
<1>b. ASSUME lockQueue' = lockQueue,
             \A c \in Callers : op[c] = "queued" => op'[c] = "queued"
      PROVE  LockInv'
  BY <1>0, <1>b DEF LockInv
<1>1. ASSUME NEW c \in Callers, Arrive(c) PROVE LockInv'
  <2>1. /\ Len(lockQueue) \in Nat /\ Len(lockQueue') = Len(lockQueue) + 1
        /\ \A i \in 1..Len(lockQueue) : lockQueue'[i] = lockQueue[i]
        /\ lockQueue'[Len(lockQueue) + 1] = c
    BY <1>a, <1>1, AppendFacts DEF Arrive
  <2>2. /\ op'[c] = "queued" /\ op[c] = "idle"
        /\ \A x \in Requesters : x # c => op'[x] = op[x]
    BY <1>a, <1>1 DEF Arrive
  <2>3. \A i \in 1..Len(lockQueue) : lockQueue[i] # c
    BY <1>a, <2>2 DEF LockInv
  <2> QED
    BY <1>0, <1>a, <2>1, <2>2, <2>3 DEF LockInv
<1>2. ASSUME NEW c \in Callers, GrantRead(c) PROVE LockInv'
  <2>1. /\ Len(lockQueue) \in Nat /\ Len(lockQueue) > 0 /\ lockQueue[1] = c
        /\ Len(lockQueue') = Len(lockQueue) - 1
        /\ \A i \in 1..Len(lockQueue') : lockQueue'[i] = lockQueue[i + 1]
    BY <1>a, <1>2, TailFacts DEF GrantRead
  <2>2. \A x \in Requesters : x # c => op'[x] = op[x]
    BY <1>a, <1>2 DEF GrantRead
  <2>3. \A i \in 1..Len(lockQueue') : i + 1 \in 1..Len(lockQueue) /\ lockQueue[i + 1] # c
    BY <1>a, <2>1 DEF LockInv
  <2> QED
    BY <1>0, <1>a, <2>1, <2>2, <2>3 DEF LockInv
<1>3. ASSUME NEW c \in Callers, Accept(c) \/ Finish(c) \/ Refresh(c) PROVE LockInv'
  BY <1>a, <1>b, <1>3 DEF Accept, Finish, Refresh
<1>4. CASE Start
  BY <1>a, <1>b, <1>4 DEF Start
<1>5. ASSUME NEW r \in Requesters, Send(r) PROVE LockInv'
  BY <1>a, <1>b, <1>5 DEF Send
<1>6. ASSUME NEW r \in Requesters, Handle(r) PROVE LockInv'
  <2>1. op[r] = "waiting"
    BY <1>6 DEF Handle, BusInv
  <2> QED
    BY <1>a, <1>b, <1>6, <2>1 DEF Handle
<1>7. CASE StopBus
  BY <1>a, <1>b, <1>7 DEF StopBus
<1>8. CASE QueueWriter
  <2>1. /\ Len(lockQueue) \in Nat /\ Len(lockQueue') = Len(lockQueue) + 1
        /\ \A i \in 1..Len(lockQueue) : lockQueue'[i] = lockQueue[i]
        /\ lockQueue'[Len(lockQueue) + 1] = Writer
    BY <1>a, <1>8, AppendFacts DEF QueueWriter
  <2>2. op' = op
    BY <1>8 DEF QueueWriter
  <2> QED
    BY <1>0, <1>a, <2>1, <2>2 DEF LockInv
<1>9. CASE GrantWrite
  <2>1. /\ Len(lockQueue) \in Nat /\ Len(lockQueue) > 0
        /\ Len(lockQueue') = Len(lockQueue) - 1
        /\ \A i \in 1..Len(lockQueue') : lockQueue'[i] = lockQueue[i + 1]
    BY <1>a, <1>9, TailFacts DEF GrantWrite
  <2>2. op' = op
    BY <1>9 DEF GrantWrite
  <2>3. \A i \in 1..Len(lockQueue') : i + 1 \in 1..Len(lockQueue)
    BY <2>1
  <2> QED
    BY <1>0, <1>a, <2>1, <2>2, <2>3 DEF LockInv
<1>10. CASE Take \/ BeginShutdown \/ ReleaseWrite \/ StopServices \/ UNCHANGED vars
  BY <1>b, <1>10 DEF Take, BeginShutdown, ReleaseWrite, StopServices, vars
<1> QED
  BY <1>1, <1>2, <1>3, <1>4, <1>5, <1>6, <1>7, <1>8, <1>9, <1>10 DEF Next, Progress, Bus, Exit

-----------------------------------------------------------------------------
(* The bus                                                                 *)

\* While a request is in the bus its sender stays where it is.
LEMMA BusStep == Shape /\ LockInv /\ BusInv /\ [Next]_vars => BusInv'
<1> SUFFICES ASSUME Shape, LockInv, BusInv, [Next]_vars PROVE BusInv'
  OBVIOUS
<1>a. /\ op \in [Requesters -> {"idle", "queued"} \cup Guarded]
      /\ busQueue \in Seq(Requesters)
      /\ \A c \in Callers : c \in Requesters
  BY DEF Shape, Requesters
<1>b. ASSUME busQueue' = busQueue, handlers' = handlers,
             \A r \in Requesters : op[r] = "waiting" => op'[r] = "waiting"
      PROVE  BusInv'
  BY <1>b DEF BusInv, Queued
<1>1. ASSUME NEW c \in Callers, Arrive(c) PROVE BusInv'
  BY <1>a, <1>b, <1>1 DEF Arrive, busVars
<1>2. ASSUME NEW c \in Callers, GrantRead(c) PROVE BusInv'
  <2>1. op[c] = "queued"
    BY <1>2, TailFacts, LifecycleAssumption DEF GrantRead, LockInv, Shape
  <2> QED
    BY <1>a, <1>b, <1>2, <2>1 DEF GrantRead, busVars
<1>3. ASSUME NEW c \in Callers, Accept(c) \/ Finish(c) \/ Refresh(c) PROVE BusInv'
  BY <1>a, <1>b, <1>3 DEF Accept, Finish, Refresh, busVars
<1>4. CASE Start
  BY <1>a, <1>b, <1>4 DEF Start, busVars
<1>5. CASE BeginShutdown \/ QueueWriter \/ GrantWrite \/ ReleaseWrite \/ StopServices \/ UNCHANGED vars
  BY <1>b, <1>5 DEF BeginShutdown, QueueWriter, GrantWrite, ReleaseWrite, StopServices, vars, busVars
<1>6. ASSUME NEW r \in Requesters, Send(r) PROVE BusInv'
  <2>1. /\ Len(busQueue) \in Nat /\ Len(busQueue') = Len(busQueue) + 1
        /\ \A i \in 1..Len(busQueue) : busQueue'[i] = busQueue[i]
        /\ busQueue'[Len(busQueue) + 1] = r
    BY <1>a, <1>6, AppendFacts DEF Send
  <2>2. op[r] # "waiting" /\ handlers' = handlers
    BY <1>6 DEF Send
  <2>3. /\ op'[r] = "waiting"
        /\ \A x \in Requesters : x # r => op'[x] = op[x]
    BY <1>6, <1>a DEF Send
  <2>4. ~Queued(r) /\ r \notin handlers
    BY <2>2 DEF BusInv
  <2>5. \A x : Queued(x)' <=> Queued(x) \/ x = r
    BY <2>1 DEF Queued
  <2>6. \A i, j \in 1..Len(busQueue') : busQueue'[i] = busQueue'[j] => i = j
    BY <2>1, <2>4 DEF Queued, BusInv
  <2> QED
    BY <2>2, <2>3, <2>4, <2>5, <2>6 DEF BusInv
<1>7. CASE Take
  <2>1. /\ Len(busQueue) \in Nat /\ Len(busQueue) > 0
        /\ Head(busQueue) = busQueue[1] /\ Head(busQueue) \in Requesters
        /\ Len(busQueue') = Len(busQueue) - 1
        /\ \A i \in 1..Len(busQueue') : busQueue'[i] = busQueue[i + 1]
    BY <1>a, <1>7, TailFacts DEF Take
  <2>2. handlers' = handlers \cup {Head(busQueue)} /\ op' = op
    BY <1>7 DEF Take
  <2>3. \A x : Queued(x)' <=> Queued(x) /\ x # Head(busQueue)
    <3>1. \A i \in 1..Len(busQueue') : i + 1 \in 1..Len(busQueue) /\ i + 1 # 1
      BY <2>1
    <3>2. \A i \in 1..Len(busQueue') : busQueue[i + 1] # busQueue[1]
      BY <2>1, <3>1 DEF BusInv
    <3>3. \A i \in 1..Len(busQueue) : i # 1 =>
             i - 1 \in 1..Len(busQueue') /\ busQueue'[i - 1] = busQueue[i]
      BY <2>1
    <3> QED
      BY <2>1, <3>1, <3>2, <3>3 DEF Queued
  <2>4. \A i, j \in 1..Len(busQueue') : busQueue'[i] = busQueue'[j] => i = j
    BY <2>1 DEF BusInv
  <2>5. Queued(Head(busQueue))
    BY <2>1 DEF Queued
  <2> QED
    BY <2>1, <2>2, <2>3, <2>4, <2>5 DEF BusInv
<1>8. ASSUME NEW r \in Requesters, Handle(r) PROVE BusInv'
  <2>1. r \in handlers /\ handlers' = handlers \ {r} /\ busQueue' = busQueue
    BY <1>8 DEF Handle
  <2>2. \A x \in Requesters : x # r => op'[x] = op[x]
    BY <1>a, <1>8 DEF Handle
  <2> QED
    BY <2>1, <2>2 DEF BusInv, Queued
<1>9. CASE StopBus
  BY <1>9 DEF StopBus, BusInv, Queued
<1> QED
  BY <1>1, <1>2, <1>3, <1>4, <1>5, <1>6, <1>7, <1>8, <1>9 DEF Next, Progress, Bus, Exit

-----------------------------------------------------------------------------
(* The theorems                                                            *)

LEMMA InitIInv == Init => IInv
<1> SUFFICES ASSUME Init PROVE IInv
  OBVIOUS
<1> USE LifecycleAssumption DEF Init
<1>1. Shape
  <2>1. op \in [Requesters -> {"idle", "queued"} \cup Guarded]
    BY DEF Guarded
  <2>2. <<>> \in Seq(Requesters) /\ <<>> \in Seq(Callers \cup {Writer})
    OBVIOUS
  <2> QED
    BY <2>1, <2>2 DEF Shape
<1>2. Bounds
  <2>1. Len(<<>>) = 0 /\ IsFiniteSet({}) /\ Cardinality({}) = 0
    BY FS_EmptySet
  <2> QED
    BY <2>1 DEF Bounds
<1>3. BarrierInv /\ NoWorkAfterDrain
  BY DEF BarrierInv, NoWorkAfterDrain, Drained, Exiting, Requesters
<1>4. BusInv /\ LockInv
  BY DEF BusInv, Queued, LockInv
<1> QED
  BY <1>1, <1>2, <1>3, <1>4 DEF IInv

\* The inductive invariant behind the theorems below.
THEOREM InductiveInvariant == Spec => []IInv
<1>1. IInv /\ [Next]_vars => IInv'
  BY ShapeStep, BoundsStep, BarrierStep, LockStep, BusStep DEF IInv
<1> QED
  BY InitIInv, <1>1, PTL DEF Spec

\* Types are correct, and neither the channel nor the set of running handlers
\* outgrows its limit (event_bus/core.rs).
THEOREM TypeCorrect == Spec => []TypeOK
<1>1. IInv => TypeOK
  BY DEF IInv, Shape, Bounds, TypeOK
<1> QED
  BY InductiveInvariant, <1>1, PTL

\* Once begin_shutdown has returned no operation runs and none will, however
\* many callers are still queued for the guard or arrive later.
THEOREM ExitBarrier == Spec => []NoWorkAfterDrain
<1>1. IInv => NoWorkAfterDrain
  BY DEF IInv
<1> QED
  BY InductiveInvariant, <1>1, PTL

\* stop_event_bus finds the bus empty: no accepted refresh is dropped.
THEOREM EveryRefreshServed == Spec => []NoRefreshDropped
<1>1. IInv => NoRefreshDropped
  <2> SUFFICES ASSUME IInv, stage \in Drained PROVE busQueue = <<>> /\ handlers = {}
    BY DEF NoRefreshDropped
  <2>1. \A r \in Requesters : op[r] # "waiting"
    BY DEF IInv, BarrierInv, NoWorkAfterDrain, Working, Requesters, Drained
  <2>2. handlers = {}
    BY <2>1 DEF IInv, BusInv, Shape
  <2>3. busQueue \in Seq(Requesters) /\ \A r \in Requesters : ~Queued(r)
    BY <2>1 DEF IInv, BusInv, Shape
  <2>4. busQueue = <<>>
    BY <2>3, TailFacts DEF Queued
  <2> QED
    BY <2>2, <2>4
<1> QED
  BY InductiveInvariant, <1>1, PTL

=============================================================================
