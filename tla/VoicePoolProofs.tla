-------------------------- MODULE VoicePoolProofs --------------------------
(***************************************************************************)
(* Theorems about VoicePool, for any number of threads, tasks and users:   *)
(* a task is in one place, no wake-up is lost, and a fault needs a channel *)
(* that two tasks share.                                                   *)
(***************************************************************************)
EXTENDS VoicePool, SequenceTheorems, FiniteSetTheorems, TLAPS

Places == {"lock", "wait", "decide", "recv", "submit", "signal"}

(* TypeOK without the length of the queue, which follows from OnePlace.    *)
Shape ==
  /\ queue \in Seq(Tasks)
  /\ active \subseteq Uids
  /\ pc \in [Threads -> Places]
  /\ task \in [Threads -> Tasks \cup {NULL}]
  /\ listeners \in [Threads -> {"head", "none"}]
  /\ main \in {"serving", "signal", "joining"}
  /\ fresh \subseteq Tasks /\ freed \subseteq Tasks
  /\ channels \subseteq Channels
  /\ status \in {"running", "fault", "overrun"}

(* Where a thread has a task, it is one. *)
HoldsTask == \A th \in Holding : task[th] \in Tasks

(* A channel is gone when a task of it was destroyed. *)
FreedWithTask == \A c \in Channels \ channels : \E t \in freed : ChannelOf[t] = c

(* A task that was not submitted was not destroyed. *)
FreshIntact == fresh \cap freed = {}

PlaceInv ==
  /\ Shape /\ HoldsTask /\ OnePlace
  /\ FreshIntact /\ FreedWithTask /\ FaultNeedsSharing

-----------------------------------------------------------------------------
(* A queue without duplicates is no longer than there are tasks.           *)
LEMMA InjectiveLength ==
  ASSUME NEW q \in Seq(Tasks), IsInjective(q)
  PROVE  Len(q) <= QueueSize
<1>1. DOMAIN q = 1 .. Len(q) /\ Len(q) \in Nat /\ q \in [1 .. Len(q) -> Tasks]
  OBVIOUS
<1>2. q \in Injection(1 .. Len(q), Tasks)
  BY <1>1 DEF Injection, IsInjective
<1>3. Cardinality(1 .. Len(q)) <= Cardinality(Tasks)
  BY <1>2, FS_Injection, ConstantsAssumption
<1>4. Cardinality(1 .. Len(q)) = Len(q)
  <2>1. Len(q) \in Nat /\ 1 \in Int /\ Len(q) \in Int
    BY <1>1
  <2>2. Cardinality(1 .. Len(q)) = IF 1 > Len(q) THEN 0 ELSE Len(q) - 1 + 1
    BY ONLY <2>1, FS_Interval
  <2> QED BY ONLY <2>1, <2>2
<1>5. Cardinality(Tasks) \in Nat
  BY ConstantsAssumption, FS_CardinalityType
<1> QED BY <1>1, <1>3, <1>4, <1>5, ConstantsAssumption

(* What taking the head does to the tasks in the queue. *)
LEMMA TailFacts ==
  ASSUME NEW q \in Seq(Tasks), q # <<>>, IsInjective(q)
  PROVE  /\ Tail(q) \in Seq(Tasks) /\ Head(q) \in Tasks
         /\ IsInjective(Tail(q))
         /\ Range(Tail(q)) = Range(q) \ {Head(q)}
         /\ Head(q) \in Range(q)
         /\ Len(Tail(q)) = Len(q) - 1
<1>1. /\ Len(q) \in Nat \ {0} /\ DOMAIN q = 1 .. Len(q)
      /\ Tail(q) \in Seq(Tasks) /\ Len(Tail(q)) = Len(q) - 1
      /\ DOMAIN Tail(q) = 1 .. Len(q) - 1
      /\ \A i \in 1 .. Len(q) - 1 : Tail(q)[i] = q[i + 1]
      /\ Head(q) = q[1] /\ q[1] \in Tasks
  OBVIOUS
<1>2. IsInjective(Tail(q))
  BY <1>1 DEF IsInjective
<1>3. Range(Tail(q)) \subseteq Range(q) \ {Head(q)}
  BY <1>1 DEF Range, IsInjective
<1>4. ASSUME NEW t \in Range(q), t # Head(q) PROVE t \in Range(Tail(q))
  <2>1. PICK i \in 1 .. Len(q) : q[i] = t
    BY <1>1 DEF Range
  <2>2. i - 1 \in 1 .. Len(q) - 1 /\ (i - 1) + 1 = i
    BY <1>1, <1>4, <2>1
  <2>3. Tail(q)[i - 1] = t
    BY <1>1, <2>1, <2>2
  <2> QED BY <1>1, <2>2, <2>3 DEF Range
<1>5. Head(q) \in Range(q)
  BY <1>1 DEF Range
<1> QED BY <1>1, <1>2, <1>3, <1>4, <1>5

(* What submitting does. *)
LEMMA AppendTaskFacts ==
  ASSUME NEW q \in Seq(Tasks), NEW t \in Tasks
  PROVE  /\ Append(q, t) \in Seq(Tasks)
         /\ Range(Append(q, t)) = Range(q) \cup {t}
         /\ IsInjective(q) /\ t \notin Range(q) => IsInjective(Append(q, t))
         /\ Len(Append(q, t)) = Len(q) + 1
<1>1. /\ Len(q) \in Nat /\ DOMAIN q = 1 .. Len(q)
      /\ Append(q, t) \in Seq(Tasks) /\ Len(Append(q, t)) = Len(q) + 1
      /\ DOMAIN Append(q, t) = 1 .. Len(q) + 1
      /\ \A i \in 1 .. Len(q) : Append(q, t)[i] = q[i]
      /\ Append(q, t)[Len(q) + 1] = t
  OBVIOUS
<1>2. Range(Append(q, t)) = Range(q) \cup {t}
  <2>1. \A i \in 1 .. Len(q) + 1 : i \in 1 .. Len(q) \/ i = Len(q) + 1
    BY <1>1
  <2>2. 1 .. Len(q) \subseteq 1 .. Len(q) + 1 /\ Len(q) + 1 \in 1 .. Len(q) + 1
    BY <1>1
  <2> QED BY <1>1, <2>1, <2>2 DEF Range
<1>3. ASSUME IsInjective(q), t \notin Range(q) PROVE IsInjective(Append(q, t))
  BY <1>1, <1>3 DEF IsInjective, Range
<1> QED BY <1>1, <1>2, <1>3
-----------------------------------------------------------------------------
(* Nothing is submitted, taken or destroyed yet. *)
LEMMA InitPlace == Init => PlaceInv
<1> SUFFICES ASSUME Init PROVE PlaceInv
  OBVIOUS
<1>1. Shape
  BY DEF Init, Shape, Places
<1>2. Holding = {} /\ InHand = {} /\ Queued = {} /\ IsInjective(queue)
  BY DEF Init, Holding, InHand, Queued, Range, IsInjective
<1>3. FreshIntact /\ FreedWithTask /\ FaultNeedsSharing
  BY DEF Init, FreshIntact, FreedWithTask, FaultNeedsSharing
<1> QED BY <1>1, <1>2, <1>3 DEF PlaceInv, HoldsTask, OnePlace

(* A step that moves threads between places where they have a task, or     *)
(* between places where they have none, keeps every task where it is.      *)
LEMMA PlacesKept ==
  ASSUME PlaceInv, Shape', Holding' = Holding, UNCHANGED <<queue, task, memory>>
  PROVE  PlaceInv'
<1>1. InHand' = InHand /\ Queued' = Queued
  BY DEF InHand, Queued
<1>2. OnePlace'
  BY <1>1 DEF PlaceInv, OnePlace, memory
<1>3. HoldsTask' /\ FreshIntact' /\ FreedWithTask' /\ FaultNeedsSharing'
  BY DEF PlaceInv, HoldsTask, FreshIntact, FreedWithTask, FaultNeedsSharing, memory
<1> QED BY <1>2, <1>3 DEF PlaceInv

(* The task comes out of the queue into the hands of one thread.           *)
LEMMA TakePlace ==
  ASSUME PlaceInv, NEW th \in Threads, Take(th)
  PROVE  PlaceInv'
<1>1. /\ queue \in Seq(Tasks) /\ queue # <<>> /\ IsInjective(queue)
      /\ pc[th] = "lock" /\ pc' = [pc EXCEPT ![th] = "decide"]
      /\ task' = [task EXCEPT ![th] = Head(queue)]
      /\ queue' = Tail(queue)
      /\ status = "running"
      /\ UNCHANGED <<active, listeners, main, memory>>
  BY DEF Take, PlaceInv, Shape, OnePlace, Goto, Shifted, Running
<1>2. /\ Tail(queue) \in Seq(Tasks) /\ Head(queue) \in Tasks
      /\ IsInjective(Tail(queue))
      /\ Range(Tail(queue)) = Range(queue) \ {Head(queue)}
      /\ Head(queue) \in Range(queue)
  BY <1>1, TailFacts
<1>3. Shape'
  BY <1>1, <1>2 DEF PlaceInv, Shape, Places, memory
<1>4. /\ Holding' = Holding \cup {th} /\ th \notin Holding
      /\ task'[th] = Head(queue)
      /\ \A o \in Holding : o # th /\ task'[o] = task[o]
  BY <1>1 DEF PlaceInv, Shape, Holding
<1>5. HoldsTask'
  BY <1>2, <1>4 DEF PlaceInv, HoldsTask
<1>6. InHand' = InHand \cup {Head(queue)} /\ Queued' = Queued \ {Head(queue)}
  <2>1. InHand' = InHand \cup {Head(queue)}
    BY <1>4 DEF InHand
  <2> QED BY <2>1, <1>1, <1>2 DEF Queued
<1>7. OnePlace'
  <2>1. \A a, b \in Holding' : task'[a] = task'[b] => a = b
    <3>1. \A a \in Holding : task[a] # Head(queue)
      BY <1>2 DEF PlaceInv, OnePlace, InHand, Queued
    <3> QED BY <3>1, <1>4 DEF PlaceInv, OnePlace
  <2>2. IsInjective(queue')
    BY <1>1, <1>2
  <2>3. Queued' \cap InHand' = {}
    BY <1>6 DEF PlaceInv, OnePlace
  <2>4. (Queued' \cup InHand') \cap (fresh' \cup freed') = {}
    <3>1. Head(queue) \in Queued
      BY <1>2 DEF Queued
    <3> QED BY <1>1, <1>6, <3>1 DEF PlaceInv, OnePlace, memory
  <2> QED BY <2>1, <2>2, <2>3, <2>4 DEF OnePlace
<1>8. FreshIntact' /\ FreedWithTask' /\ FaultNeedsSharing'
  BY <1>1 DEF PlaceInv, FreshIntact, FreedWithTask, FaultNeedsSharing, memory
<1> QED BY <1>3, <1>5, <1>7, <1>8 DEF PlaceInv

(* A fault of a thread whose channel is gone: another task took it along.  *)
LEMMA FaultPlace ==
  ASSUME PlaceInv, NEW th \in Threads, pc[th] = "decide", ChannelLost(task[th]), Fault
  PROVE  PlaceInv'
<1>1. status' = "fault" /\ UNCHANGED <<queue, active, local, main, fresh, freed, channels>>
  BY DEF Fault
<1>2. Shape'
  BY <1>1 DEF PlaceInv, Shape, local
<1>3. HoldsTask' /\ OnePlace' /\ FreshIntact' /\ FreedWithTask' /\ Holding' = Holding /\ UNCHANGED task
  BY <1>1 DEF PlaceInv, HoldsTask, OnePlace, FreshIntact, FreedWithTask, Holding, InHand, Queued, local
<1>4. th \in Holding /\ task[th] \in Tasks /\ ChannelOf[task[th]] \in Channels \ channels
  BY ConstantsAssumption DEF PlaceInv, HoldsTask, Holding, ChannelLost
<1>5. PICK t \in freed : ChannelOf[t] = ChannelOf[task[th]]
  BY <1>4 DEF PlaceInv, FreedWithTask
<1>6. task[th] \notin freed
  BY <1>4 DEF PlaceInv, OnePlace, InHand
<1>7. FaultNeedsSharing'
  BY <1>1, <1>3, <1>4, <1>5, <1>6 DEF FaultNeedsSharing
<1> QED BY <1>2, <1>3, <1>7 DEF PlaceInv

(* The task and its channel go together, and the thread lets go of it.     *)
LEMMA DestroyPlace ==
  ASSUME PlaceInv, NEW th \in Threads, Destroy(th)
  PROVE  PlaceInv'
<1>1. CASE ChannelLost(task[th]) /\ Fault
  BY <1>1, FaultPlace DEF Destroy
<1>2. CASE ~ (ChannelLost(task[th]) /\ Fault)
  <2>1. /\ pc[th] = "decide" /\ pc' = [pc EXCEPT ![th] = "lock"]
        /\ task' = [task EXCEPT ![th] = NULL]
        /\ freed' = freed \cup {task[th]}
        /\ channels' = channels \ {ChannelOf[task[th]]}
        /\ status = "running"
        /\ UNCHANGED <<queue, active, listeners, main, fresh, status>>
    BY <1>2 DEF Destroy, Goto, Running
  <2>2. th \in Holding /\ task[th] \in Tasks
    BY <2>1 DEF PlaceInv, HoldsTask, Holding
  <2>3. Shape'
    BY <2>1, <2>2 DEF PlaceInv, Shape, Places
  <2>4. /\ Holding' = Holding \ {th}
        /\ \A o \in Holding \ {th} : task'[o] = task[o]
    BY <2>1 DEF PlaceInv, Shape, Holding
  <2>5. HoldsTask'
    BY <2>4 DEF PlaceInv, HoldsTask
  <2>6. InHand' = InHand \ {task[th]} /\ Queued' = Queued
    BY <2>1, <2>2, <2>4 DEF PlaceInv, OnePlace, InHand, Queued
  <2>7. task[th] \in InHand
    BY <2>2 DEF InHand
  <2>8. OnePlace'
    <3>1. \A a, b \in Holding' : task'[a] = task'[b] => a = b
      BY <2>4 DEF PlaceInv, OnePlace
    <3>2. (Queued' \cup InHand') \cap (fresh' \cup freed') = {}
      BY <2>1, <2>6, <2>7 DEF PlaceInv, OnePlace
    <3> QED BY <3>1, <3>2, <2>1, <2>6 DEF PlaceInv, OnePlace
  <2>9. FreshIntact' /\ FreedWithTask' /\ FaultNeedsSharing'
    <3>1. task[th] \notin fresh
      BY <2>7 DEF PlaceInv, OnePlace
    <3> QED BY <2>1, <3>1 DEF PlaceInv, FreshIntact, FreedWithTask, FaultNeedsSharing
  <2> QED BY <2>3, <2>5, <2>8, <2>9 DEF PlaceInv
<1> QED BY <1>1, <1>2

(* The task goes back to the end of the queue.                             *)
LEMMA ResubmitPlace ==
  ASSUME PlaceInv, NEW th \in Threads, Resubmit(th)
  PROVE  PlaceInv'
<1>1. /\ pc[th] = "submit" /\ pc' = [pc EXCEPT ![th] = "signal"]
      /\ queue' = Append(queue, task[th])
      /\ task' = [task EXCEPT ![th] = NULL]
      /\ status = "running"
      /\ UNCHANGED <<active, listeners, main, memory>>
  BY DEF Resubmit, Goto, Submit, Running
<1>2. th \in Holding /\ task[th] \in Tasks /\ queue \in Seq(Tasks) /\ IsInjective(queue)
  BY <1>1 DEF PlaceInv, Shape, OnePlace, HoldsTask, Holding
<1>3. task[th] \in InHand /\ task[th] \notin Range(queue)
  BY <1>2 DEF PlaceInv, OnePlace, InHand, Queued
<1>4. /\ queue' \in Seq(Tasks) /\ IsInjective(queue')
      /\ Queued' = Queued \cup {task[th]}
  BY <1>1, <1>2, <1>3, AppendTaskFacts DEF Queued
<1>5. Shape'
  BY <1>1, <1>2, <1>4 DEF PlaceInv, Shape, Places, memory
<1>6. /\ Holding' = Holding \ {th}
      /\ \A o \in Holding \ {th} : task'[o] = task[o]
  BY <1>1 DEF PlaceInv, Shape, Holding
<1>7. HoldsTask'
  BY <1>6 DEF PlaceInv, HoldsTask
<1>8. InHand' = InHand \ {task[th]}
  BY <1>2, <1>6 DEF PlaceInv, OnePlace, InHand
<1>9. OnePlace'
  <2>1. \A a, b \in Holding' : task'[a] = task'[b] => a = b
    BY <1>6 DEF PlaceInv, OnePlace
  <2>2. Queued' \cap InHand' = {} /\ (Queued' \cup InHand') \cap (fresh' \cup freed') = {}
    BY <1>1, <1>3, <1>4, <1>8 DEF PlaceInv, OnePlace, memory
  <2> QED BY <2>1, <2>2, <1>4 DEF OnePlace
<1>10. FreshIntact' /\ FreedWithTask' /\ FaultNeedsSharing'
  BY <1>1 DEF PlaceInv, FreshIntact, FreedWithTask, FaultNeedsSharing, memory
<1> QED BY <1>5, <1>7, <1>9, <1>10 DEF PlaceInv

(* A new task comes into the queue.                                        *)
LEMMA SubmitNewPlace ==
  ASSUME PlaceInv, NEW t \in Tasks, SubmitNew(t)
  PROVE  PlaceInv'
<1>1. /\ t \in fresh /\ fresh' = fresh \ {t}
      /\ queue' = Append(queue, t)
      /\ main' = "signal"
      /\ status = "running"
      /\ UNCHANGED <<active, pc, task, listeners, freed, channels, status>>
  BY DEF SubmitNew, Submit, AfterSubmit, Running, local
<1>2. queue \in Seq(Tasks) /\ IsInjective(queue) /\ t \notin Range(queue) /\ t \notin InHand
  BY <1>1 DEF PlaceInv, Shape, OnePlace, Queued
<1>3. /\ queue' \in Seq(Tasks) /\ IsInjective(queue')
      /\ Queued' = Queued \cup {t}
  BY <1>1, <1>2, AppendTaskFacts DEF Queued
<1>4. Shape'
  BY <1>1, <1>3 DEF PlaceInv, Shape
<1>5. Holding' = Holding /\ InHand' = InHand
  BY <1>1 DEF Holding, InHand
<1>6. HoldsTask'
  BY <1>1, <1>5 DEF PlaceInv, HoldsTask
<1>7. t \notin fresh' \cup freed'
  BY <1>1 DEF PlaceInv, FreshIntact
<1>8. OnePlace'
  BY <1>1, <1>2, <1>3, <1>5, <1>7 DEF PlaceInv, OnePlace
<1>9. FreshIntact' /\ FreedWithTask' /\ FaultNeedsSharing'
  BY <1>1 DEF PlaceInv, FreshIntact, FreedWithTask, FaultNeedsSharing
<1> QED BY <1>4, <1>6, <1>8, <1>9 DEF PlaceInv

(* Every other step moves threads between places where they have a task,   *)
(* or between places where they have none.                                 *)
LEMMA MovePlace ==
  ASSUME PlaceInv,
         \/ \E th \in Threads :
              \/ Sleep(th) \/ SpuriousWakeup(th) \/ Execute(th)
              \/ Relay(th) \/ Silence(th) \/ Signal(th)
         \/ MainSignal
         \/ \E uid \in Uids : Toggle(uid)
         \/ Join
         \/ UNCHANGED vars
  PROVE  PlaceInv'
<1> USE DEF Goto, Holding
<1>0. Shape
  BY DEF PlaceInv
<1>1. ASSUME NEW th \in Threads, Sleep(th) PROVE PlaceInv'
  <2>1. Shape' /\ Holding' = Holding
    BY <1>0, <1>1 DEF Shape, Places, Sleep, memory
  <2> QED BY <2>1, <1>1, PlacesKept DEF Sleep
<1>2. ASSUME NEW th \in Threads, SpuriousWakeup(th) PROVE PlaceInv'
  <2>1. Shape' /\ Holding' = Holding
    BY <1>0, <1>2 DEF Shape, Places, SpuriousWakeup, memory
  <2> QED BY <2>1, <1>2, PlacesKept DEF SpuriousWakeup
<1>3. ASSUME NEW th \in Threads, Execute(th) PROVE PlaceInv'
  <2>1. CASE ChannelLost(task[th]) /\ Fault
    BY <2>1, <1>3, FaultPlace DEF Execute
  <2>2. CASE ~ (ChannelLost(task[th]) /\ Fault)
    <3>1. Shape' /\ Holding' = Holding /\ UNCHANGED <<queue, task, memory>>
      BY <1>0, <1>3, <2>2 DEF Shape, Places, Execute, memory
    <3> QED BY <3>1, PlacesKept
  <2> QED BY <2>1, <2>2
<1>4. ASSUME NEW th \in Threads, Relay(th) PROVE PlaceInv'
  <2>1. CASE Overrun
    <3>1. status' = "overrun" /\ UNCHANGED <<queue, active, local, main, fresh, freed, channels>>
      BY <2>1 DEF Overrun
    <3> QED BY <1>0, <3>1 DEF PlaceInv, Shape, HoldsTask, OnePlace, FreshIntact, FreedWithTask,
               FaultNeedsSharing, InHand, Queued, local
  <2>2. CASE ~ Overrun
    <3>1. Shape' /\ Holding' = Holding
      BY <1>0, <1>4, <2>2 DEF Shape, Relay, memory
    <3> QED BY <3>1, <1>4, <2>2, PlacesKept DEF Relay
  <2> QED BY <2>1, <2>2
<1>5. ASSUME NEW th \in Threads, Silence(th) PROVE PlaceInv'
  <2>1. Shape' /\ Holding' = Holding
    BY <1>0, <1>5 DEF Shape, Places, Silence, memory
  <2> QED BY <2>1, <1>5, PlacesKept DEF Silence
<1>6. ASSUME NEW th \in Threads, Signal(th) PROVE PlaceInv'
  <2>1. Shape' /\ Holding' = Holding
    BY <1>0, <1>6 DEF Shape, Places, Signal, Waiting, memory
  <2> QED BY <2>1, <1>6, PlacesKept DEF Signal
<1>7. CASE MainSignal
  <2>1. Shape' /\ Holding' = Holding
    BY <1>0, <1>7 DEF Shape, Places, MainSignal, Waiting, memory
  <2> QED BY <2>1, <1>7, PlacesKept DEF MainSignal
<1>8. ASSUME NEW uid \in Uids, Toggle(uid) PROVE PlaceInv'
  <2>1. Shape' /\ Holding' = Holding
    BY <1>0, <1>8 DEF Shape, Toggle, local, memory
  <2> QED BY <2>1, <1>8, PlacesKept DEF Toggle, local
<1>9. CASE Join
  <2>1. Shape' /\ Holding' = Holding
    BY <1>0, <1>9 DEF Shape, Join, local, memory
  <2> QED BY <2>1, <1>9, PlacesKept DEF Join, local
<1>10. CASE UNCHANGED vars
  <2>1. Shape' /\ Holding' = Holding
    BY <1>0, <1>10 DEF Shape, vars, local, memory
  <2> QED BY <2>1, <1>10, PlacesKept DEF vars, local
<1> QED BY <1>1, <1>2, <1>3, <1>4, <1>5, <1>6, <1>7, <1>8, <1>9, <1>10

LEMMA PlaceStep == PlaceInv /\ [Next]_vars => PlaceInv'
<1> SUFFICES ASSUME PlaceInv, [Next]_vars PROVE PlaceInv'
  OBVIOUS
<1>1. ASSUME NEW th \in Threads, Take(th) PROVE PlaceInv'
  BY <1>1, TakePlace
<1>2. ASSUME NEW th \in Threads, Destroy(th) PROVE PlaceInv'
  BY <1>2, DestroyPlace
<1>3. ASSUME NEW th \in Threads, Resubmit(th) PROVE PlaceInv'
  BY <1>3, ResubmitPlace
<1>4. ASSUME NEW t \in Tasks, SubmitNew(t) PROVE PlaceInv'
  BY <1>4, SubmitNewPlace
<1> QED BY <1>1, <1>2, <1>3, <1>4, MovePlace DEF Next, Thread

(* The voice threads: no two of them have the same task and none has a     *)
(* task that was destroyed (TypeOK, OnePlace), and a thread finds its      *)
(* channel gone only when another task shared it (FaultNeedsSharing).      *)
THEOREM TasksInOnePlace == Spec => [](TypeOK /\ OnePlace /\ FaultNeedsSharing)
<1>1. PlaceInv => TypeOK /\ OnePlace /\ FaultNeedsSharing
  <2> SUFFICES ASSUME PlaceInv PROVE TypeOK
    BY DEF PlaceInv
  <2>1. Len(queue) <= QueueSize
    BY InjectiveLength DEF PlaceInv, Shape, OnePlace
  <2> QED BY <2>1 DEF PlaceInv, Shape, Places, TypeOK
<1> QED BY <1>1, InitPlace, PlaceStep, PTL DEF Spec
-----------------------------------------------------------------------------
(* The threads about to look at the queue can be counted.                  *)
LEMMA WakingFinite ==
  /\ IsFiniteSet(Waking) /\ Cardinality(Waking) \in Nat
  /\ MainSignals \in {0, 1}
<1>1. Waking \subseteq Threads /\ IsFiniteSet(Threads)
  BY ConstantsAssumption DEF Waking
<1>2. IsFiniteSet(Waking)
  BY <1>1, FS_Subset
<1> QED BY <1>2, FS_CardinalityType DEF MainSignals

(* Steps after which no fewer threads, and main, are about to look at the  *)
(* queue, and no more tasks are in it.                                     *)
LEMMA MoreWaking ==
  ASSUME Shape, NoLostWakeup, Waiting' # {} => Waiting # {},
         Waking \subseteq Waking', queue' = queue, MainSignals' = MainSignals
  PROVE  NoLostWakeup'
<1>1. /\ IsFiniteSet(Waking') /\ Cardinality(Waking') \in Nat
      /\ Cardinality(Waking) \in Nat /\ MainSignals \in {0, 1} /\ MainSignals' \in {0, 1}
  <2>1. Waking' \subseteq Threads /\ IsFiniteSet(Threads)
    BY ConstantsAssumption DEF Waking
  <2>2. IsFiniteSet(Waking')
    BY <2>1, FS_Subset
  <2> QED BY <2>2, WakingFinite, FS_CardinalityType DEF MainSignals
<1>2. Cardinality(Waking) <= Cardinality(Waking')
  BY <1>1, FS_Subset
<1>3. Len(queue) \in Nat
  BY DEF Shape
<1> QED BY <1>1, <1>2, <1>3 DEF NoLostWakeup

(* Each step keeps the count: a task leaves the queue with the thread that *)
(* looked at it, and comes to it with a signal that is still to be sent.   *)
LEMMA WakeupStep ==
  ASSUME PlaceInv, NoLostWakeup, [Next]_vars
  PROVE  NoLostWakeup'
<1>0. /\ Shape /\ Len(queue) \in Nat /\ pc \in [Threads -> Places]
      /\ queue \in Seq(Tasks)
  BY DEF PlaceInv, Shape
<1>c. /\ IsFiniteSet(Waking) /\ Cardinality(Waking) \in Nat
      /\ MainSignals \in {0, 1}
  BY WakingFinite
<1>1. ASSUME NEW th \in Threads, Sleep(th) PROVE NoLostWakeup'
  <2>1. Waking' = Waking \ {th} /\ Len(queue') = 0
    BY <1>0, <1>1 DEF Sleep, Goto, Waking
  <2>2. Cardinality(Waking') \in Nat /\ MainSignals' \in {0, 1}
    <3>1. IsFiniteSet(Waking')
      BY <1>c, <2>1, FS_Subset
    <3> QED BY <3>1, FS_CardinalityType DEF MainSignals
  <2> QED BY <2>1, <2>2 DEF NoLostWakeup
<1>2. ASSUME NEW th \in Threads, SpuriousWakeup(th) PROVE NoLostWakeup'
  <2>1. /\ Waiting' # {} => Waiting # {}
        /\ Waking \subseteq Waking' /\ queue' = queue /\ MainSignals' = MainSignals
    BY <1>0, <1>2 DEF SpuriousWakeup, Goto, Waking, Waiting, MainSignals
  <2> QED BY <1>0, <2>1, MoreWaking
<1>3. ASSUME NEW th \in Threads, Take(th) PROVE NoLostWakeup'
  <2>1. /\ th \in Waking /\ Waking' = Waking \ {th} /\ Waiting' = Waiting
        /\ queue' = Tail(queue) /\ queue # <<>> /\ MainSignals' = MainSignals
    BY <1>0, <1>3 DEF Take, Goto, Waking, Waiting, Shifted, MainSignals, Places
  <2>2. Cardinality(Waking') = Cardinality(Waking) - 1
    BY <1>c, <2>1, FS_RemoveElement
  <2>3. Len(queue') = Len(queue) - 1
    BY <1>0, <2>1, TailFacts
  <2> QED BY <1>0, <1>c, <2>1, <2>2, <2>3 DEF NoLostWakeup
<1>4. ASSUME NEW th \in Threads,
             Execute(th) \/ Relay(th) \/ Silence(th) \/ Destroy(th) \/ Signal(th)
      PROVE  NoLostWakeup'
  <2>1. /\ Waiting' # {} => Waiting # {}
        /\ Waking \subseteq Waking' /\ queue' = queue /\ MainSignals' = MainSignals
    <3>1. CASE Execute(th)
      BY <1>0, <3>1 DEF Execute, Fault, Goto, Waking, Waiting, MainSignals, local
    <3>2. CASE Relay(th)
      BY <1>0, <3>2 DEF Relay, Overrun, Waking, Waiting, MainSignals, local
    <3>3. CASE Silence(th)
      BY <1>0, <3>3 DEF Silence, Goto, Waking, Waiting, MainSignals
    <3>4. CASE Destroy(th)
      BY <1>0, <3>4 DEF Destroy, Fault, Goto, Waking, Waiting, MainSignals, local
    <3>5. CASE Signal(th)
      BY <1>0, <3>5 DEF Signal, Waking, Waiting, MainSignals
    <3> QED BY <1>4, <3>1, <3>2, <3>3, <3>4, <3>5
  <2> QED BY <1>0, <2>1, MoreWaking
<1>5. ASSUME NEW th \in Threads, Resubmit(th) PROVE NoLostWakeup'
  <2>1. /\ th \notin Waking /\ Waking' = Waking \cup {th} /\ Waiting' = Waiting
        /\ queue' = Append(queue, task[th]) /\ MainSignals' = MainSignals
    BY <1>0, <1>5 DEF Resubmit, Submit, Goto, Waking, Waiting, MainSignals, Places
  <2>2. Cardinality(Waking') = Cardinality(Waking) + 1
    BY <1>c, <2>1, FS_AddElement
  <2>3. Len(queue') = Len(queue) + 1
    BY <1>0, <2>1
  <2> QED BY <1>0, <1>c, <2>1, <2>2, <2>3 DEF NoLostWakeup
<1>6. ASSUME NEW t \in Tasks, SubmitNew(t) PROVE NoLostWakeup'
  <2>1. /\ Waking' = Waking /\ Waiting' = Waiting /\ queue' = Append(queue, t)
        /\ MainSignals = 0 /\ MainSignals' = 1
    BY <1>6 DEF SubmitNew, Submit, AfterSubmit, Waking, Waiting, MainSignals, local
  <2>2. Len(queue') = Len(queue) + 1
    BY <1>0, <2>1
  <2> QED BY <1>0, <1>c, <2>1, <2>2 DEF NoLostWakeup
<1>7. CASE MainSignal
  <2>0. MainSignals = 1 /\ MainSignals' = 0 /\ queue' = queue
    BY <1>7 DEF MainSignal, MainSignals
  <2>1. CASE Waiting = {} /\ UNCHANGED pc
    BY <2>1 DEF NoLostWakeup, Waiting
  <2>2. ASSUME NEW other \in Waiting, pc' = [pc EXCEPT ![other] = "lock"]
        PROVE  NoLostWakeup'
    <3>1. other \notin Waking /\ Waking' = Waking \cup {other}
      BY <1>0, <2>2 DEF Waking, Waiting, Places
    <3>2. Cardinality(Waking') = Cardinality(Waking) + 1
      BY <1>c, <3>1, FS_AddElement
    <3> QED BY <1>0, <1>c, <2>0, <2>2, <3>2 DEF NoLostWakeup
  <2> QED BY <1>7, <2>1, <2>2 DEF MainSignal
<1>8. ASSUME (\E uid \in Uids : Toggle(uid)) \/ Join \/ UNCHANGED vars
      PROVE  NoLostWakeup'
  <2>1. UNCHANGED <<queue, pc>> /\ MainSignals' = MainSignals
    BY <1>8 DEF Toggle, Join, vars, local, MainSignals
  <2> QED BY <2>1 DEF NoLostWakeup, Waiting, Waking
<1> QED BY <1>1, <1>2, <1>3, <1>4, <1>5, <1>6, <1>7, <1>8 DEF Next, Thread

(* A voice thread does not wait with a task in the queue that nobody is on *)
(* his way to: though pthread_cond_signal comes after the unlock, and may  *)
(* find no thread waiting, no wake-up is lost.                             *)
THEOREM WakeupsArrive == Spec => []NoLostWakeup
<1>1. Init => NoLostWakeup
  <2> SUFFICES ASSUME Init PROVE NoLostWakeup
    OBVIOUS
  <2>1. Waiting = {}
    BY DEF Init, Waiting
  <2> QED BY <2>1 DEF NoLostWakeup
<1> QED BY <1>1, InitPlace, PlaceStep, WakeupStep, PTL DEF Spec
=============================================================================
