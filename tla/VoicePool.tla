----------------------------- MODULE VoicePool -----------------------------
(***************************************************************************)
(* The voice threads of the server (server_voice.c, voice_task.c): they    *)
(* take VoiceTasks from a queue that mutex guards, relay datagrams while   *)
(* there are any, and put the task back, or destroy it when its user has   *)
(* left the voice channel.  What happens under the mutex is one step;      *)
(* active_voice_chan is read without it, and the signal comes after it.    *)
(***************************************************************************)
EXTENDS Integers, SequencesExt, Functions, FiniteSets

CONSTANTS
  Threads,             \* NUM_VTHREADS of them
  Tasks,               \* the VoiceTask objects
  Uids, Channels,
  UidOf, ChannelOf,    \* task->uid and task->channel
  QueueSize,           \* entries of voice_task_queue
  NULL

(* submit_task does not compare task_count with the size of the array:     *)
(* that there are never more tasks than entries is left to its callers.    *)
ASSUME ConstantsAssumption ==
  /\ IsFiniteSet(Threads)
  /\ IsFiniteSet(Tasks) /\ NULL \notin Tasks
  /\ UidOf \in [Tasks -> Uids]
  /\ ChannelOf \in [Tasks -> Channels]
  /\ QueueSize \in Nat /\ Cardinality(Tasks) <= QueueSize

VARIABLES
  queue,       \* voice_task_queue[0 .. task_count - 1]
  active,      \* the uids with active_voice_chan
  pc,          \* where each thread is: "wait" in pthread_cond_wait
  task,        \* the task in its hands
  listeners,   \* user_node of execute_voice_task: "head", or "none" at the end of the list
  main,        \* the thread that runs the server, then joins the others
  fresh,       \* tasks not yet submitted
  freed,       \* tasks destroyed
  channels,    \* channels not freed
  status       \* of the process: "fault" over a freed channel, "overrun" of voice_buf

local == <<pc, task, listeners>>
memory == <<fresh, freed, channels, status>>
vars == <<queue, active, local, main, memory>>

Init ==
  /\ queue = <<>>
  /\ active = {}
  /\ pc = [th \in Threads |-> "lock"]
  /\ task = [th \in Threads |-> NULL]
  /\ listeners = [th \in Threads |-> "none"]
  /\ main = "serving"
  /\ fresh = Tasks /\ freed = {}
  /\ channels = Channels
  /\ status = "running"

Running == status = "running"

Goto(th, from, to) ==
  /\ pc[th] = from
  /\ pc' = [pc EXCEPT ![th] = to]
-----------------------------------------------------------------------------
(* Without a task: wait, which lets go of the mutex.                       *)
Sleep(th) ==
  /\ Running /\ queue = <<>>
  /\ Goto(th, "lock", "wait")
  /\ UNCHANGED <<queue, active, task, listeners, main, memory>>

(* pthread_cond_wait may return without a signal; the loop tests again.    *)
SpuriousWakeup(th) ==
  /\ Running
  /\ Goto(th, "wait", "lock")
  /\ UNCHANGED <<queue, active, task, listeners, main, memory>>

\* Slip: the entries are not moved down.
NotShifted(q) == q

Shifted(q) == Tail(q)

Take(th) ==
  /\ Running /\ queue # <<>>
  /\ Goto(th, "lock", "decide")
  /\ task' = [task EXCEPT ![th] = Head(queue)]
  /\ queue' = Shifted(queue)
  /\ UNCHANGED <<active, listeners, main, memory>>

Fault ==
  /\ status' = "fault"
  /\ UNCHANGED <<queue, active, local, main, fresh, freed, channels>>

\* What start_thread does with the task, outside the mutex.
IsActive(t) == UidOf[t] \in active

ChannelLost(t) == ChannelOf[t] \notin channels

(* task->channel->users of a freed channel is read all the same.           *)
Execute(th) ==
  /\ Running /\ pc[th] = "decide" /\ IsActive(task[th])
  /\ \/ ChannelLost(task[th]) /\ Fault
     \/ /\ Goto(th, "decide", "recv")
        /\ listeners' = [listeners EXCEPT ![th] = "head"]
        /\ UNCHANGED <<queue, active, task, main, memory>>

(* udp_server_recv stores up to MD_BUFF_SIZE bytes in a voice_buf of half  *)
(* that size: the copy of a longer datagram may end the process.           *)
Overrun ==
  /\ status' = "overrun"
  /\ UNCHANGED <<queue, active, local, main, fresh, freed, channels>>

(* A datagram goes to the other users of the channel, whose list outlives  *)
(* the channel.  user_node is not set back to the head: the next datagram  *)
(* goes to nobody.                                                         *)
Relay(th) ==
  /\ Running /\ pc[th] = "recv"
  /\ \/ Overrun
     \/ /\ listeners[th] = "head"
        /\ listeners' = [listeners EXCEPT ![th] = "none"]
        /\ UNCHANGED <<queue, active, pc, task, main, memory>>

(* recv returned 0 or failed.                                              *)
Silence(th) ==
  /\ Running
  /\ Goto(th, "recv", "submit")
  /\ listeners' = [listeners EXCEPT ![th] = "none"]
  /\ UNCHANGED <<queue, active, task, main, memory>>

(* voice_task_destroy frees the channel with the task; the second free of  *)
(* a channel aborts.                                                       *)
Destroy(th) ==
  /\ Running /\ pc[th] = "decide" /\ ~ IsActive(task[th])
  /\ \/ ChannelLost(task[th]) /\ Fault
     \/ /\ ~ ChannelLost(task[th])
        /\ Goto(th, "decide", "lock")
        /\ task' = [task EXCEPT ![th] = NULL]
        /\ freed' = freed \cup {task[th]}
        /\ channels' = channels \ {ChannelOf[task[th]]}
        /\ UNCHANGED <<queue, active, listeners, main, fresh, status>>

\* Slip: the task goes to the front.
PutBackFirst(t) == queue' = Cons(t, queue)

Submit(t) == queue' = Append(queue, t)

Resubmit(th) ==
  /\ Running
  /\ Goto(th, "submit", "signal")
  /\ Submit(task[th])
  /\ task' = [task EXCEPT ![th] = NULL]
  /\ UNCHANGED <<active, listeners, main, memory>>

Waiting == {th \in Threads : pc[th] = "wait"}

(* pthread_cond_signal wakes one of those that wait; if there is none it   *)
(* does nothing.                                                           *)
Signal(th) ==
  /\ Running /\ pc[th] = "signal"
  /\ \/ Waiting = {} /\ pc' = [pc EXCEPT ![th] = "lock"]
     \/ \E other \in Waiting :
          pc' = [pc EXCEPT ![th] = "lock", ![other] = "lock"]
  /\ UNCHANGED <<queue, active, task, listeners, main, memory>>
-----------------------------------------------------------------------------
\* Slip: the task is submitted and nobody is woken.
NoSignal == "serving"

AfterSubmit == "signal"

(* The server's thread: it submits a new task,                             *)
SubmitNew(t) ==
  /\ Running /\ main = "serving" /\ t \in fresh
  /\ Submit(t)
  /\ fresh' = fresh \ {t}
  /\ main' = AfterSubmit
  /\ UNCHANGED <<active, local, freed, channels, status>>

MainSignal ==
  /\ Running /\ main = "signal"
  /\ main' = "serving"
  /\ \/ Waiting = {} /\ UNCHANGED pc
     \/ \E other \in Waiting : pc' = [pc EXCEPT ![other] = "lock"]
  /\ UNCHANGED <<queue, active, task, listeners, memory>>

(* turns a user's voice channel on or off, at any point of the threads, *)
Toggle(uid) ==
  /\ Running /\ main = "serving"
  /\ active' = (active \ {uid}) \cup ({uid} \ active)
  /\ UNCHANGED <<queue, local, main, memory>>

(* and when run returns it waits for threads that never end.               *)
Join ==
  /\ Running /\ main = "serving"
  /\ main' = "joining"
  /\ UNCHANGED <<queue, active, local, memory>>

Thread(th) ==
  \/ Sleep(th) \/ Take(th) \/ Execute(th) \/ Destroy(th)
  \/ Resubmit(th) \/ Signal(th)

Next ==
  \/ \E th \in Threads :
       Thread(th) \/ SpuriousWakeup(th) \/ Relay(th) \/ Silence(th)
  \/ \E t \in Tasks : SubmitNew(t)
  \/ MainSignal
  \/ \E uid \in Uids : Toggle(uid)
  \/ Join

Spec == Init /\ [][Next]_vars

(* The scheduler runs every thread on; nothing makes a datagram come, or   *)
(* recv return.                                                            *)
FairSpec == Spec /\ WF_vars(MainSignal) /\ \A th \in Threads : WF_vars(Thread(th))
-----------------------------------------------------------------------------
(* The shape of every variable; task_count stays within the array.         *)
TypeOK ==
  /\ queue \in Seq(Tasks) /\ Len(queue) <= QueueSize
  /\ active \subseteq Uids
  /\ pc \in [Threads -> {"lock", "wait", "decide", "recv", "submit", "signal"}]
  /\ task \in [Threads -> Tasks \cup {NULL}]
  /\ listeners \in [Threads -> {"head", "none"}]
  /\ main \in {"serving", "signal", "joining"}
  /\ fresh \subseteq Tasks /\ freed \subseteq Tasks
  /\ channels \subseteq Channels
  /\ status \in {"running", "fault", "overrun"}

Holding == {th \in Threads : pc[th] \in {"decide", "recv", "submit"}}

Queued == Range(queue)

InHand == {task[th] : th \in Holding}

(* A task is in one entry of the queue or in the hands of one thread: no   *)
(* two threads execute the same task, and none uses one that was freed.    *)
OnePlace ==
  /\ IsInjective(queue)
  /\ \A a, b \in Holding : task[a] = task[b] => a = b
  /\ Queued \cap InHand = {}
  /\ (Queued \cup InHand) \cap (fresh \cup freed) = {}

Waking == {th \in Threads : pc[th] \in {"lock", "signal"}}

MainSignals == IF main = "signal" THEN 1 ELSE 0

(* While a thread waits, each queued task has a thread about to look at    *)
(* the queue, or one about to signal: the signal is sent after the unlock  *)
(* and is not lost.                                                        *)
NoLostWakeup ==
  Waiting # {} => Len(queue) <= Cardinality(Waking) + MainSignals

(* Of the threads' own frees, a thread faults on a channel only when two   *)
(* tasks share it: a task alone on its channel finds it allocated until it *)
(* is destroyed itself.                                                    *)
FaultNeedsSharing ==
  status = "fault" =>
    \E th \in Holding : \E t \in freed \ {task[th]} : ChannelOf[t] = ChannelOf[task[th]]

(* With a thread for every task none stays in the queue: a thread that     *)
(* blocks in recv keeps one task only.                                     *)
EveryTaskTaken ==
  \A t \in Tasks : t \in Queued ~> t \notin Queued \/ ~ Running
=============================================================================
