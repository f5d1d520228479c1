----------------------------- MODULE LinkedList -----------------------------
(* common/src/linked_list.c on the heap: nodes are addresses that malloc   *)
(* hands out again after free, a list is head, tail and length.  A call    *)
(* that walks the list is one step per node, so that what it has read is   *)
(* separate from what it writes.                                           *)
EXTENDS Lists, FiniteSets

CONSTANTS
  Nodes,   \* addresses malloc can return for a node: bounds the list
  Data,    \* what a comparator tells apart: the ids of users or channels
  NULL

ASSUME NodesAssumption ==
  /\ IsFiniteSet(Nodes) /\ IsFiniteSet(Data)
  /\ NULL \notin Nodes

VARIABLES
  head, tail, length,   \* the LinkedList
  next, data,           \* the fields of every address
  alive,                \* addresses allocated and not freed
  op, iter, target,     \* the call in progress, its node_iter and argument
  wanted, passes,       \* filter: the ids asked for, the passes it has made
  picked,               \* the list it makes, head first
  ret,                  \* result of the last call that returned
  status

Address == Nodes \cup {NULL}

heap == <<next, data, alive>>
fields == <<head, tail, length>>
call == <<op, iter, target>>
filtering == <<wanted, passes, picked>>
vars == <<fields, heap, call, filtering, ret, status>>

Idle == status = "ok" /\ op = "none"

Init ==
  /\ \E n \in Nodes, d \in Data :
       /\ head = n /\ tail = n
       /\ alive = {n}
       /\ data = [m \in Nodes |-> IF m = n THEN d ELSE NULL]
  /\ length = 1
  /\ next = [m \in Nodes |-> NULL]
  /\ op = "none" /\ iter = NULL /\ target \in Data
  /\ wanted = {} /\ passes = 0 /\ picked = <<>>
  /\ ret = 1
  /\ status = "ok"

(* create_node *)
Allocate(n, d, successor) ==
  /\ n \in Nodes \ alive
  /\ alive' = alive \cup {n}
  /\ data' = [data EXCEPT ![n] = d]
  /\ next' = [next EXCEPT ![n] = successor]

\* Slip: the node is unlinked and not destroyed.
Forget(n) == UNCHANGED <<alive, data>>

(* destroy_node clears data; what free leaves in next is taken for NULL.   *)
Free(n) ==
  /\ alive' = alive \ {n}
  /\ data' = [data EXCEPT ![n] = NULL]

TailAfterPush(n) == IF length = 1 THEN head ELSE tail

PushData(n, d) ==
  /\ Idle
  /\ Allocate(n, d, head)
  /\ head' = n
  /\ tail' = TailAfterPush(n)
  /\ length' = length + 1
  /\ ret' = 1
  /\ UNCHANGED <<call, filtering, status>>

(* The caller has created the node; push_node keeps it from an empty list, *)
(* and push_channel_user forgets it.                                       *)
PushNode(n, d) ==
  /\ Idle
  /\ Allocate(n, d, head)
  /\ \/ /\ head # NULL
        /\ head' = n
        /\ tail' = TailAfterPush(n)
        /\ length' = length + 1
        /\ ret' = 1
     \/ head = NULL /\ ret' = 0 /\ UNCHANGED fields
  /\ UNCHANGED <<call, filtering, status>>

Return(r) ==
  /\ op' = "none"
  /\ iter' = NULL
  /\ ret' = r
  /\ UNCHANGED target

(* find_node: the walk starts at the head, which may be NULL.              *)
FindStart(d) ==
  /\ Idle
  /\ op' = "find" /\ iter' = head /\ target' = d
  /\ UNCHANGED <<fields, heap, filtering, ret, status>>

\* Slip: the walk does not move on.
Stay == iter

Advance == next[iter]

FindStep ==
  /\ op = "find"
  /\ \/ iter = NULL /\ Return(0)
     \/ iter # NULL /\ data[iter] = target /\ Return(1)
     \/ /\ iter # NULL /\ data[iter] # target
        /\ iter' = Advance
        /\ UNCHANGED <<op, target, ret>>
  /\ UNCHANGED <<fields, heap, filtering, status>>

Fault ==
  /\ status' = "fault"
  /\ op' = "none" /\ iter' = NULL
  /\ UNCHANGED <<fields, heap, target, ret>>

(* delete_node looks at the head first.                                    *)
DeleteStart(d) ==
  /\ Idle
  /\ \/ head = NULL /\ Fault /\ UNCHANGED filtering
     \/ /\ head # NULL /\ data[head] = d
        /\ head' = next[head]
        /\ Free(head)
        /\ next' = [next EXCEPT ![head] = NULL]
        /\ length' = length - 1
        /\ ret' = 1
        /\ UNCHANGED <<tail, call, filtering, status>>
     \/ /\ head # NULL /\ data[head] # d
        /\ op' = "delete" /\ iter' = head /\ target' = d
        /\ UNCHANGED <<fields, heap, filtering, ret, status>>

\* Slip: the tail is taken from the link of the node that was removed.
TailCleared == IF next[next[iter]] = NULL THEN NULL ELSE tail

TailAfterDelete == IF next[next[iter]] = NULL THEN iter ELSE tail

\* Slip: the node is destroyed and its predecessor still points to it.
KeepLink == next' = [next EXCEPT ![next[iter]] = NULL]

Relink == next' = [next EXCEPT ![iter] = next[next[iter]], ![next[iter]] = NULL]

(* The loop then looks one node ahead, until the node ahead is the last,   *)
(* which is compared after the loop.                                       *)
DeleteStep ==
  /\ op = "delete"
  /\ LET ahead == next[iter]
     IN  \/ ahead = NULL /\ Fault
         \/ /\ ahead # NULL /\ data[ahead] = target
            /\ Free(ahead)
            /\ Relink
            /\ tail' = TailAfterDelete
            /\ length' = length - 1
            /\ Return(1)
            /\ UNCHANGED <<head, status>>
         \/ /\ ahead # NULL /\ data[ahead] # target
            /\ \/ next[ahead] = NULL /\ Return(0)
               \/ /\ next[ahead] # NULL
                  /\ iter' = ahead
                  /\ UNCHANGED <<op, target, ret>>
            /\ UNCHANGED <<fields, heap, status>>
  /\ UNCHANGED filtering

(* filter over the users of a channel, with the ids of a FilterQuery.  It  *)
(* does not look at the list when no id is asked for.                      *)
FilterStart(ids) ==
  /\ Idle
  /\ picked' = <<>>
  /\ \/ ids # {} /\ head = NULL /\ Fault /\ UNCHANGED <<wanted, passes>>
     \/ ids = {} /\ UNCHANGED <<fields, heap, call, wanted, passes, ret, status>>
     \/ /\ ids # {} /\ head # NULL
        /\ op' = "filter" /\ iter' = head
        /\ wanted' = ids /\ passes' = 0
        /\ UNCHANGED <<fields, heap, target, ret, status>>

(* filter_user_id: an id that was found is overwritten.                    *)
filter_user_id(d) == d \in wanted \ Range(picked)

\* Slip: an id is found again on every node that has it.
FoundAgain(d) == IF d \in wanted THEN Cons(d, picked) ELSE picked

PickedWith(d) == IF filter_user_id(d) THEN Cons(d, picked) ELSE picked

(* One pass for each id, until all are found; a pass after the first one   *)
(* begins behind the head.                                                 *)
FilterStep ==
  /\ op = "filter"
  /\ LET num == Cardinality(wanted)
         more == passes < num /\ Len(picked) < num
     IN  \/ /\ ~ more
            /\ op' = "none" /\ iter' = NULL
            /\ wanted' = {} /\ passes' = 0
            /\ UNCHANGED <<fields, heap, target, picked, ret, status>>
         \/ more /\ iter = NULL /\ Fault /\ picked' = <<>> /\ wanted' = {} /\ passes' = 0
         \/ /\ more /\ iter # NULL
            /\ picked' = PickedWith(data[iter])
            /\ \/ next[iter] = NULL /\ iter' = next[head] /\ passes' = passes + 1
               \/ next[iter] # NULL /\ iter' = next[iter] /\ UNCHANGED passes
            /\ UNCHANGED <<fields, heap, op, target, wanted, ret, status>>
-----------------------------------------------------------------------------
(* The nodes from the first on, over the links: at most one more than      *)
(* there are addresses.                                                    *)
PathFrom(first, link) ==
  LET successor == [a \in Address |-> IF a = NULL THEN NULL ELSE link[a]]
      node[k \in 1 .. Cardinality(Nodes) + 1] ==
        IF k = 1 THEN first ELSE successor[node[k - 1]]
      reached == {k \in DOMAIN node : node[k] # NULL}
  IN  [k \in reached |-> node[k]]

path == PathFrom(head, next)

contents == IF status = "destroyed" THEN <<>> ELSE [k \in DOMAIN path |-> data[path[k]]]

(* destroy_list frees every node but the last, no data, and the list       *)
(* itself; of an empty list it frees nothing.                              *)
DestroyList ==
  /\ Idle
  /\ alive' = IF path = <<>> THEN alive ELSE alive \ Range(Front(path))
  /\ status' = "destroyed"
  /\ UNCHANGED <<fields, next, data, call, filtering, ret>>

Step == FindStep \/ DeleteStep \/ FilterStep

Next ==
  \/ \E d \in Data :
       \/ \E n \in Nodes : PushData(n, d) \/ PushNode(n, d)
       \/ FindStart(d)
       \/ DeleteStart(d)
  \/ \E ids \in SUBSET Data : FilterStart(ids)
  \/ Step
  \/ DestroyList

(* A call is one thread's loop, which the scheduler runs on.               *)
Spec == Init /\ [][Next]_vars /\ WF_vars(Step)
-----------------------------------------------------------------------------
(* The shape of every variable. *)
TypeOK ==
  /\ head \in Address /\ tail \in Nodes
  /\ length \in 0 .. Cardinality(Nodes)
  /\ next \in [Nodes -> Address]
  /\ data \in [Nodes -> Data \cup {NULL}]
  /\ alive \subseteq Nodes
  /\ op \in {"none", "find", "delete", "filter"}
  /\ iter \in Address
  /\ target \in Data
  /\ wanted \subseteq Data /\ passes \in 0 .. Cardinality(Data)
  /\ picked \in Seq(Data) /\ Len(picked) <= Cardinality(Data)
  /\ ret \in {0, 1}
  /\ status \in {"ok", "fault", "destroyed"}

(* What can be reached from the head has not been freed, has no cycle, and *)
(* is as long as list->length says, which is what cpt_server.c tests to    *)
(* delete an empty channel.  tail is the last node as soon as the list has *)
(* two; of a shorter list it may be a node that was freed.  A walk in      *)
(* progress stands on a node of the list.                                  *)
WellFormed ==
  status # "destroyed" =>
    /\ Range(path) \subseteq alive
    /\ IsInjective(path)
    /\ length = Len(path)
    /\ Len(path) >= 2 => tail = Last(path)
    /\ op # "none" /\ iter # NULL => Contains(path, iter)

(* A node is lost to the heap only when push_node refuses it.              *)
LostOnlyWhenRefused ==
  [][status' # "destroyed" /\ (alive \ Range(path))' # alive \ Range(path)
       => head = NULL /\ ret' = 0]_vars

(* Every walk over the list comes to its end.                              *)
CallsReturn == op # "none" ~> op = "none"

(* Callers see a sequence: the interface ChatServer is written against.    *)
Abstract ==
  INSTANCE ListSpec WITH list <- contents,
                         filtered <- IF op = "filter" THEN <<>> ELSE picked
ImplementsListSpec == Abstract!Spec
=============================================================================
