------------------------------ MODULE ListSpec ------------------------------
(* The linked list as its callers see it: every call is one step on the    *)
(* sequence of data, and ret is what the last call returned.               *)
EXTENDS Lists, FiniteSets

CONSTANT Data

VARIABLES
  list,      \* the data, head first
  filtered,  \* what the last filter returned
  ret,       \* result of the last call that returned: 1 or 0
  status     \* "ok", "fault" or "destroyed"

vars == <<list, filtered, ret, status>>

(* users_init and channels_init start from one node.                       *)
Init ==
  /\ \E d \in Data : list = <<d>>
  /\ filtered = <<>>
  /\ ret = 1
  /\ status = "ok"

(* push_data: in front, whatever the list holds.                           *)
PushData(d) ==
  /\ status = "ok"
  /\ list' = Cons(d, list)
  /\ ret' = 1
  /\ UNCHANGED <<filtered, status>>

(* push_node: in front of a list that is not empty, refused otherwise.     *)
PushNode(d) ==
  /\ status = "ok"
  /\ \/ list # <<>> /\ list' = Cons(d, list) /\ ret' = 1
     \/ list = <<>> /\ ret' = 0 /\ UNCHANGED list
  /\ UNCHANGED <<filtered, status>>

FindNode(d) ==
  /\ status = "ok"
  /\ \/ Contains(list, d) /\ ret' = 1
     \/ ~ Contains(list, d) /\ ret' = 0
  /\ UNCHANGED <<list, filtered, status>>

DeleteNode(d) ==
  /\ status = "ok"
  /\ \/ /\ DeleteFaults(list, d)
        /\ status' = "fault"
        /\ UNCHANGED <<list, ret>>
     \/ /\ ~ DeleteFaults(list, d)
        /\ list' = RemoveFirst(list, d)
        /\ \/ Contains(list, d) /\ ret' = 1
           \/ ~ Contains(list, d) /\ ret' = 0
        /\ UNCHANGED status
  /\ UNCHANGED filtered

(* filter finds the ids there are, each once; it reads the node after the *)
(* only one when two ids are asked for.                                    *)
Filter(ids) ==
  /\ status = "ok"
  /\ \/ /\ \/ list = <<>> /\ ids # {}
           \/ Len(list) = 1 /\ Cardinality(ids) > 1
        /\ status' = "fault"
        /\ filtered' = <<>>
     \/ /\ list = <<>> => ids = {}
        /\ Len(list) = 1 => Cardinality(ids) < 2
        /\ IsInjective(filtered')
        /\ Range(filtered') = ids \cap Range(list)
        /\ UNCHANGED status
  /\ UNCHANGED <<list, ret>>

(* The caller drops the list it got, before it asks for the next.          *)
Release ==
  /\ status = "ok"
  /\ filtered' = <<>>
  /\ UNCHANGED <<list, ret, status>>

DestroyList ==
  /\ status = "ok"
  /\ list' = <<>>
  /\ status' = "destroyed"
  /\ UNCHANGED <<filtered, ret>>

Next ==
  \/ \E d \in Data : PushData(d) \/ PushNode(d) \/ FindNode(d) \/ DeleteNode(d)
  \/ \E ids \in SUBSET Data : Filter(ids)
  \/ Release
  \/ DestroyList

Spec == Init /\ [][Next]_vars
=============================================================================
