------------------------------- MODULE Lists --------------------------------
(* What a caller of common/src/linked_list.c can rely on.  A list is the   *)
(* sequence of its data, head first.                                       *)
EXTENDS Integers, SequencesExt

(* delete_node takes out the first match.  It reads node_iter->data of the *)
(* head, and node_iter->next->next of a head that does not match: an empty *)
(* list, or a list of one other node, dereferences NULL.                   *)
DeleteFaults(list, d) ==
  \/ list = <<>>
  \/ Len(list) = 1 /\ list[1] # d
=============================================================================
