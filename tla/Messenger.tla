----------------------------- MODULE Messenger -----------------------------
(***************************************************************************)
(* One block of shared memory (messenger/shared_memory.c): the two threads *)
(* of the client copy chat messages into it (handlers.c) and the messenger *)
(* process prints and erases it (messenger/cpt_messenger.c).  There is no  *)
(* lock; a step reads or writes one cell.                                  *)
(***************************************************************************)
EXTENDS Integers, Sequences

CONSTANTS
  Messages, Title,
  Length,       \* characters of each, without the terminator
  BlockSize,
  NULL

(* BLOCK_SIZE is 4096; a message comes from a buffer of at most 512.       *)
ASSUME ConstantsAssumption ==
  /\ NULL \notin Messages \cup {Title}
  /\ BlockSize \in Nat
  /\ Length \in [Messages \cup {Title} -> 1 .. BlockSize - 1]

Writers == {"send", "recv"}
Cells == 1 .. BlockSize

VARIABLES
  block,      \* which message's character is in the cell; NULL is the terminator
  copying,    \* what each thread of the client is copying
  at,         \* the cell it is at
  reader,     \* where the messenger is
  pos,        \* the cell it is at
  size,       \* what its second strlen returned
  out,        \* what it prints in this pass
  fault,      \* "none", or the process that wrote to a block it could not attach
  clean,      \* history: the copy under way has had the block to itself
  alone       \* history: the last message copied so, until another copy begins

messenger == <<reader, pos, size, out>>
client == <<copying, at>>
vars == <<block, client, messenger, fault, clean, alone>>

\* Slip: the terminator comes one cell late.
HoldsOneMore(m) == [c \in Cells |-> IF c <= Length[m] + 1 THEN m ELSE NULL]

Holds(m) == [c \in Cells |-> IF c <= Length[m] THEN m ELSE NULL]

Empty == \A c \in Cells : block[c] = NULL

(* The messenger has started: shmget gave zeroes, and it put its title.    *)
Init ==
  /\ block = Holds(Title)
  /\ copying = [w \in Writers |-> NULL]
  /\ at = [w \in Writers |-> 1]
  /\ reader = "top" /\ pos = 1 /\ size = 0 /\ out = <<>>
  /\ fault = "none"
  /\ clean = FALSE /\ alone = NULL
-----------------------------------------------------------------------------
(* send_handler after a successful send, recv_handler for a SEND packet.   *)
StartCopy(w, m) ==
  /\ fault = "none" /\ copying[w] = NULL
  /\ copying' = [copying EXCEPT ![w] = m]
  /\ at' = [at EXCEPT ![w] = 1]
  /\ clean' = /\ reader = "top"
              /\ \A v \in Writers : copying[v] = NULL
              /\ w = "send" => Empty
  /\ alone' = NULL
  /\ UNCHANGED <<block, messenger, fault>>

(* shmem_attach returned NULL, which nobody tests: strncpy writes to NULL. *)
AttachFails(w) ==
  /\ fault = "none" /\ copying[w] # NULL /\ at[w] = 1
  /\ fault' = "client"
  /\ UNCHANGED <<block, client, messenger, clean, alone>>

\* Slip: the receiver does not clear what follows the message.
NoPadding(w) == Length[copying[w]]

(* strncpy(block, msg, strlen(msg)) writes no terminator; with BLOCK_SIZE  *)
(* it clears the rest of the block.                                        *)
LastCell(w) == IF w = "send" THEN Length[copying[w]] ELSE BlockSize

CopyCell(w) ==
  /\ fault = "none" /\ copying[w] # NULL
  /\ block' = [block EXCEPT ![at[w]] = Holds(copying[w])[at[w]]]
  /\ at' = [at EXCEPT ![w] = IF at[w] = LastCell(w) THEN 1 ELSE at[w] + 1]
  /\ \/ /\ at[w] = LastCell(w)
        /\ copying' = [copying EXCEPT ![w] = NULL]
        /\ alone' = IF clean THEN copying[w] ELSE NULL
     \/ at[w] # LastCell(w) /\ UNCHANGED <<copying, alone>>
  /\ UNCHANGED <<messenger, fault, clean>>
-----------------------------------------------------------------------------
Goto(from, to) == fault = "none" /\ reader = from /\ reader' = to

(* if ( strlen(block) ): its first cell.                                   *)
Look ==
  /\ block[1] # NULL /\ Goto("top", "print")
  /\ pos' = 1 /\ out' = <<>>
  /\ clean' = FALSE
  /\ UNCHANGED <<block, client, size, fault, alone>>

(* shmem_attach failed in the messenger: it leaves the loop, and clears    *)
(* the block it does not have.                                             *)
LoopEnds ==
  /\ fault = "none" /\ reader = "top"
  /\ fault' = "messenger"
  /\ UNCHANGED <<block, client, messenger, clean, alone>>

PrintCell ==
  /\ block[pos] # NULL /\ Goto("print", "print")
  /\ out' = Append(out, block[pos])
  /\ pos' = pos + 1
  /\ UNCHANGED <<block, client, size, fault, clean, alone>>

PrintEnds ==
  /\ block[pos] = NULL /\ Goto("print", "measure")
  /\ pos' = 1
  /\ UNCHANGED <<block, client, size, out, fault, clean, alone>>

(* strlen(block) once more, for memset.                                    *)
Measure ==
  /\ \/ /\ block[pos] # NULL /\ Goto("measure", "measure")
        /\ pos' = pos + 1 /\ UNCHANGED size
     \/ /\ block[pos] = NULL /\ Goto("measure", "erase")
        /\ pos' = 1 /\ size' = pos - 1
  /\ UNCHANGED <<block, client, out, fault, clean, alone>>

\* Slip: the first character is left.
EraseTail == [block EXCEPT ![pos] = IF pos = 1 THEN block[1] ELSE NULL]

EraseOne == [block EXCEPT ![pos] = NULL]

Erase ==
  /\ \/ /\ pos <= size /\ Goto("erase", "erase")
        /\ block' = EraseOne
        /\ pos' = pos + 1
     \/ /\ pos > size /\ Goto("erase", "top")
        /\ pos' = 1 /\ UNCHANGED block
  /\ UNCHANGED <<client, size, out, fault, clean, alone>>

Pass == Look \/ PrintCell \/ PrintEnds \/ Measure \/ Erase

Next ==
  \/ \E w \in Writers :
       (\E m \in Messages : StartCopy(w, m)) \/ AttachFails(w) \/ CopyCell(w)
  \/ Pass
  \/ LoopEnds

(* The messenger's loop runs on; the client need not write.                *)
Spec == Init /\ [][Next]_vars /\ WF_vars(Pass)
-----------------------------------------------------------------------------
(* The shape of every variable: the messenger finds a terminator before    *)
(* the end of the block, whatever the copies it meets are doing.           *)
TypeOK ==
  /\ block \in [Cells -> Messages \cup {Title, NULL}]
  /\ copying \in [Writers -> Messages \cup {NULL}]
  /\ at \in [Writers -> Cells]
  /\ reader \in {"top", "print", "measure", "erase"}
  /\ pos \in Cells /\ size \in 0 .. BlockSize - 1
  /\ out \in Seq(Messages \cup {Title})
  /\ fault \in {"none", "client", "messenger"}
  /\ clean \in BOOLEAN
  /\ alone \in Messages \cup {NULL}

(* A message is printed whole and alone when nothing overlapped its copy   *)
(* and no other has begun since.  One that was received may replace what   *)
(* is in the block; one that was sent needs an empty block, or it is       *)
(* followed by the end of a longer one.                                    *)
WholeWhenAlone ==
  reader = "measure" /\ alone # NULL => out = [c \in 1 .. Length[alone] |-> alone]

(* What is in the block is printed and erased.                             *)
Drained == block[1] # NULL ~> block[1] = NULL \/ fault # "none"
=============================================================================
