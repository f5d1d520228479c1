----------------------------- MODULE EventLoop ------------------------------
(***************************************************************************)
(* The loop of cpt_app/server/src/cpt_chat_server.c:run over poll_fds, with *)
(* the accept loop of login_event inside it.  What a handler does to the   *)
(* lists is ChatServer's; here it matters which connection it runs for,    *)
(* what it leaves unread, and that it may be the end of the process.       *)
(*                                                                         *)
(* recv on a connection blocks, accept on the listening socket does not.   *)
(***************************************************************************)
EXTENDS Integers, FiniteSets, SequencesExt

CONSTANTS
  Fds,         \* descriptors the kernel can give to accepted connections
  Listener,    \* GCFD
  ArraySize,   \* MAX_SERVER_FDS: 2048 in the build
  MaxBacklog,  \* bound of the model on connections waiting for accept
  MaxUnread    \* bound of the model on packets unread, of all connections

ASSUME ConstantsAssumption ==
  /\ Fds \subseteq Nat
  /\ IsFiniteSet(Fds)
  /\ Listener \in Nat \ Fds
  /\ ArraySize \in Nat
  /\ ArraySize > Cardinality(Fds) + 1
  /\ MaxBacklog \in Nat
  /\ MaxUnread \in Nat

Closed == -1     \* what close_connections leaves in an entry

VARIABLES
  pc,         \* where the loop is
  fds,        \* poll_fds[k].fd
  nfds, i,
  ready,      \* revents of the entries poll was given, active_nfds of them, while
              \* a pass reads them: "none", "in" with POLLIN, "other" without
  newfd,      \* the connection login_event is reading from
  compress,   \* compress_array
  fatal       \* is_fatal_error

VARIABLES     \* the kernel's side and the peers'
  backlog,    \* connections that accept would return
  open,       \* accepted connections the process has not closed
  unread,     \* packets of each of them that recv would return
  eof         \* those whose peer has closed or died

VARIABLE served  \* history: how often each connection was read since poll returned

array == <<fds, nfds, i, ready, compress, fatal>>
kernel == <<backlog, open, unread, eof>>
vars == <<pc, array, newfd, kernel, served>>

Index == 0 .. (ArraySize - 1)
Entries == 0 .. (nfds - 1)
Packets == {"request", "logout"}
NoPass == [k \in {} |-> "none"]
NoneServed == [f \in Fds |-> 0]

Init ==
  /\ pc = "poll"
  /\ fds = [k \in Index |-> IF k = 0 THEN Listener ELSE 0]
  /\ nfds = 1 /\ i = 0
  /\ ready = NoPass
  /\ newfd = Listener
  /\ compress = FALSE /\ fatal = FALSE
  /\ backlog = 0
  /\ open = {}
  /\ unread = [f \in Fds |-> <<>>]
  /\ eof = {}
  /\ served = NoneServed

-----------------------------------------------------------------------------
(* What poll may report of a descriptor.  A peer that is gone is reported  *)
(* with POLLIN and perhaps POLLHUP, or with POLLHUP or POLLERR alone.      *)
Events(f) ==
  IF f = Listener THEN (IF backlog > 0 THEN {"in"} ELSE {"none"})
  ELSE IF f \in eof THEN {"in", "other"}
  ELSE IF f \in open /\ unread[f] # <<>> THEN {"in"}
  ELSE {"none"}

Poll ==
  /\ pc = "poll"
  /\ ready' \in [Entries -> {"none", "in", "other"}]
  /\ \A k \in Entries : ready'[k] \in Events(fds[k])
  /\ \E k \in Entries : ready'[k] # "none"
  /\ i' = 0
  /\ pc' = "scan"
  /\ UNCHANGED <<served, fds, nfds, compress, fatal, newfd, kernel>>

(* POLL_TIMEOUT_30M without an event, or poll fails.                       *)
PollEnds ==
  /\ pc = "poll"
  /\ pc' = "ended"
  /\ UNCHANGED <<array, newfd, kernel, served>>

\* Slip: the pass ends with the first connection that is closed.
PassOverAtClose == compress \/ i \notin DOMAIN ready

PassOver == i \notin DOMAIN ready

(* The end of a pass: fatal is tested after the array was compressed.      *)
EndPass ==
  /\ pc = "scan"
  /\ PassOver
  /\ i' = 0 /\ ready' = NoPass /\ served' = NoneServed
  /\ \/ compress /\ compress' = FALSE /\ pc' = "compress"
     \/ ~ compress /\ UNCHANGED compress /\ pc' = "poll"
  /\ UNCHANGED <<fds, nfds, fatal, newfd, kernel>>

Skip ==
  /\ pc = "scan" /\ ~ PassOver
  /\ ready[i] = "none"
  /\ i' = i + 1
  /\ UNCHANGED <<pc, fds, nfds, ready, compress, fatal, newfd, kernel, served>>

(* An event without POLLIN leaves the pass and then the loop.              *)
Unexpected ==
  /\ pc = "scan" /\ ~ PassOver
  /\ ready[i] = "other"
  /\ fatal' = TRUE
  /\ i' = 0 /\ ready' = NoPass /\ served' = NoneServed
  /\ \/ compress /\ compress' = FALSE /\ pc' = "compress"
     \/ ~ compress /\ UNCHANGED compress /\ pc' = "ended"
  /\ UNCHANGED <<fds, nfds, newfd, kernel>>

Listening ==
  /\ pc = "scan" /\ ~ PassOver
  /\ ready[i] = "in" /\ fds[i] = Listener
  /\ pc' = "accept"
  /\ UNCHANGED <<array, newfd, kernel, served>>

\* Slip: the result of accept is not tested.
AcceptUntested == open # Fds

CanAccept == backlog > 0 /\ open # Fds

(* accept, until it fails: nothing waits, or there is no descriptor left.  *)
Accept ==
  /\ pc = "accept"
  /\ CanAccept
  /\ LET f == Min(Fds \ open)
     IN  newfd' = f /\ open' = open \cup {f}
  /\ backlog' = backlog - 1
  /\ pc' = "login"
  /\ UNCHANGED <<array, unread, eof, served>>

AcceptFails ==
  /\ pc = "accept"
  /\ ~ CanAccept
  /\ i' = i + 1
  /\ pc' = "scan"
  /\ UNCHANGED <<fds, nfds, ready, compress, fatal, newfd, kernel, served>>

\* Slip: the new connection goes into the entry behind the listener.
SecondSlot == 1

Slot == nfds

(* login_event: recv blocks until the new peer has sent something or is    *)
(* gone; the connection is polled whether its name was refused or not.     *)
Login ==
  /\ pc = "login"
  /\ unread[newfd] # <<>> \/ newfd \in eof
  /\ unread' = [unread EXCEPT ![newfd] = <<>>]
  /\ fds' = [fds EXCEPT ![Slot] = newfd]
  /\ nfds' = nfds + 1
  /\ pc' \in {"accept", "ended"}   \* the answer may be the end of the process
  /\ newfd' = Listener
  /\ UNCHANGED <<i, ready, compress, fatal, backlog, open, eof, served>>

(* close_connections. *)
CloseEntry(f) ==
  /\ open' = open \ {f}
  /\ eof' = eof \ {f}
  /\ unread' = [unread EXCEPT ![f] = <<>>]
  /\ fds' = [fds EXCEPT ![i] = Closed]
  /\ compress' = TRUE

(* One recv takes every packet there is, the first one is handled.         *)
Serve ==
  /\ pc = "scan" /\ ~ PassOver
  /\ ready[i] = "in" /\ fds[i] # Listener
  /\ LET f == fds[i]
     IN  /\ served' = [served EXCEPT ![f] = @ + 1]
         /\ \/ /\ unread[f] # <<>> /\ Head(unread[f]) = "request"
               /\ unread' = [unread EXCEPT ![f] = <<>>]
               /\ pc' \in {"scan", "ended"}   \* a handler may end the process
               /\ UNCHANGED <<open, eof, fds, compress>>
            \/ /\ unread[f] # <<>> /\ Head(unread[f]) = "logout"
               /\ CloseEntry(f)
               /\ pc' \in {"scan", "ended"}
            \/ /\ unread[f] = <<>> /\ f \in eof
               /\ CloseEntry(f)
               /\ UNCHANGED pc
  /\ i' = i + 1
  /\ UNCHANGED <<nfds, ready, fatal, newfd, backlog>>

\* Slip: the entry moved into i is not looked at again.
NextIndexSkips(moved) == i + 1

NextIndex(moved) == IF moved THEN i ELSE i + 1

\* Slip: only the next entry is moved down.
ShiftOne(k) == IF k = i THEN fds[k + 1] ELSE fds[k]

Shift(k) == IF k \in i .. (nfds - 1) THEN fds[k + 1] ELSE fds[k]

(* compress_fds, one entry at a time.                                      *)
Compress ==
  /\ pc = "compress"
  /\ \/ /\ i < nfds /\ fds[i] = Closed
        /\ fds' = [k \in Index |-> Shift(k)]
        /\ nfds' = nfds - 1
        /\ i' = NextIndex(TRUE)
        /\ UNCHANGED pc
     \/ /\ i < nfds /\ fds[i] # Closed
        /\ i' = NextIndex(FALSE)
        /\ UNCHANGED <<fds, nfds, pc>>
     \/ /\ i >= nfds
        /\ pc' = IF fatal THEN "ended" ELSE "poll"
        /\ UNCHANGED <<fds, nfds, i>>
  /\ UNCHANGED <<ready, compress, fatal, newfd, kernel, served>>

Loop ==
  \/ Poll \/ EndPass \/ Skip \/ Unexpected \/ Listening
  \/ Accept \/ AcceptFails \/ Login \/ Serve \/ Compress
-----------------------------------------------------------------------------
Connect ==
  /\ backlog < MaxBacklog
  /\ backlog' = backlog + 1
  /\ UNCHANGED <<pc, array, newfd, open, unread, eof, served>>

Waiting == UNION {{f} \X DOMAIN unread[f] : f \in Fds}

(* The bound does not stop the first packet of a new connection.           *)
PeerSend(f, p) ==
  /\ f \in open \ eof
  /\ Cardinality(Waiting) < MaxUnread \/ (f = newfd /\ unread[f] = <<>>)
  /\ unread' = [unread EXCEPT ![f] = Append(@, p)]
  /\ UNCHANGED <<pc, array, newfd, backlog, open, eof, served>>

HangUp(f) ==
  /\ f \in open \ eof
  /\ eof' = eof \cup {f}
  /\ UNCHANGED <<pc, array, newfd, backlog, open, unread, served>>

Next ==
  \/ Loop
  \/ PollEnds
  \/ Connect
  \/ \E f \in Fds : HangUp(f) \/ \E p \in Packets : PeerSend(f, p)

(* The peer that was accepted last sends its LOGIN or gives up.            *)
Speaks == pc = "login" /\ \E p \in Packets : PeerSend(newfd, p) \/ HangUp(newfd)

Spec == Init /\ [][Next]_vars /\ WF_vars(Loop)

(* recv in login_event has no timeout: progress of the others needs it.    *)
FairSpec == Spec /\ WF_vars(Speaks)
-----------------------------------------------------------------------------
(* The shape of every variable. *)
TypeOK ==
  /\ pc \in {"poll", "scan", "accept", "login", "compress", "ended"}
  /\ fds \in [Index -> Fds \cup {Listener, Closed, 0}]
  /\ nfds \in Nat \ {0}
  /\ i \in 0 .. ArraySize
  /\ DOMAIN ready \subseteq Index /\ ready \in [DOMAIN ready -> {"none", "in", "other"}]
  /\ newfd \in Fds \cup {Listener}
  /\ compress \in BOOLEAN /\ fatal \in BOOLEAN
  /\ backlog \in 0 .. MaxBacklog
  /\ open \subseteq Fds /\ eof \subseteq open
  /\ unread \in [Fds -> Seq(Packets)]
  /\ served \in [Fds -> Nat]

Accepted == IF pc = "login" THEN open \ {newfd} ELSE open

(* run() never compares nfds with MAX_SERVER_FDS: the array has room as    *)
(* long as there are fewer descriptors than entries.                       *)
ArrayBounded == nfds <= Cardinality(Fds) + 1

(* Every connection the process holds is in one entry of the array, also   *)
(* while entries move, the listener is in the first, and the entries stay  *)
(* within the array.                                                       *)
PolledOnce ==
  /\ ArrayBounded
  /\ fds[0] = Listener
  /\ \A f \in Accepted : \E k \in Entries :
       fds[k] = f /\ \A l \in Entries : fds[l] = f => l = k

(* What the kernel is asked about is open: no entry of a closed connection *)
(* is left when poll is called, and none can be taken for a new one.       *)
PollsOpenOnly == pc = "poll" => {fds[k] : k \in Entries} = open \cup {Listener}

(* A pass that is not cut short reads exactly once from every connection   *)
(* that poll reported, and from no other twice, closings and new           *)
(* connections in the same pass notwithstanding.                           *)
ReadOnce ==
  /\ \A f \in Fds : served[f] \in {0, 1}
  /\ \A k \in DOMAIN ready : ready[k] = "in" /\ fds[k] \in Fds => served[fds[k]] = 1

PassComplete == [][EndPass => ReadOnce]_vars

(* What a client has sent is read, unless the loop ends.                   *)
RequestsRead ==
  \A f \in Fds : (f \in open /\ unread[f] # <<>>) ~> (unread[f] = <<>> \/ pc = "ended")

(* A connection whose peer is gone is closed, unless the loop ends.        *)
HangUpsClosed == \A f \in Fds : f \in eof ~> (f \notin eof \/ pc = "ended")
=============================================================================
