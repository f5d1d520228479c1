----------------------------- MODULE ChatServer -----------------------------
(***************************************************************************)
(* The state the chat server keeps for its clients, and the handlers that  *)
(* change it: cpt_app/server/src/server_events.c on top of                 *)
(* cpt_api/src/cpt_server.c, channel.c and user.c.                         *)
(*                                                                         *)
(* One thread runs every handler to completion (cpt_chat_server.c:run), so *)
(* a handler is one action.  What interleaves is the clients: requests of  *)
(* several connections in any order, and peers that hang up at any moment, *)
(* whether or not they said LOGOUT.                                        *)
(*                                                                         *)
(* A user is its id.  A linked list is the sequence of its nodes, head     *)
(* first: push_data and push_node put a node in front, find_node and       *)
(* delete_node act on the first match.                                     *)
(***************************************************************************)
EXTENDS Lists

CONSTANTS
  Fds,          \* descriptors the kernel can give to accepted connections
  IdMod,        \* a user id is a uint8_t: 256 in the build
  ChanMod,      \* a channel id is a uint16_t: 65536 in the build
  DirBase,      \* dir->length after channels_init; it is incremented from
                \* uninitialised memory, which is 0 on the fresh heap: 1
  MaxUsers,     \* bound of the model on the global user list
  MaxChannels   \* bound of the model on the channels alive at once

Root == 0       \* GC_ROOT_USR_ID, the user the server itself puts in the list
GcId == 0       \* GC_ID, the global channel

ASSUME ConstantsAssumption ==
  /\ Fds \subseteq Nat \ {0}
  /\ IsFiniteSet(Fds)
  /\ IdMod \in Nat \ {0}
  /\ ChanMod \in Nat \ {0}
  /\ DirBase \in Nat
  /\ MaxUsers \in Nat
  /\ MaxChannels \in Nat

VARIABLES
  status,    \* "up", or how the process stopped serving
  open,      \* descriptors in poll_fds besides the listening socket
  hung,      \* those among them whose peer is gone, end-of-file not yet read
  gc,        \* info->gc->users: user ids
  chans,     \* info->dir without its last node, which is the global channel
  res,       \* info->res between handlers: "unset" (malloc gave it, nothing
             \* wrote it), "null" or "freed"
  sent       \* what the last handler wrote: response code, channel, the
             \* client it ran for and the descriptors it wrote to

VARIABLES    \* history: read by properties only
  loggedIn,  \* connections whose login was answered with LOGIN
  orphans,   \* leftovers: users still listed whose connection was closed
             \* without a LOGOUT
  told,      \* channels each connection was told it is in
  clash      \* two channels alive at once have had the same id

conns == <<open, hung>>
lists == <<gc, chans>>
history == <<loggedIn, orphans, told, clash>>
vars == <<status, conns, lists, res, sent, history>>

UserId(fd) == fd % IdMod              \* user->id = (uint8_t) id
DirLength == DirBase + Len(chans)     \* dir->length
ChanIds == 0 .. (DirBase + MaxChannels)   \* every id a request may carry here

(* The directory as find_channel and send_event walk it: the node of the   *)
(* global channel is the first one pushed, so the last, and shares its     *)
(* user list with info->gc.                                                *)
dir == Append(chans, [id |-> GcId, users |-> gc])

IsFirst(i, c) ==
  /\ dir[i].id = c
  /\ \A j \in 1 .. (i - 1) : dir[j].id # c

NoChannel(c) == \A i \in DOMAIN dir : dir[i].id # c

\* Slip: the head goes, whoever it is.
DeleteHead(list, id) == IF Contains(list, id) THEN Tail(list) ELSE list

UserDelete(list, id) == RemoveFirst(list, id)

(* find_user on the list of the i-th channel of the directory. *)
Member(i, f) == Contains(dir[i].users, f)

Packet(code, fd, c, to) == [code |-> code, by |-> fd, chan |-> c, to |-> to]
Nothing(fd) == Packet("none", fd, GcId, {})

(* tcp_server_send ends the process when send() fails: at once on a        *)
(* descriptor that is closed, possibly on one whose peer has hung up.      *)
Write(dests) ==
  \/ dests \subseteq open /\ status' = "up"
  \/ ~ (dests \subseteq open \ hung) /\ status' = "exit"

Answer(code, fd, c) ==
  /\ Write({fd})
  /\ sent' = Packet(code, fd, c, {fd})

(* The process follows a NULL pointer, or memory that is not its own.      *)
Fault(fd) ==
  /\ status' = "fault"
  /\ sent' = Nothing(fd)
  /\ UNCHANGED <<conns, lists, res, history>>

(* handle_event destroys the request behind each handler and goes on       *)
(* comparing its command.  Behind every handler but the last, JOIN's, the  *)
(* freed bytes may pass for another command: a second handler runs on them *)
(* and the request is freed once more.                                     *)
Reread(fd) == Fault(fd)

(* close() and poll_fds[i].fd = -1: the descriptor can be accepted again.  *)
\* Slip: the hang-up stays pending on the closed entry.
CloseKeepsEvent(f) ==
  /\ open' = open \ {f}
  /\ hung' = hung
  /\ loggedIn' = loggedIn \ {f}
  /\ told' = [told EXCEPT ![f] = {}]

Close(f) ==
  /\ open' = open \ {f}
  /\ hung' = hung \ {f}
  /\ loggedIn' = loggedIn \ {f}
  /\ told' = [told EXCEPT ![f] = {}]

Init ==
  /\ status = "up"
  /\ open = {}
  /\ hung = {}
  /\ gc = <<Root>>
  /\ chans = <<>>
  /\ res \in {"unset", "null"}
  /\ sent = Nothing(0)
  /\ loggedIn = {}
  /\ orphans = {}
  /\ told = [f \in Fds |-> {}]
  /\ clash = FALSE

-----------------------------------------------------------------------------
\* Slip: a user whose name was refused is pushed all the same.
AdmitAll(f, fits) == Cons(UserId(f), gc)

Admit(f, fits) == IF fits THEN Cons(UserId(f), gc) ELSE gc

(* login_event: accept, read one packet, take it for a LOGIN whatever its  *)
(* command says.  The name is refused when it is longer than MAX_NAME_SIZE *)
(* (fits = FALSE); the connection is polled all the same.  The peer may    *)
(* have hung up before the answer is written (gone).  A first packet of    *)
(* more than MD_BUFF_SIZE bytes is received beyond the end of req_buf.     *)
Login(fits, gone) ==
  /\ status = "up"
  /\ open # Fds
  /\ Len(gc) < MaxUsers
  /\ LET f == Min(Fds \ open)
     IN  \/ Fault(f)
         \/ /\ open' = open \cup {f}
            /\ hung' = IF gone THEN hung \cup {f} ELSE hung
            /\ status' \in IF gone THEN {"up", "exit"} ELSE {"up"}
            /\ sent' = Packet(IF fits THEN "LOGIN" ELSE "FAILURE", f, GcId, {f})
            /\ gc' = Admit(f, fits)
            /\ loggedIn' = IF fits THEN loggedIn \cup {f} ELSE loggedIn
            /\ told' = [told EXCEPT ![f] = {}]
            /\ UNCHANGED <<chans, res, orphans, clash>>

\* Slip: the id answered is the one of the next channel.
NextChannelId(length) == length % ChanMod

AnsweredId(length) == (length - 1) % ChanMod

(* cpt_create_channel_response.  parse_channel_query finds no id in any    *)
(* MSG field, so filter_channel_users returns NULL and the new channel     *)
(* holds the requesting user only.  Its id is dir->length.                 *)
NewChannel(f) == [id |-> DirLength % ChanMod, users |-> <<f>>]

(* create_channel_event.  create_user_node copies the requester's entry of *)
(* the global channel, from NULL when there is none.  The answer computes  *)
(* the id again, from the longer directory.                                *)
CreateChannel(f) ==
  /\ status = "up" /\ f \in open
  /\ Len(chans) < MaxChannels
  /\ \/ Reread(f)
     \/ /\ ~ Contains(gc, f)
        /\ Fault(f)
     \/ /\ Contains(gc, f)
        /\ chans' = Cons(NewChannel(f), chans)
        /\ LET ncid == AnsweredId(DirLength')
           IN  /\ Answer("CREATE_CHANNEL", f, ncid)
               /\ told' = [told EXCEPT ![f] = @ \cup {ncid}]
        /\ clash' = (clash \/ ~ NoChannel(NewChannel(f).id))
        /\ UNCHANGED <<conns, gc, res, loggedIn, orphans>>

(* cpt_join_channel_response: a member is answered with success again;     *)
(* anybody else must be in the global channel, whose entry is copied.      *)
JoinRefused(f, c) ==
  \A i \in DOMAIN dir : IsFirst(i, c) => ~ Member(i, f) /\ ~ Contains(gc, f)

(* join_channel_event frees the text of a refusal before it serialises the *)
(* answer, which is then read from freed memory.                           *)
JoinChannel(f, c) ==
  /\ status = "up" /\ f \in open
  /\ \/ \E i \in DOMAIN dir :
          /\ IsFirst(i, c)
          /\ \/ Member(i, f) /\ UNCHANGED chans
             \/ /\ ~ Member(i, f)
                /\ Contains(gc, f)
                /\ chans' = [chans EXCEPT ![i].users = Cons(f, @)]
          /\ Answer("JOIN_CHANNEL", f, c)
          /\ told' = [told EXCEPT ![f] = @ \cup {c}]
     \/ /\ JoinRefused(f, c)
        /\ Answer("FAILURE", f, c)
        /\ UNCHANGED <<chans, told>>
     \/ JoinRefused(f, c) /\ Fault(f)
  /\ UNCHANGED <<conns, gc, res, loggedIn, orphans, clash>>

\* Slip: the channel goes when one member is left.
ShrinkEarly(i, rest) ==
  IF Len(rest) <= 1 THEN RemoveAt(chans, i) ELSE [chans EXCEPT ![i].users = rest]

Shrink(i, rest) ==
  IF rest = <<>> THEN RemoveAt(chans, i) ELSE [chans EXCEPT ![i].users = rest]

(* leave_channel_event: the channel is deleted, by its id, when its list   *)
(* is left empty.                                                          *)
LeaveChannel(f, c) ==
  /\ status = "up" /\ f \in open
  /\ \/ Reread(f)
     \/ /\ c = GcId \/ NoChannel(c)
        /\ Answer("FAILURE", f, c)
        /\ UNCHANGED <<conns, lists, res, history>>
     \/ \E i \in DOMAIN chans :
          /\ c # GcId
          /\ IsFirst(i, c)
          /\ LET users == chans[i].users
                 rest == UserDelete(users, f)
             IN  \/ /\ DeleteFaults(users, f)
                    /\ Fault(f)
                 \/ /\ ~ DeleteFaults(users, f) /\ ~ Contains(users, f)
                    /\ Answer("FAILURE", f, c)
                    /\ UNCHANGED <<conns, lists, res, history>>
                 \/ /\ Contains(users, f)
                    /\ chans' = Shrink(i, rest)
                    /\ Answer("LEAVE_CHANNEL", f, c)
                    /\ told' = [told EXCEPT ![f] = @ \ {c}]
                    /\ UNCHANGED <<conns, gc, res, loggedIn, orphans, clash>>

(* The increasing enumerations of a set of indices: there is one.          *)
Enumerations(K) ==
  {e \in [1 .. Cardinality(K) -> K] :
     /\ \A a, b \in DOMAIN e : a < b => e[a] < e[b]
     /\ Range(e) = K}

(* The loop of cpt_logout_response visits every channel but those with the *)
(* id of the global channel, deletes the user from its list and, when the  *)
(* list is then empty, deletes the FIRST channel that has the visited      *)
(* channel's id.  Visiting n channels of one id whose lists end up empty   *)
(* so removes the first n channels of that id, whoever is in them.         *)
\* Slip: the walk starts behind the head of the directory.
UsersAfterButHead(i, f) ==
  IF i = 1 \/ chans[i].id = GcId THEN chans[i].users ELSE UserDelete(chans[i].users, f)

UsersAfter(i, f) ==
  IF chans[i].id = GcId THEN chans[i].users ELSE UserDelete(chans[i].users, f)

Emptied(f) == {i \in DOMAIN chans : chans[i].id # GcId /\ UsersAfter(i, f) = <<>>}

\* Slip: channels are emptied and never deleted.
KeepAll(f) == DOMAIN chans

Kept(f) ==
  {i \in DOMAIN chans :
     Cardinality({j \in 1 .. i : chans[j].id = chans[i].id})
       > Cardinality({j \in Emptied(f) : chans[j].id = chans[i].id})}

LogoutFaults(f) ==
  \/ DeleteFaults(gc, f)
  \/ \E i \in DOMAIN chans : chans[i].id # GcId /\ DeleteFaults(chans[i].users, f)

(* LOGOUT: logout_event, then close_connections; no answer is written.     *)
Logout(f) ==
  /\ status = "up" /\ f \in open
  /\ \/ LogoutFaults(f) /\ Fault(f)
     \/ /\ ~ LogoutFaults(f)
        /\ \E e \in Enumerations(Kept(f)) :
             chans' = [k \in DOMAIN e |->
                         [id |-> chans[e[k]].id, users |-> UsersAfter(e[k], f)]]
        /\ gc' = UserDelete(gc, f)
        /\ sent' = Nothing(f)
        /\ Close(f)
        /\ orphans' = orphans \cap Range(gc')
        /\ UNCHANGED <<status, res, clash>>

(* channel_to_string reads the head of an empty list through NULL.         *)
ListingFaults(i) == dir[i].users = <<>>

(* get_users_event: info->res is freed and not cleared.                    *)
GetUsers(f, c) ==
  /\ status = "up" /\ f \in open
  /\ \/ Reread(f)
     \/ \E i \in DOMAIN dir :
          /\ IsFirst(i, c)
          /\ \/ ListingFaults(i) /\ Fault(f)
             \/ /\ ~ ListingFaults(i)
                /\ Answer("GET_USERS", f, c)
                /\ res' = "freed"
                /\ UNCHANGED <<conns, lists, history>>
     \/ /\ NoChannel(c)
        /\ Answer("FAILURE", f, c)
        /\ res' = "freed"
        /\ UNCHANGED <<conns, lists, history>>

(* send_event: the message goes to every member of the channel but the     *)
(* root user and the sender, who need not be a member.  info->res is       *)
(* destroyed on every path, also when no response was built and it points  *)
(* nowhere, or to what an earlier SEND or GET_USERS has destroyed: freeing *)
(* that aborts, or frees what now lives there.                             *)
\* Slip: the root user of the global channel is written to.
RecipientsAndRoot(i, f) == Range(dir[i].users) \ {f}
\* Slip: the last node is not visited, as in for_each.
RecipientsButLast(i, f) == Range(Front(dir[i].users)) \ {Root, f}

Recipients(i, f) == Range(dir[i].users) \ {Root, f}

DestroyEnds == [null |-> {"up"}, unset |-> {"up", "fault"}, freed |-> {"up", "refreed"}]

Send(f, c) ==
  /\ status = "up" /\ f \in open
  /\ \/ Reread(f)
     \/ \E i \in DOMAIN dir :
          /\ IsFirst(i, c)
          /\ dir[i].users # <<>>
          /\ Write(Recipients(i, f))
          /\ sent' = Packet("SEND", f, c, Recipients(i, f))
          /\ res' = "freed"
     \/ /\ \A i \in DOMAIN dir : IsFirst(i, c) => dir[i].users = <<>>
        /\ status' \in DestroyEnds[res]
        /\ sent' = Nothing(f)
        /\ UNCHANGED res
  /\ UNCHANGED <<conns, lists, history>>

(* The peer closes its socket or dies; requests it sent before may still   *)
(* be handled.                                                             *)
HangUp(f) ==
  /\ status = "up" /\ f \in open \ hung
  /\ hung' = hung \cup {f}
  /\ sent' = Nothing(f)
  /\ UNCHANGED <<status, open, lists, res, history>>

(* recv returns 0 or fails: the descriptor is closed, the lists are not    *)
(* touched.                                                                *)
Drop(f) ==
  /\ status = "up" /\ f \in hung
  /\ Close(f)
  /\ orphans' = orphans \cup {UserId(g) : g \in loggedIn \cap {f}}
  /\ sent' = Nothing(f)
  /\ UNCHANGED <<status, lists, res, clash>>

(* poll times out or fails, or an event comes without POLLIN: the loop     *)
(* ends and cpt_server_info_destroy destroys the list of the global        *)
(* channel twice.                                                          *)
EndLoop ==
  /\ status = "up"
  /\ status' \in {"ended", "fault"}
  /\ sent' = Nothing(0)
  /\ UNCHANGED <<conns, lists, res, history>>

Next ==
  \/ \E fits, gone \in BOOLEAN : Login(fits, gone)
  \/ \E f \in Fds :
       \/ CreateChannel(f)
       \/ Logout(f)
       \/ HangUp(f)
       \/ Drop(f)
       \/ \E c \in ChanIds :
            JoinChannel(f, c) \/ LeaveChannel(f, c) \/ GetUsers(f, c) \/ Send(f, c)
  \/ EndLoop

Spec == Init /\ [][Next]_vars
-----------------------------------------------------------------------------
Statuses == {"up", "exit", "fault", "refreed", "ended"}
Codes == {"none", "LOGIN", "CREATE_CHANNEL", "JOIN_CHANNEL", "LEAVE_CHANNEL",
          "GET_USERS", "SEND", "FAILURE"}
Channel == [id : Nat, users : Seq(Nat)]

(* The shape of every variable. *)
TypeOK ==
  /\ status \in Statuses
  /\ open \subseteq Fds
  /\ hung \subseteq open
  /\ gc \in Seq(Nat)
  /\ chans \in Seq(Channel)
  /\ res \in {"unset", "null", "freed"}
  /\ sent \in [code : Codes, by : Nat, chan : Nat, to : SUBSET Nat]
  /\ loggedIn \subseteq open
  /\ orphans \subseteq Nat
  /\ told \in [Fds -> SUBSET Nat]
  /\ clash \in BOOLEAN

(* Every descriptor is its own user id and every channel id is new to 16   *)
(* bits: what the casts in user_init and cpt_create_channel_response need. *)
IdsFit ==
  /\ \A f \in Fds : f < IdMod
  /\ DirBase > 0
  /\ DirBase + MaxChannels <= ChanMod

(* A connection that logged in stays in the global channel until its own   *)
(* LOGOUT, whatever other clients ask for and whoever hangs up.            *)
SessionsRegistered == \A f \in loggedIn : Contains(gc, UserId(f))

(* The global list is exactly the root user, last, the connections logged  *)
(* in, and leftovers of connections closed without LOGOUT, which stay in   *)
(* it; only such a leftover is ever listed more than once.                 *)
GlobalListExact ==
  /\ gc # <<>> /\ Last(gc) = Root
  /\ orphans \subseteq Range(gc)
  /\ \A i \in 1 .. (Len(gc) - 1) : gc[i] \in (loggedIn \cup orphans) \ {Root}
  /\ \A i, j \in DOMAIN gc : i # j /\ gc[i] = gc[j] => gc[i] \in orphans

(* A user is in a channel once: LEAVE and LOGOUT delete one entry only.    *)
NoDuplicateMembers == \A i \in DOMAIN chans : IsInjective(chans[i].users)

(* Every channel is a subset of the global channel, without the root user, *)
(* and nobody is in it twice: no handler removes a user from the global    *)
(* list and leaves it in another.                                          *)
ChannelsWithinGlobal ==
  /\ NoDuplicateMembers
  /\ \A i \in DOMAIN chans : Range(chans[i].users) \subseteq Range(gc) \ {Root}

(* As long as channel ids have not clashed, a channel goes with its last   *)
(* member, through LEAVE_CHANNEL or LOGOUT.                                *)
NoEmptyChannel == ~ clash => \A i \in DOMAIN chans : chans[i].users # <<>>

(* The channels user x is in. *)
Rooms(x) == {chans[i].id : i \in {j \in DOMAIN chans : Contains(chans[j].users, x)}}

(* As long as channel ids have not clashed, a client that does not share   *)
(* its id with a leftover is in the channels the answers said it is in.    *)
ClientView ==
  ~ clash => \A f \in loggedIn \ orphans : Rooms(f) = told[f] \ {GcId}

(* As long as channel ids have not clashed, a request changes the          *)
(* memberships of the client that sent it and of nobody else.              *)
OthersKept ==
  [][~ clash' => \A x \in Fds \ {sent'.by} : Rooms(x)' = Rooms(x)]_vars

(* send_event reaches the clients that were told they are in the channel,  *)
(* all of them, and never its sender.                                      *)
DeliveryMatchesAnswers ==
  ~ clash => \A s \in open, i \in DOMAIN dir, f \in loggedIn \ orphans :
               f \in Recipients(i, s) <=> f # s /\ dir[i].id \in told[f] \cup {GcId}

(* tcp_server_send ends the process only over a peer that hung up, or over *)
(* the leftover of one that did: every other id in a list is an open       *)
(* descriptor.                                                             *)
ExitOnlyAfterHangUp ==
  [][status' = "exit" => \E d \in sent'.to : d \in hung' \/ d \in orphans \ open]_vars

-----------------------------------------------------------------------------
(* What the documents say and the code does not do.                        *)

(* Chat Protocol v2.0 section 4.2.4: a channel id is a unique identifier.  *)
UniqueChannelIds == \A i, j \in DOMAIN dir : i # j => dir[i].id # dir[j].id

(* cpt_packet_builder.h:144, destroying a response frees it and sets all   *)
(* pointers to it to NULL: none is ever destroyed a second time.  The copy *)
(* in info->res stays, and a later SEND to nobody destroys it again.       *)
ResponseFreedOnce == status # "refreed"
=============================================================================
