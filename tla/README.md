# A TLA+ development of the CPT chat server

This directory specifies the chat system of this repository in TLA+, model-checks
the specifications with TLC and proves theorems about them with TLAPS. It covers
the server's event loop, its request handlers with the state they share, the
linked list below them, the client's threads, the packets between the two, the
sockets they travel on, the messenger's shared block and the voice threads.

## 1. Inventory

Three executables: `cpt_chat_server`, `cpt_chat_client` and `cpt_messenger`.
Clients talk to the server in CPT packets over TCP (Protocol v2.0). The server
runs one event loop next to four voice threads; a client runs two threads and
shares a memory block with the messenger.

| Component | State it keeps | Operations | Talks to |
|---|---|---|---|
| Request handlers (`server_events.c`, `cpt_server.c`, `channel.c`, `user.c`, `server_info.c`) | `info->gc->users`, `info->dir`, each channel's users, `info->res`, `info->current_id` | login, logout, create, join, leave, get-users, send | called by the event loop; linked list; `tcp_server_send` |
| Linked list (`linked_list.c`) | head, tail, length, nodes on the heap | create, push_data, push_node, find_node, delete_node, filter, for_each, destroy | called by channels and users |
| Event loop (`cpt_chat_server.c`, `tcp_server.c`) | `poll_fds`, `nfds`, `active_nfds`, `i`, `close_conn`, `compress_array`, `is_fatal_error` | poll, accept, dispatch, close, compress | kernel, handlers |
| Wire format (`cpt_packet_builder.c`, `cpt_serialize.c`, `cpt_parse.c`, `serialize.c`) | none | build, serialise, parse | both ends |
| Client (`cli_dc.c`, `handlers.c`, `command.c`, `user_state.c`, `cpt_client.c`) | `UserState` (LOGGED_IN, channel, cmd), `ClientInfo` (channel, packet), `is_receiving` under `mutex`/`receiving` | prompt and command handlers in one thread, `recv_handler` in another | server, messenger block, voice process |
| Sockets (`tcp_server.c`, `tcp_client.c`, `udp_server.c`, `udp_client.c`) | none of their own: descriptors and address lists of the process | set up, accept, connect, send, recv | kernel; called by server, client, voice threads |
| Voice pool (`server_voice.c`, `voice_task.c`) | `voice_task_queue`, `task_count`, `active_voice_chan` under `mutex`/`cond_queue` | submit, take, execute, toggle | UDP, the directory's channels |
| Messenger (`messenger/`) | one System V shared block | client writes, messenger prints and erases | clients |

What is hard to get right, and where:

* **Handlers.** One thread, so no data race, but the requests of all clients
  interleave and a connection may end at any moment without LOGOUT. Nothing then
  touches the lists, and descriptors, which are the user ids, are given again.
  Correct: who is logged in is registered, channels are subsets of the global
  channel, nobody is twice in a channel, an empty channel ceases to exist, a
  request changes its sender's memberships only, a message reaches exactly the
  members, and the server does not end because of one client.
* **Linked list.** Three ways through `delete_node`. Correct: a walk ends, no
  node is lost or reached after it was freed, `length` is the number of nodes,
  `tail` is the last one, and the result is that of a sequence.
* **Event loop.** One array walked while entries are added, closed and moved;
  blocking calls inside the loop. Correct: every open connection stays polled,
  closed ones leave, every request that is ready is served.
* **Client.** Two threads and a condition variable. Correct: the prompt waits for
  the answer of its own command, and always gets it.
* **Wire format.** The client keeps the packet of its last request and writes the
  next one into it; text has a limit on one side only; ids go out in one byte
  order as numbers, come back in another as text. Correct: what is parsed is what
  was meant.
* **Sockets.** A line of system calls, each of which may fail, and a loop that
  sends. Correct: what is returned is set up, what is not is released, and the
  peer reads what was sent.
* **Voice pool.** A queue under a mutex. Correct: a task is executed by one
  thread at a time, the queue is FIFO and stays inside its array, a submitted
  task is run, a channel in use is not freed.
* **Messenger.** No synchronisation at all. Correct would be: a message is shown
  once and whole; `Messenger` says when it is.

`PROJECT.json` lists each hazard at its line with the properties that watch it.

## 2. Modules

| Module | Models |
|---|---|
| `Lists` | `DeleteFaults`: when `delete_node` follows NULL. Deletion itself is `RemoveFirst`, pushing is `Cons`, finding is `Contains`, all of `SequencesExt` |
| `ListSpec` | the list its callers see: a sequence, one step per call |
| `LinkedList`, `MCLinkedList` | `linked_list.c` on a heap of addresses that `malloc` gives again, one step per node visited |
| `ChatServer`, `MCChatServer` | the handlers and the state they share |
| `EventLoop`, `MCEventLoop` | the loop of `run` over `poll_fds`, with the accept loop of `login_event` |
| `ChatClient`, `MCChatClient` | the two threads of a client and its command handlers, against any server |
| `Wire`, `MCWire` | packets of `cpt_client.c` from the fields to the bytes, and back |
| `Messenger`, `MCMessenger` | the shared block, cell by cell |
| `VoicePool`, `MCVoicePool` | the voice threads, their queue and the server's thread |
| `Sockets`, `MCSockets` | the set-up procedures of `src/networking` and the send and receive loops |
| `ChatServerProofs`, `EventLoopProofs`, `ChatClientProofs`, `LinkedListProofs`, `WireProofs`, `MessengerProofs`, `VoicePoolProofs`, `SocketsProofs` | the theorems about the module of that name |

`Wire` shows the outcome of parsing that `ChatServer` (no id is found in a user
list) and `ChatClient` (`ReadId`) are written with; `LinkedList` implements the
sequence operators of `ChatServer`; `Sockets` has the error of `send` that ends
the process in `ChatServer`, and the split packets that `ChatClient` leaves out.

### ChatServer

`gc` is the list `info->gc->users`, `chans` the directory without its last node
(the global channel was pushed first and is never removed), `res` what
`info->res` points to between handlers, `open` the descriptors in `poll_fds`,
`hung` those whose peer is gone and whose end-of-file was not read yet, `status`
how the process stands, `sent` what the last handler wrote and to whom. `res`
begins as `"null"` or, since `cpt_server_info_init` does not set it, as `"unset"`.
`loggedIn`, `orphans`, `told` and `clash` are history: no guard reads them. An id
is in `orphans` from a hang-up without LOGOUT until no entry of the global list has
it any more.

A handler runs to completion in the only thread that touches this state, so each
is one action: `Login` (`login_event`, with the guard of `cpt_login_response` on
the name), `CreateChannel`, `JoinChannel`, `LeaveChannel`, `Logout`, `GetUsers`,
`Send`. A user node of a channel holds a copy of the user that `create_node` makes,
and is modelled by the id, which is all that is compared. Where the code follows a
NULL or a freed pointer, or writes beyond a buffer, the action has a disjunct that
sets `status` to `"fault"`: `delete_node` on a list of one other user; the listing
of an empty channel; a channel created by a connection that is in no list; a first
packet longer than the buffer of `login_event`; the refusal of a JOIN, whose text
is freed before it is serialised; and `Reread`, the comparisons that `handle_event`
makes on a request after it was freed, where another command may be found in the
bytes and the request freed again. JOIN is compared last, and LOGOUT is not handled
there, so these two have no `Reread`. A second free of `info->res` may go unnoticed
or abort (`DestroyEnds`), so `Send` takes either, and `status` is then
`"refreed"`. `Write` is `tcp_server_send`: `send` to a closed descriptor
fails, to a peer that hung up it may, and a failure ends the process.

`HangUp` is the environment's, `Drop` is the loop reading end-of-file: it closes
the descriptor and touches no list. `EndLoop` gathers the ways the loop ends.
The kernel gives the smallest free descriptor, as POSIX requires.

`cpt_create_channel_response` passes the id list through `filter_channel_users`,
which finds no id in any list and returns NULL, so a new channel has one member;
this outcome is modelled here, the parsing in `Wire` (`parse_channel_query`) and
the search in `LinkedList` (`filter`).

### LinkedList

`next`, `data` and `alive` are the heap, `head`, `tail` and `length` the list.
`find_node` and `delete_node` take a step per node (`FindStart`, `FindStep`,
`DeleteStart`, `DeleteStep`); the pushes are straight-line code and one step
each. `filter` is `FilterStart` and one `FilterStep` per node and pass: `wanted`
are the ids of the query, `passes` its outer loop, `picked` the list it makes. A
pass after the first begins behind the head, so that in a list of one node it
reads NULL. `ImplementsListSpec` maps `list` to the data along the path from the head:
the call's last step is the abstract step and every other one stutters, so the
handlers of `ChatServer`, written on sequences, rest on a checked refinement.

### EventLoop

`fds` is the `fd` of each entry of `poll_fds`, `nfds`, `i`, `compress` and `fatal`
are the globals of those names. `ready` holds the `revents` that a pass reads;
its domain is the entries poll was given, `active_nfds` of them, so entries that
`login_event` appends during the pass are not looked at. `revents` are not moved
by `compress_fds`, but no pass reads them before the next `poll` has written all
of them, so they are forgotten when a pass ends. `newfd` is the connection
`login_event` waits for. `backlog`, `open`, `unread` and `eof` are the kernel's.

The loop is cut where other parties can interfere or where it branches: `Poll`,
one action per entry (`Skip`, `Unexpected`, `Listening`, `Serve`), one per
accepted connection (`Accept`, then `Login`, which waits in a blocking `recv`),
one per entry of `compress_fds`. `Unexpected` is the `break` at an event without
POLLIN; it still compresses before `is_fatal_error` ends the loop. `Serve` takes
all unread packets, since one `recv` does, and handles the first: what came behind it is
lost. `served` is history and counts the reads of each connection in a pass. What the
handler does to the lists is `ChatServer`'s; here it may end the process.

### ChatClient

`sender` and `receiver` are where `send_thread` and `recv_thread` are, `mutex` and
`isReceiving` the globals they share, `channel` and `loggedIn` of `UserState`,
`hasMsg` whether `client_info->packet->msg` is not NULL. `Prompt` is the prompt,
its line and taking the mutex (the line is seen by this thread only); `Command` is
`cmd_handler` with every handler it calls; `Test` and `Wait` are the loop around
`pthread_cond_wait`, apart because what comes between a test and the sleep is the
hazard; `Reacquire` leaves the wait, after `Signal` or a `Spurious` wake-up. The
section of `recv_thread` under the mutex is one step, `Handle`, as nobody sees
inside; the signal follows it without the mutex. `Faults` gathers where a command
follows a NULL: an argument that is missing, or a message that is. `Unparsable` is
a line whose parsing copies up to NULL, before the mutex is taken: the end of the
input, or a quotation mark without a second one. `Text` sends what is typed to
channel 0; a long line (`"longText"`) overruns the buffer in which it is labelled,
and faults or is sent all the same.

The connection is two sequences of packets, and `recv` on either side returns any
number of them of which the first is handled; packets are taken to arrive whole.
The server is a peer that answers as `server_events.c` does, drops what lies
behind the first request of a read, sends messages of others at any time, and may
close. A channel id is a string of two bytes that the client reads one byte of:
`ReadId`. `told` and `early` are history. Writing to the shared block belongs to
`Messenger`, and the signals to the voice process change nothing here.

### Wire

`req` is `client_info->packet`, `wire` the bytes under way, `got` what
`cpt_parse_request` made of them, `shown` the data of the response the client
parsed; `asked` and `meant` are history, what the client and the server intended.
One request at a time goes through `phase`: how several share a stream is
`ChatClient`'s and `Sockets`'. There is one action per function of `cpt_client.c`
(and `cpt_create_vchannel`): those that make a new packet leave in it what
`malloc` gave (`Garbage`) until each setter ran, `cpt_get_users` and `cpt_logout`
write into the last one. A packet is a sequence of numbers below 256;
`StringField` and `StringAt` are the format letter `s` of `serialize` and `parse`.
The client's `recv` takes at most `MaxStr` bytes, header included, and writes over
the front of `res_buf`, which keeps what earlier answers left (`AfterRecv`). What is
left on the wire is parsed as a response of its own (`"stray"`). A length of exactly
`MaxStr` puts the terminator behind the end of `data_buf` (`Outcomes`): the client
goes on or is in phase `"overrun"`.
`RespondId` is the answer whose data points to a 16 bit integer and is sent as
text: its bytes in memory up to the first zero, `behind` being what follows them.

### Messenger

`block` says of each cell whose character is in it, NULL being the terminator.
`copying` and `at` are the two threads of a client in `strncpy`, `reader`, `pos`
and `size` the messenger in `printf`, `strlen` and `memset`, which go over the
block one after the other. `clean` and `alone` are history. Either side may fail
to attach the block (`AttachFails`, `LoopEnds`); nobody tests the result.

### VoicePool

`queue` is `voice_task_queue` up to `task_count`, `active` the users with
`active_voice_chan`, `pc` and `task` each thread's place in `start_thread` and the
task in its hands, `main` the thread that runs the server and then joins the
others. What happens under the mutex is one step; `Execute` and `Destroy` read
`active` without it, and `Signal` follows `Resubmit` without it. `channels` are
those not freed: `voice_task_destroy` frees the task's channel, and a thread that
finds its channel freed may fault or read on. `Overrun` is a datagram longer than
`voice_buf`, which ends the process or not. Nothing in the build submits a task:
`SubmitNew` and `Toggle` are the server's thread calling `submit_task` and
`toggle_user_vchan`.

### Sockets

A set-up procedure is the sequence of its system calls; a `Step` says what the
descriptor gains by the call and what the code does when it fails, which is
different in each file: return -1, forget the descriptor, ignore the error, end
the process, or use a NULL pointer. `Resolve`, `OpenSocket`, `Configure`, `Fail`
and `Return` carry any procedure out; `sock` is what each descriptor is by now,
`owner` who returned it, `lists` how many address lists are allocated. `talk`,
`left` and `stream` are a connection in use: `SendSome` takes any number of bytes
of the buffer, which the loop offers from its start each time; `Recv` gives the
peer any number of those that came, of which it parses one packet. A send on a
stream whose peer is gone raises SIGPIPE, at either end, and a send on a descriptor
that `connect` failed for does as well. `split` and `misread` are history.

## 3. Runs

| Run | Instance | What it shows |
|---|---|---|
| `chat_server` | 2 descriptors, 2 channels at once, 4 entries in the global list | the properties of section 4; about 1.22 million states |
| `event_loop` | 3 descriptors, an array of 6, 1 connection and 2 packets waiting | polling, order of a pass, progress also when a read brings two requests and loses the second; about 512 000 states |
| `chat_client` | 2 requests or packets under way, ids 258 and 256 | no lost wake-up, the prompt in step with the server, progress; about 915 000 states |
| `linked_list` | 4 addresses, 2 data | heap invariants, termination of walks, refinement of `ListSpec`; about 219 000 states |
| `wire` | 3 characters, texts up to 2, a limit of 8, answers up to 13 characters, 4 ids | requests and answers survive the trip, and which do not; about 236 000 states |
| `messenger` | a message of 1 character, one of 3, a title of 2, a block of 4 cells | when a message is printed whole; that the block is emptied |
| `voice_pool` | 3 threads, 3 tasks, 2 users, 2 channels | exclusion, no lost wake-up, faults, progress; about 117 000 states |
| `sockets` | 3 descriptors, 4 procedures called, 2 packets of 3 bytes | what is returned, what is lost, what is misread; about 809 000 states |
| `unique_channel_ids` | as `chat_server` | two channels get one id (Protocol v2.0, 4.2.4) |
| `response_freed_once` | as `chat_server` | LOGIN, GET_USERS of the global channel, SEND to a channel that does not exist: one response is freed twice (`cpt_packet_builder.h:144`) |
| `listed_users_found` | as `wire` | CREATE_CHANNEL with the text "1" finds no id (`cpt_server.h:75`) |
| `client_connected` | as `sockets` | `connect` fails and `tcp_init_client` returns the descriptor (`tcp_client.h:71`) |

The last four are disagreements between the code and what the repository says of
it; they are listed as findings.

**Bounds.** `MaxUsers` and `MaxChannels` are the only bounds that cut behaviour:
they stop `Login` and `CreateChannel`. Two descriptors are enough for a client,
another client in the same channel, a ghost, and a newcomer on the ghost's
descriptor; four entries hold the root user, two sessions and a ghost. Two
channels at once are enough for an id to be given twice and for a channel to be
deleted before another in the directory. `ChanIds` includes ids no channel has.
Four nodes give a list with a head, a middle, a last node, and an address free to
be re-used; two data give duplicates, and a `filter` for two ids. Channel ids are never truncated in this
instance (`ChanMod` is the build's), nor user ids.

Three connections are what `compress_fds` needs for an entry to be moved past
another and twice in one pass; the array has one entry more than descriptors and
listener fill, which is read when the last entry is shifted. Two packets
wait at a time, a new connection's first one not counted: on two connections, or on
one of them a LOGOUT behind a request, which is lost. The third has something to
read when it hangs up.

In `ChatClient` a request or a message is added only while fewer than two are under
way, in both directions together: enough for a message in front of an answer, an
answer in front of a message, and a command behind a text. Of the ids, 258 is
read as 2 and 256 as whatever is on the heap.

In `Wire` the limit is 8 instead of 512, for a receive with its header of 3 bytes as
for the parser, as both are `MD_BUFF_SIZE`. Requests are shorter, as what is typed is
(`Texts`); user lists are of 5 bytes, which one receive brings whole, of 6, of 8,
which is the parser's limit, of 9 and of 13. The ids have a low byte of 0, a high
byte of 0, both or neither. A digit, a space and a letter are what `strtol` tells apart.
`Messenger` needs a message shorter than another, and one the block just holds.
`VoicePool` has as many threads as tasks, on which `EveryTaskTaken` depends: a
thread may stay in `recv`, and with a task more than threads that one would wait.
Two of its tasks share a channel and two a user, so every outcome of `Destroy` is
there. `Sockets` bounds the procedures called (`MaxCalls`) and the packets sent
(`MaxPackets`), since failures are counted; two packets are what a peer needs to
take the end of one and the beginning of the next for a packet.

`VIEW Unsent` leaves `sent` out of the fingerprint. No action reads it, and the
properties of that run read it only after the step that set it. The runs whose
property looks at it otherwise, or that look for a violation, do without.

**Deadlock** is not checked: a server that ended, faulted or has reached the
bounds may stop, a list that was destroyed does, and so does a client that ended,
a messenger or a pool that faulted, a process that has made its calls, and in
`Wire` a client that wrote behind its buffer.

**Fairness.** `ChatServer` states none: it has only safety properties.
`LinkedList` assumes weak fairness of `Step`, the next iteration of a loop that
has begun, which is what a running thread does; starting a call is never forced.
`EventLoop` assumes weak fairness of `Loop`, the thread's next step, which `poll`,
`recv` and `accept` disable only while they block; and of `Speaks`, that the peer
accepted last sends something or closes. The code does not ensure the second:
`recv` in `login_event` has no timeout, and without it neither `RequestsRead` nor
`HangUpsClosed` holds. `ChatClient` assumes weak fairness of either thread, and
strong fairness of taking the mutex, which the other thread gives up between any
two packets; nothing of the user, the server or other clients. `Messenger` assumes
weak fairness of `Pass`, the messenger's loop, and nothing of those that write.
`VoicePool` assumes weak fairness of each thread's own steps and of the server's
signal after a submission, and none of datagrams, silence or toggling. `Wire` and
`Sockets` state none. Peers need not send, close or connect otherwise.

## 4. Properties

Of the server: `SessionsRegistered` (who is logged in stays in the global list),
`GlobalListExact` (that list is the root user, the sessions and leftovers of
connections that hung up, only leftovers repeat, and each is listed for as long as
it counts as one), `ChannelsWithinGlobal` (and
nobody is in a channel twice), `ExitOnlyAfterHangUp`. As long as no channel id was given
twice: `NoEmptyChannel`, `ClientView` (a client is where the answers said it
is), `OthersKept` (a request moves its sender only), `DeliveryMatchesAnswers`
(messages reach those who were told they are members, and only them). The last
four are conditional on `~ clash` because `unique_channel_ids` shows that ids
are given twice, after which `find_channel` reaches one of the two channels.

Of the loop: `PolledOnce` and `PollsOpenOnly` (the array and the set of open
connections agree, in the middle of a compression and when poll is called; `nfds`,
which is never compared with the array's size, stays below it as long as the
process has fewer descriptors), `PassComplete` (a pass reads from
everyone poll reported exactly once, and from nobody twice), `RequestsRead` and `HangUpsClosed` (every client's turn
comes, whatever the others do).

Of the client: `NoLostWakeup`; `PromptInStep` (until a message
of somebody else is taken for the answer to a command, at most one answer is due,
the prompt waits for it, and shows the channel the server gave); `PromptReturns`
(any packet brings the prompt back); `LogoutEnds`. The condition `~ early` names the
weakness of `is_receiving`: it is cleared by any packet, so a message can end the
wait of a command, and an answer behind a message in the same `recv` is dropped.

Of the list: `WellFormed` (what the head reaches is allocated, acyclic, as long as
`length` says and ends in `tail`), `LostOnlyWhenRefused`, `CallsReturn` and
`ImplementsListSpec`.

Of the packets: `RequestArrives` (also through a packet of an earlier request) and
`AnswerArrives` (of a text what one receive brings, 509 bytes, and nothing of an
earlier answer; an id when it is between 1 and 255).

Of the messenger: `WholeWhenAlone` names all that has to be absent for a message
to be shown whole, the padding of the receiver's `strncpy` against the sender's
included; `Drained`.

Of the pool: `OnePlace` (a task is in one entry or in one hand, and not freed),
`NoLostWakeup` (as many threads look at the queue, or are being woken, as tasks
are in it while any thread sleeps), `FaultNeedsSharing` (only a channel of two
tasks is used after it was freed), `EveryTaskTaken`.

Of the sockets: `ReadyWhenReturned` (whatever failed, a returned descriptor has all
that its header promises, `Promised`, as far as the code reports a failure,
`Reported`: it does not report a `connect` that failed in `tcp_init_client`), `LeaksCounted` (one
descriptor and one address list at most per call that failed),
`MisreadNeedsSplit` (a peer loses the packet boundary only after the kernel took
or gave part of a packet).

Four properties state what a document of the repository says and the code does not
do, and have runs of their own in which TLC finds them violated: `UniqueChannelIds`,
`ResponseFreedOnce` (the double free; a SEND that found its channel, in place of
GET_USERS, leads to it as well), `ListedUsersFound` and `ClientConnected`.

Behaviours that the models have, because the code has them, and the properties do
not forbid:

* `delete_node` on a list of one other node, or on an empty one, follows NULL
  (`linked_list.c:266`), where `linked_list.h:152` promises the result 0. So a LOGOUT
  while another user is alone in a channel ends the server. `ListSpec` has the fault
  in the same places (`DeleteFaults`), and the refinement is proved with it.
* `@create-channel` without a list, which `cpt_client.h:58` allows, ends the client:
  the length of a NULL message is taken (`Faults` of `ChatClient`).
* The client takes one byte of a channel id (`handlers.c:210`): 258 arrives as 2, and
  an id whose low byte is 0 not at all. `AnswerArrives` is about ids from 1 to 255,
  `ReadId` of `ChatClient` about all.
* A LOGOUT of a client on a re-used descriptor leaves the leftover's entry behind; a
  message to a member whose connection is gone ends the server; a LOGOUT received
  together with the request before it is dropped.

Each property of a passing run has a mutant in `PROJECT.json`: an operator marked "Slip" in the modules,
put in the place of the definition it follows, which breaks the property.

## 5. Proofs

Every safety property that a passing run checks, the invariants and the action
properties, and the refinement of `ListSpec`, are theorems: they hold for every
value of the constants that the modules' assumptions admit. What the theorems
assume beyond those is said below. Each component has an inductive invariant;
the properties alone are seldom inductive. A proof module depends on its component
and the library only; the few lemmas on sequences that two of them need are stated
in both.

### ChatServer (`ChatServerProofs`)

| Theorem | States | Assumes |
|---|---|---|
| `Typing` | `TypeOK` | |
| `Registration` | `SessionsRegistered`, `GlobalListExact`, `ChannelsWithinGlobal` | `IdsFit` |
| `View` | `NoEmptyChannel`, `ClientView`, `DeliveryMatchesAnswers` | `IdsFit` |
| `Isolation` | `OthersKept` | `IdsFit` |
| `ExitCause` | `ExitOnlyAfterHangUp` | `IdsFit` |
| `ClashCause` | `UniqueUntilGap`: what an id given twice comes from | `IdsFit` |
| `GrowingDirectory` | that no id is given twice if no channel is deleted | `IdsFit` |

`IdsFit` says that descriptors are below `IdMod` and channel ids below `ChanMod`,
and that the directory's length did not start at 0. It is what the casts of
`user_init` and `cpt_create_channel_response` need, and an assumption of the
theorems rather than of the module, since the code does not ensure it.

The inductive invariant `Registered` is `TypeOK`, `SessionsRegistered`,
`GlobalListExact` and `ChannelsSound`. The last is the strengthening: no channel
but the global one has id 0, each is within the global list without the root
user, and is injective. Without the id the walk of LOGOUT, which skips id 0,
could leave its user behind in a channel; without injectivity, deleting one entry
from a channel would not remove the user from it, and the subset would be lost
when the global entry goes. `GlobalListExact` is needed for `SessionsRegistered`:
that a session is listed once is what lets another user's deletion pass by it. It
also says that every id in `orphans` is still in the list.

`View` and `Isolation` add `ClearInv`: while no id was given twice, the ids in the
directory are distinct, no channel is empty, and the rooms of a session, `Rooms`,
are those it was told. Distinct ids make the channel that `find_channel` returns
the only one of that id, so that a change of one channel is a change of one
room; without them JOIN could enter the first of two channels and LEAVE be
about the second. That a channel is deleted with its last member is the lemma
about `RemoveAt` on the directory. `DeliveryMatchesAnswers` follows from the two
invariants without another step, as `Recipients` reads what they are about.

`ExitCause` follows from `Registered` and the disjuncts of `Write`: a recipient
is in a channel, so in the global list, so an open descriptor or a leftover.

`ClashCause` and `GrowingDirectory` are about the finding `unique_channel_ids`.
CREATE numbers a channel by the length of the directory. `Dense` says that the
channels have the numbers from `DirBase` on, the youngest the highest: then they are
distinct, CREATE keeps them so and gives a new one, and only a step that deletes
a channel ends it (`UniqueUntilGap`). No id is given twice before a channel was
deleted, so in a history without deletions, which `GrowingDirectory` is about, the
four properties above hold without their condition.

### LinkedList (`LinkedListProofs`)

`Typing` (`TypeOK`), `ChainKept` (`WellFormed`), `NoNodeLost`
(`LostOnlyWhenRefused`) and `Refinement` (`ImplementsListSpec`), for every number
of addresses and every set of data.

`path` is the recursive `PathFrom`. The proofs never unfold it along the list:
`Chain` says of a sequence, by its positions, that it begins at the head, that
`next` leads from each node to the following one and from the last to NULL, and
that no node is twice in it. Such a sequence is what `PathFrom` of its head gives
(`ChainIsPath`, by the least position at which the two would differ). `ListInv` is that `path` is a
chain of allocated nodes that hold data, counted by `length`, with `tail` the last
node from two nodes on. `CallInv` says where a call stands: `find_node` and
`delete_node` on a node with no match before it, `filter` on a node before which
each wanted id was picked, once. Each code path of a push or of `delete_node` is a
lemma of its own: the chain it leaves is `Cons` or `RemoveAt` of the old one,
`RemoveAt` at the first match is `RemoveFirst`, and this is the step of `ListSpec`.

`CallsShorten` is the safety half of `CallsReturn`: `StepsLeft`, the passes a call
has to make times the list, less the place its walk has reached, is a natural
number, at most `(|data| + 1) * (|addresses| + 1)`, and every step of a call makes
it smaller. What the liveness property adds is that the thread runs.

### EventLoop (`EventLoopProofs`)

`Polling` (`TypeOK`, `PolledOnce`, which bounds `nfds`, and `PollsOpenOnly`) and
`WholePass` (`PassComplete`), for every set of descriptors and every array with
more entries than descriptors and listener. The inductive invariant says which
entries there are: each is the listener, closed or an accepted connection, no
descriptor is in two, every accepted one is in some, and an entry is closed only
behind the place a pass has reached, or from the place `compress_fds` has reached
on. The listener being in entry 0, connections are accepted before anything is
closed in a pass: whenever an entry is appended all others are distinct open
descriptors, of which there is one less than `Fds` and the listener, and so there
is room. `ReadBehind` adds, for `WholePass`, that entries behind the pass that
were ready were read from once, and `UnreadAhead` that nobody in the entries ahead
was read from yet, so that nobody's turn comes twice; `login_event` appends behind all of them.

`PassesEnd` is the safety half of `RequestsRead` and `HangUpsClosed`: from one call of
`poll` to the next the loop makes at most four steps per descriptor and five more,
whoever connects, sends or hangs up meanwhile. `StepsToPoll` counts them, and
each step lowers it. Nothing is closed while connections are accepted, so the free
descriptors, `Free`, bound the accept loop even if the backlog is never empty.
What remains for TLC is the blocking `recv` of `login_event` and the scheduler.

### ChatClient (`ChatClientProofs`)

`Wakeup` (`NoLostWakeup`), `Typing` (`TypeOK`) and `InStepWithServer`
(`PromptInStep`), for every set of ids and bound. For the wake-up the invariant adds
that the mutex is held from the prompt's line to the sleep, and that
`is_receiving` is set on the way from the test to the sleep: without the mutex
there, `Handle` could clear it in between and its signal would find nobody.

For `PromptInStep` it adds that a prompt or a line just read means nothing is
awaited, so that a command finds nothing owed; that any packet on its way which
gives a channel gives the one the server told last, so that the answer the client
still has to read is the right one; and that without such a packet the prompt
shows that channel. All three are conditional on `~ early`.

### Wire (`WireProofs`)

`Arrival`: `TypeOK`, `RequestArrives` and `AnswerArrives`, for every set of
characters, ids, texts and rosters. `Wire` assumes `RostersFit`: the text of a user
list fits the buffer of 1024 bytes that `channel_to_string` fills without
comparing; with it the length of every answer fits its 16-bit field. The invariant
`WireInv` says which bytes are on the wire in each phase (those of `asked`, or of
`meant`), that a kept request has version 2.0, and that the client's buffer is zero
behind what a receive can fill. The lemmas below it are about the
code's conversions: `Packed` (a word in two bytes comes back), `FieldRead` (a text
behind anything is read up to the limit), `CStringFacts` (what `strlen` counts) and
`IdData` (the first byte of an id in memory). `AnswerArrives` is proved for every
`MaxStr`: of an answer longer than a receive, its first `MaxStr - HEADER` bytes of
text arrive, and behind them the zeros the buffer begins with.

`QueryFindsNothing` is what the finding `listed_users_found` comes from:
`parse_channel_query` returns 0 for every text, since the two places it compares
are the same after every number.

### Messenger (`MessengerProofs`)

`Typing` (`TypeOK`) and `Whole` (`WholeWhenAlone`), for blocks and messages of any
length. That the last cell is never written gives `print` and `measure` their end.
`CleanCopy` (what an undisturbed `strncpy` has written so far, and that the rest is
empty for the sender, whose `strncpy` stops at the text) and `PassOver` (how far the
messenger has come over that message) are the invariant of `WholeWhenAlone`.

`PassesEnd` is the safety half of `Drained`: a pass that found a character ends
after three times over the block at most (`PassLeft`, which falls with each of its
steps), and it empties the first cell on its way, whatever the client writes
meanwhile. Its invariant, `FirstStands`, is that no copy puts a terminator into the
first cell, so that the second `strlen` is at least 1 and `memset` reaches that cell.

### VoicePool (`VoicePoolProofs`)

`TasksInOnePlace`: `TypeOK`, `OnePlace` and `FaultNeedsSharing`; `WakeupsArrive`:
`NoLostWakeup`; for every number of threads, tasks and channels, with a queue of
at least as many entries as there are tasks. `OnePlace` bounds the queue: without duplicates it is no
longer than `Tasks`. The invariant adds where a thread holds a task, that a task not
yet submitted was not destroyed, and that a channel is freed with a task of its
own. `NoLostWakeup` compares two numbers, so its proof counts: each step that puts
a task into the queue adds a signal to come, and each that takes a thread from
those awake takes a task out as well. `FaultNeedsSharing` speaks of the pool's own
frees: the directory may free a channel too, and is not composed with it.

### Sockets (`SocketsProofs`)

`Typing` (`TypeOK`), `SetUp` (`ReadyWhenReturned`, `LeaksCounted`) and `MisreadCause`
(`MisreadNeedsSplit`), for every set of descriptors and packet size. The invariant
of the set-up says that the steps to come are the end of the procedure's list,
that the descriptor in hand belongs to nobody and has what the steps behind it
report, and how many descriptors and address lists are lost, counting the call
in progress. That of the transfer says that, until the kernel splits a packet,
`stream` is a number of whole packets; a position in it is `PacketSize * a + b`.

### What is only model-checked

* Liveness: `RequestsRead`, `HangUpsClosed`, `PromptReturns`, `LogoutEnds`,
  `CallsReturn`, `Drained`, `EveryTaskTaken`. Liveness under fairness needs
  ENABLED, which the prover does not treat. Of four of them the part that needs
  no fairness is proved, a number of steps that each step lowers: `CallsShorten`,
  and `PassesEnd` of the event loop and of the messenger.
* The four findings, which are counterexamples (`ClashCause` proves what the first
  one comes from, `QueryFindsNothing` what `listed_users_found` does).

Induction over data is not used as a rule: the library's theorems for it cannot be
instantiated with the provers at hand. Where a recursive function has to be
followed (`PathFrom`, `FlattenSeq`, the loop of `parse_channel_query`), its
defining equation is proved, and then the least counterexample is refuted.

## 6. Plan

1. Instances of `ChatServer` with small `IdMod` and `ChanMod`, with the properties
   that survive ids being shared.
2. `ChatClient` composed with `ChatServer`: that the answers assumed of the server
   are those it gives.

## 7. Not modelled

* The answer to a voice channel request: `cpt_create_vchannel_response` is called
  by nothing and `mic_drop.c` is not compiled. Recording and playing copy bytes
  between pipes of other programs and a socket.
* `CptMsgSubPacket`, `cpt_to_string`, `cpt_serialize_msg`, `udp_get_remote_info`,
  `udp_server_recvfrom`, `udp_client_sendto`, `build_msg`, `for_each`: nothing
  that is built calls them.
* Option parsing and settings (`application_framework.c`): no state of the
  system's own, and the login test on memory that was never set comes before any
  thread exists.
* `set_user_vchan` and `get_user_vchan`, one array element under the mutex; a
  `pthread_create` or a `malloc` that fails.
* The tear-down after the server's loop (`cpt_server_info_destroy`): the process
  has no clients then.
* The curses interface (empty), the sandbox and the drivers in `testing/` (not
  built), and the files of `messenger/` that are commented out.
