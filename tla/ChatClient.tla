----------------------------- MODULE ChatClient -----------------------------
(***************************************************************************)
(* The two threads of a client: send_thread prompts and sends, recv_thread *)
(* reads packets (interface/cli/src/cli_dc.c, interface/src/handlers.c,    *)
(* cpt_api/src/cpt_client.c).  They share is_receiving, mutex and          *)
(* receiving.  The server is a peer that handles the first request of what *)
(* it reads, and may send a chat message or close at any moment.           *)
(***************************************************************************)
EXTENDS Integers, SequencesExt

CONSTANTS
  ChanIds,      \* channel ids of the server
  HeapBytes,    \* what the byte behind an empty malloc block may be
  MaxUnderWay   \* bound of the model on requests and packets not read, when one is added

ASSUME ConstantsAssumption ==
  /\ \A id \in ChanIds : id \in Nat /\ 0 < id /\ id < 65536
  /\ \A byte \in HeapBytes : byte \in Nat /\ byte < 256
  /\ MaxUnderWay \in Nat

VARIABLES
  sender,       \* where send_thread is: "waits" in pthread_cond_wait, "woken" on its way out
  receiver,     \* where recv_thread is
  mutex,        \* who holds it
  isReceiving,
  line,         \* the line read at the prompt
  loggedIn,     \* ustate->LOGGED_IN
  channel,      \* ustate->channel, shown in the prompt
  hasMsg,       \* ustate->client_info->packet->msg is not NULL
  batch,        \* what the last recv returned
  status        \* of the process: "running", "fault", "killed", "exited"

VARIABLES
  toServer, toClient,  \* the two directions of the connection, packet by packet
  peer                 \* "up", or "gone" when the server closed

VARIABLES
  told,      \* history: the channel of the last answer the server wrote, until early
  early      \* history: a message was taken for the answer to a command

threads == <<sender, receiver, mutex>>
user == <<line, loggedIn, channel, hasMsg, status>>
stream == <<toServer, toClient, peer>>
vars == <<threads, isReceiving, user, batch, stream, told, early>>

Line(cmd, id) == [cmd |-> cmd, id |-> id]

(* What parse_cmd_input tells apart.  "createAlone" and "joinAlone" come   *)
(* without an argument; any line that is not a command is text, "longText" *)
(* when it and its label are longer than msg_buf.                          *)
Texts == {"text", "longText"}

Lines ==
  {Line(cmd, 0) : cmd \in {"getUsers", "createAlone", "create", "joinAlone",
                           "leave", "createVoice", "logout", "menu"} \cup Texts}
  \cup {Line("join", id) : id \in ChanIds}

(* Lines in which it looks in vain for the end: the input ends without a   *)
(* newline, or a quote is opened behind a blank and not closed.            *)
Unended == {Line("endOfInput", 0), Line("unbalanced", 0)}

Answered == {"getUsers", "create", "join", "leave"}

NoLine == Line("none", 0)    \* ustate->cmd is NULL

Packet(code, id) == [code |-> code, id |-> id]

UnderWay == Len(toServer) + Len(toClient)

Init ==
  /\ sender = "prompt" /\ receiver = "top" /\ mutex = "free"
  /\ isReceiving = FALSE
  /\ line = NoLine
  /\ loggedIn = TRUE
  /\ channel = 0
  /\ hasMsg = TRUE      \* the LOGIN packet
  /\ batch = <<>>
  /\ status = "running"
  /\ toServer = <<>> /\ toClient = <<>>
  /\ peer = "up"
  /\ told = 0 /\ early = FALSE
-----------------------------------------------------------------------------
(* The prompt and its line, which only this thread sees, then the mutex.   *)
Prompt ==
  /\ sender = "prompt"
  /\ UnderWay < MaxUnderWay
  /\ mutex = "free" /\ mutex' = "sender"
  /\ line' \in Lines
  /\ sender' = "locked"
  /\ UNCHANGED <<receiver, isReceiving, loggedIn, channel, hasMsg, batch, status, stream,
                 told, early>>

(* Before the mutex, the copy ends at NULL less where it began.            *)
Unparsable ==
  /\ sender = "prompt"
  /\ line' \in Unended
  /\ status' = "fault"
  /\ UNCHANGED <<threads, isReceiving, loggedIn, channel, hasMsg, batch, stream, told, early>>

(* tcp_client_send: after the server closed, bytes go nowhere or raise     *)
(* SIGPIPE.                                                                *)
Transmit(request) ==
  \/ peer = "up" /\ toServer' = Append(toServer, request) /\ UNCHANGED status
  \/ peer = "gone" /\ status' \in {"running", "killed"} /\ UNCHANGED toServer

(* What a command needs that may be NULL: an argument, or the message that *)
(* serialize takes the length of.                                          *)
Faults(cmd) ==
  \/ cmd \in {"createAlone", "joinAlone"}
  \/ cmd = "logout" /\ ~ hasMsg

(* cpt_leave_channel has no packet for the global channel.                 *)
Sends(cmd) == cmd # "menu" /\ ~ (cmd = "leave" /\ channel = 0)

\* Slip: cmd_handler clears is_receiving for LEAVE_CHANNEL as for LOGOUT.
AwaitsLess(cmd) == cmd \notin {"menu", "logout", "leave"}

Awaits(cmd) == cmd \notin {"menu", "logout"}

(* A command: cmd_handler, and what is_receiving is after it.              *)
Command ==
  /\ sender = "locked"
  /\ line.cmd \notin Texts
  /\ \/ /\ Faults(line.cmd)
        /\ status' = "fault"
        /\ UNCHANGED <<sender, isReceiving, loggedIn, hasMsg, toServer>>
     \/ /\ ~ Faults(line.cmd)
        /\ sender' = "test"
        /\ isReceiving' = Awaits(line.cmd)
        /\ loggedIn' = (line.cmd # "logout")
        /\ hasMsg' = IF Sends(line.cmd) THEN line.cmd \notin {"join", "logout"} ELSE hasMsg
        /\ IF Sends(line.cmd) THEN Transmit(line) ELSE UNCHANGED <<toServer, status>>
  /\ UNCHANGED <<receiver, mutex, line, channel, batch, toClient, peer, told, early>>

(* Any other line: send_handler, without waiting.  A long one is copied    *)
(* over what lies behind msg_buf, which may end the process.               *)
Text ==
  /\ sender = "locked"
  /\ line.cmd \in Texts
  /\ \/ /\ line.cmd = "longText"
        /\ status' = "fault"
        /\ UNCHANGED <<sender, mutex, line, hasMsg, toServer>>
     \/ /\ Transmit(Line("text", 0))
        /\ hasMsg' = TRUE
        /\ mutex' = "free"
        /\ sender' = "prompt"
        /\ line' = NoLine
  /\ UNCHANGED <<receiver, isReceiving, loggedIn, channel, batch, toClient, peer,
                 told, early>>

(* while (is_receiving) pthread_cond_wait, which gives up the mutex as it  *)
(* goes to sleep.                                                          *)
Test ==
  /\ sender = "test"
  /\ \/ /\ isReceiving
        /\ sender' = "enters"
        /\ UNCHANGED <<mutex, line>>
     \/ /\ ~ isReceiving
        /\ mutex' = "free"
        /\ line' = NoLine
        /\ sender' = IF loggedIn THEN "prompt" ELSE "done"
  /\ UNCHANGED <<receiver, isReceiving, loggedIn, channel, hasMsg, batch, status, stream,
                 told, early>>

Wait ==
  /\ sender = "enters"
  /\ mutex' = "free"
  /\ sender' = "waits"
  /\ UNCHANGED <<receiver, isReceiving, user, batch, stream, told, early>>

(* pthread_cond_wait may return without a signal. *)
Spurious ==
  /\ sender = "waits"
  /\ sender' = "woken"
  /\ UNCHANGED <<receiver, mutex, isReceiving, user, batch, stream, told, early>>

Reacquire ==
  /\ sender = "woken"
  /\ mutex = "free"
  /\ mutex' = "sender"
  /\ sender' = "test"
  /\ UNCHANGED <<receiver, isReceiving, user, batch, stream, told, early>>
-----------------------------------------------------------------------------
\* Slip: the receive thread does not look at LOGGED_IN again.
AlwaysContinues == TRUE

Continues == loggedIn

Top ==
  /\ receiver = "top"
  /\ receiver' = IF Continues THEN "recv" ELSE "done"
  /\ UNCHANGED <<sender, mutex, isReceiving, user, batch, stream, told, early>>

(* recv does not block: it takes what has arrived, or nothing.             *)
Recv ==
  /\ receiver = "recv"
  /\ \/ \E n \in 1 .. Len(toClient) :
          /\ batch' = SubSeq(toClient, 1, n)
          /\ toClient' = SubSeq(toClient, n + 1, Len(toClient))
          /\ receiver' = "lock"
     \/ toClient = <<>> /\ receiver' = "top" /\ UNCHANGED <<batch, toClient>>
  /\ UNCHANGED <<sender, mutex, isReceiving, user, toServer, peer, told, early>>

\* Slip: the id is read as the two bytes it was.
ReadIdWhole(id) == {id}

(* A channel id is sent as a string of its two bytes, low byte first, and  *)
(* read as one byte: an empty string leaves what is on the heap.           *)
ReadId(id) == IF id % 256 = 0 THEN HeapBytes ELSE {id % 256}

Shown(packet) ==
  CASE packet.code \in {"create", "join"} -> ReadId(packet.id)
    [] packet.code = "leave" -> {0}
    [] OTHER -> {channel}

GetsAnswer(request) == request.cmd \in Answered

IsAnswer(packet) == packet.code # "message"

(* Where an answer to the user is on its way: requests that get one, and   *)
(* answers not handled.                                                    *)
Owed ==
  ({"toServer"} \X {i \in DOMAIN toServer : GetsAnswer(toServer[i])})
  \cup ({"toClient"} \X {i \in DOMAIN toClient : IsAnswer(toClient[i])})
  \cup ({"batch"} \X {i \in DOMAIN batch : IsAnswer(batch[i])})

\* Slip: the thread does not signal after a message.
SignalsAnswer(packet) == IF IsAnswer(packet) THEN "signal" ELSE "top"

AfterPacket(packet) == "signal"

\* Slip: the thread does not take the mutex.
LockNothing == TRUE

CanLock == mutex = "free"

(* cpt_parse_response reads the first packet, recv_handler handles it; the *)
(* others that recv returned are not looked at.  All under the mutex.      *)
Handle ==
  /\ receiver = "lock"
  /\ CanLock
  /\ channel' \in Shown(Head(batch))
  /\ isReceiving' = FALSE
  /\ early' = (early \/ (~ IsAnswer(Head(batch)) /\ Owed # {}))
  /\ batch' = <<>>
  /\ told' = IF early' THEN 0 ELSE told
  /\ receiver' = AfterPacket(Head(batch))
  /\ UNCHANGED <<sender, mutex, line, loggedIn, hasMsg, status, stream>>

Signal ==
  /\ receiver = "signal"
  /\ sender' = IF sender = "waits" THEN "woken" ELSE sender
  /\ receiver' = "top"
  /\ UNCHANGED <<mutex, isReceiving, user, batch, stream, told, early>>

(* Both threads joined, run closes the socket. *)
Exit ==
  /\ sender = "done" /\ receiver = "done"
  /\ status' = "exited"
  /\ UNCHANGED <<threads, isReceiving, line, loggedIn, channel, hasMsg, batch, stream,
                 told, early>>
-----------------------------------------------------------------------------
(* The server reads n requests and handles the first.                      *)
Answers(request) ==
  CASE request.cmd = "getUsers" -> {Packet("getUsers", 0), Packet("failure", 0)}
    [] request.cmd = "create"   -> {Packet("create", id) : id \in ChanIds}
    [] request.cmd = "join"     -> {Packet("join", request.id), Packet("failure", 0)}
    [] request.cmd = "leave"    -> {Packet("leave", 0), Packet("failure", 0)}

Serve ==
  /\ peer = "up"
  /\ \E n \in 1 .. Len(toServer) : toServer' = SubSeq(toServer, n + 1, Len(toServer))
  /\ LET request == Head(toServer)
     IN  \/ /\ request.cmd \in Answered
            /\ \E p \in Answers(request) :
                 /\ toClient' = Append(toClient, p)
                 /\ told' = IF p.code \in {"create", "join", "leave"} /\ ~ early THEN p.id ELSE told
            /\ UNCHANGED peer
         \/ /\ request.cmd \in {"text", "createVoice"}
            /\ UNCHANGED <<toClient, told, peer>>
         \/ /\ request.cmd = "logout"
            /\ peer' = "gone"
            /\ UNCHANGED <<toClient, told>>
  /\ UNCHANGED <<threads, isReceiving, user, batch, early>>

(* Another user sends to a channel this client is in.                      *)
Message ==
  /\ peer = "up"
  /\ UnderWay < MaxUnderWay
  /\ toClient' = Append(toClient, Packet("message", 0))
  /\ UNCHANGED <<threads, isReceiving, user, batch, toServer, peer, told, early>>

(* The server closes or dies; what is in the air may be lost with it.      *)
ServerGone ==
  /\ peer = "up"
  /\ peer' = "gone"
  /\ toServer' = <<>>
  /\ toClient' \in {toClient, <<>>}
  /\ UNCHANGED <<threads, isReceiving, user, batch, told, early>>
-----------------------------------------------------------------------------
SendThread == Command \/ Text \/ Test \/ Wait \/ Reacquire
RecvThread == Top \/ Recv \/ Handle \/ Signal
Running == status = "running"

Next ==
  /\ Running
  /\ \/ Prompt \/ Unparsable \/ SendThread \/ Spurious \/ RecvThread \/ Exit
     \/ Serve \/ Message \/ ServerGone

(* Both threads run; one that wants the mutex is not passed over for ever  *)
(* by the other, which gives it up between any two packets or lines.       *)
Spec ==
  /\ Init /\ [][Next]_vars
  /\ WF_vars(Running /\ SendThread)
  /\ SF_vars(Running /\ Reacquire)
  /\ SF_vars(Running /\ Handle)
  /\ WF_vars(Running /\ RecvThread)
  /\ WF_vars(Running /\ Exit)
-----------------------------------------------------------------------------
Packets ==
  {Packet("create", id) : id \in ChanIds} \cup {Packet("join", id) : id \in ChanIds}
  \cup {Packet(c, 0) : c \in {"getUsers", "leave", "failure", "message"}}

(* The shape of every variable. *)
TypeOK ==
  /\ sender \in {"prompt", "locked", "test", "enters", "waits", "woken", "done"}
  /\ receiver \in {"top", "recv", "lock", "signal", "done"}
  /\ mutex \in {"free", "sender"}
  /\ isReceiving \in BOOLEAN /\ loggedIn \in BOOLEAN /\ hasMsg \in BOOLEAN
  /\ line \in Lines \cup Unended \cup {NoLine}
  /\ channel \in Nat /\ channel < 256
  /\ toServer \in Seq(Lines)
  /\ toClient \in Seq(Packets) /\ batch \in Seq(Packets)
  /\ receiver = "lock" => batch # <<>>
  /\ status \in {"running", "fault", "killed", "exited"}
  /\ peer \in {"up", "gone"}
  /\ told \in ChanIds \cup {0} /\ early \in BOOLEAN

(* recv_thread signals after it gave up the mutex: a send_thread that      *)
(* sleeps although its packet is handled has that signal still to come.    *)
NoLostWakeup == sender = "waits" /\ ~ isReceiving => receiver = "signal"

(* Until a message arrives between a command and its answer, the prompt    *)
(* keeps step: one answer at most is due, and the prompt waits for it; and *)
(* the channel it shows is the one the server's last answer gave, as far   *)
(* as one byte can tell.                                                   *)
PromptInStep ==
  ~ early =>
    /\ \A x, y \in Owed : x = y
    /\ Owed # {} => isReceiving /\ sender # "prompt"
    /\ Owed = {} /\ peer = "up" /\ (told = 0 \/ told % 256 # 0) => channel = told % 256

(* A packet from the server, whatever it is, brings the prompt back.       *)
PromptReturns ==
  isReceiving /\ toClient # <<>>
    ~> (~ isReceiving /\ sender \in {"prompt", "done"}) \/ peer = "gone"

(* After LOGOUT both threads end and the process exits.                    *)
LogoutEnds == ~ loggedIn ~> ~ Running
=============================================================================
