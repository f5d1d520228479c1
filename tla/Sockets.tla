------------------------------ MODULE Sockets ------------------------------
(***************************************************************************)
(* src/networking: the procedures that set a socket up, each a line of     *)
(* system calls that may fail, and the loops that send and receive on one. *)
(* A procedure is the sequence of its steps; what a failing call leads to  *)
(* differs from file to file, and is part of the step.                     *)
(***************************************************************************)
EXTENDS Integers, SequencesExt, FiniteSets

CONSTANTS
  Fds,          \* free descriptors of the process
  PacketSize,   \* bytes of a packet
  MaxCalls, MaxPackets   \* bounds of the model: procedures called, packets sent

ASSUME ConstantsAssumption ==
  /\ Fds \subseteq Nat /\ IsFiniteSet(Fds)
  /\ PacketSize \in Nat \ {0}
  /\ MaxCalls \in Nat /\ MaxPackets \in Nat

(* A system call, what the descriptor gains by it, and what an error does: *)
(* "return" -1, "lose" the descriptor for -1 and go on, "ignore" it, exit  *)
(* the process, or leave a pointer that the next step follows ("fault").   *)
Step(call, gives, onError) == [call |-> call, gives |-> gives, onError |-> onError]

(* getaddrinfo fails with values other than -1, the one that is compared.  *)
tcp_server_addr == Step("getaddrinfo", "stream", "fault")
tcp_listen_socket == Step("socket", "stream", "return")
tcp_server_sock_opt == Step("configure", "reuse", "exit")
set_non_blocking == Step("configure", "nonblocking", "exit")
tcp_server_bind == Step("configure", "bound", "exit")
tcp_server_listen == Step("configure", "listening", "exit")

tcp_server_init ==
  <<tcp_server_addr, tcp_listen_socket, tcp_server_sock_opt, set_non_blocking,
    tcp_server_bind, tcp_server_listen>>

(* NULL is returned for an address that does not resolve, and used.        *)
tcp_client_addr == Step("getaddrinfo", "stream", "fault")
tcp_client_socket == Step("socket", "stream", "ignore")
tcp_client_sock_opt == Step("configure", "reuse", "lose")
tcp_client_connect == Step("configure", "connected", "ignore")

tcp_init_client ==
  <<tcp_client_addr, tcp_client_socket, tcp_client_sock_opt, tcp_client_connect>>

udp_server_addr == Step("getaddrinfo", "datagram", "fault")
udp_server_socket == Step("socket", "datagram", "return")
udp_server_sock_opt == Step("configure", "reuse", "return")
udp_server_bind == Step("configure", "bound", "return")
\* Slip: the result of connect is not looked at.
ConnectUnchecked == Step("configure", "connected", "ignore")

udp_server_connect == Step("configure", "connected", "return")

udp_server_sock_init == <<udp_server_addr, udp_server_socket, udp_server_sock_opt>>
udp_server_sock_s == Append(udp_server_sock_init, udp_server_connect)
udp_server_sock_r == Append(udp_server_sock_init, udp_server_bind)

udp_client_addr == Step("getaddrinfo", "datagram", "return")
udp_client_socket == Step("socket", "datagram", "return")
udp_client_sock_opt == Step("configure", "reuse", "return")
udp_client_connect == Step("configure", "connected", "return")

udp_client_init ==
  <<udp_client_addr, udp_client_socket, udp_client_sock_opt, udp_client_connect>>

Steps ==
  [tcp_server_init |-> tcp_server_init, tcp_init_client |-> tcp_init_client,
   udp_server_sock_init |-> udp_server_sock_init, udp_server_sock_s |-> udp_server_sock_s,
   udp_server_sock_r |-> udp_server_sock_r, udp_client_init |-> udp_client_init]

Procedures == DOMAIN Steps

Packet == [b \in 1 .. PacketSize |-> b]

VARIABLES
  proc, rest,    \* the procedure in progress, its steps to come
  fd,            \* its descriptor, or -1
  sock,          \* what each descriptor is: {} when it is closed
  owner,         \* the procedure that returned it to its caller
  lists,         \* address lists allocated and not freed
  calls, failures,  \* procedures called, and those that returned -1
  status         \* of the process: "running", "exited", "fault", "killed"

VARIABLES
  talk,      \* the connected descriptor that sends, or -1
  left,      \* bytes_left of its send loop
  stream,    \* bytes (stream) on their way to the peer
  sent,      \* packets whose loop has begun
  split,     \* history: a send or a recv was short of a packet
  misread    \* history: the peer took something else for a packet

setup == <<proc, rest, fd, calls, failures>>
table == <<sock, owner, lists>>
transfer == <<talk, left, stream, sent, split, misread>>
vars == <<setup, table, status, transfer>>

NoProc == "none"
Closed == {d \in Fds : sock[d] = {}}

Init ==
  /\ proc = NoProc /\ rest = <<>> /\ fd = -1
  /\ sock = [d \in Fds |-> {}]
  /\ owner = [d \in Fds |-> NoProc]
  /\ lists = 0 /\ calls = 0 /\ failures = 0
  /\ status = "running"
  /\ talk = -1 /\ left = 0 /\ stream = <<>> /\ sent = 0
  /\ split = FALSE /\ misread = FALSE
-----------------------------------------------------------------------------
Call(p) ==
  /\ status = "running" /\ proc = NoProc /\ talk = -1 /\ calls < MaxCalls
  /\ proc' = p /\ rest' = Steps[p] /\ fd' = -1
  /\ calls' = calls + 1
  /\ UNCHANGED <<failures, table, status, transfer>>

Doing(call) == status = "running" /\ rest # <<>> /\ Head(rest).call = call

GoOn == rest' = Tail(rest) /\ UNCHANGED <<proc, calls, failures, status>>

Resolve ==
  /\ Doing("getaddrinfo")
  /\ lists' = lists + 1
  /\ GoOn
  /\ UNCHANGED <<fd, sock, owner, transfer>>

(* socket returns the lowest descriptor that is free.                      *)
OpenSocket ==
  /\ Doing("socket") /\ Closed # {}
  /\ fd' = CHOOSE d \in Closed : \A e \in Closed : d <= e
  /\ sock' = [sock EXCEPT ![fd'] = {Head(rest).gives}]
  /\ GoOn
  /\ UNCHANGED <<owner, lists, transfer>>

\* Slip: the address list is kept.
ListsKept == lists

\* Slip: the address list is freed after every call.
FreedAgain == lists - 1

(* bind and connect free the address list when they succeed.               *)
ListsAfter == IF Head(rest).gives \in {"bound", "connected"} THEN lists - 1 ELSE lists

Configure ==
  /\ Doing("configure") /\ fd # -1
  /\ sock' = [sock EXCEPT ![fd] = @ \cup {Head(rest).gives}]
  /\ lists' = ListsAfter
  /\ GoOn
  /\ UNCHANGED <<fd, owner, transfer>>

(* A call fails.  Only check_fd_err closes the descriptor, and it exits:   *)
(* the other procedures forget theirs, and the address list with it.       *)
Fail ==
  /\ status = "running" /\ rest # <<>>
  /\ LET error == Head(rest).onError
     IN  \/ error = "ignore" /\ GoOn /\ UNCHANGED fd
         \/ error = "lose" /\ fd' = -1 /\ GoOn
         \/ /\ error = "return"
            /\ proc' = NoProc /\ rest' = <<>> /\ fd' = -1
            /\ failures' = failures + 1
            /\ UNCHANGED <<calls, status>>
         \/ error = "exit" /\ status' = "exited" /\ UNCHANGED setup
         \/ error = "fault" /\ status' = "fault" /\ UNCHANGED setup
  /\ UNCHANGED <<table, transfer>>

Return ==
  /\ status = "running" /\ proc # NoProc /\ rest = <<>>
  /\ proc' = NoProc /\ fd' = -1
  /\ owner' = IF fd = -1 THEN owner ELSE [owner EXCEPT ![fd] = proc]
  /\ failures' = IF fd = -1 THEN failures + 1 ELSE failures
  /\ UNCHANGED <<rest, calls, sock, lists, status, transfer>>

(* tcp_server_accept: the connection blocks, whatever the listener does.   *)
Accept(d) ==
  /\ status = "running" /\ proc = NoProc /\ talk = -1
  /\ owner[d] # NoProc /\ "listening" \in sock[d] /\ Closed # {}
  /\ \E new \in Closed :
       /\ \A e \in Closed : new <= e
       /\ sock' = [sock EXCEPT ![new] = {"stream", "connected"}]
       /\ owner' = [owner EXCEPT ![new] = "tcp_server_accept"]
  /\ UNCHANGED <<setup, lists, status, transfer>>
-----------------------------------------------------------------------------
SendStart(d) ==
  /\ status = "running" /\ proc = NoProc /\ left <= 0
  /\ owner[d] # NoProc /\ talk \in {-1, d} /\ sent < MaxPackets
  /\ \/ /\ "connected" \in sock[d]
        /\ talk' = d /\ left' = PacketSize /\ sent' = sent + 1
        /\ UNCHANGED status
     \/ /\ sock[d] = {"stream", "reuse"}   \* connect failed: SIGPIPE
        /\ status' = "killed"
        /\ UNCHANGED <<talk, left, sent>>
  /\ UNCHANGED <<setup, table, stream, split, misread>>

\* Slip: a byte behind the packet is sent with its last one.
OneTooMany(k) == SubSeq(Packet, 1, k) \o (IF k = left THEN <<1>> ELSE <<>>)

(* The k bytes from data on, which does not move with what was sent.       *)
FromStart(k) == SubSeq(Packet, 1, k)

(* The kernel takes k bytes of those it is offered, whose number does not  *)
(* shrink to what is left either.                                          *)
SendSome(k) ==
  /\ status = "running" /\ left > 0
  /\ "datagram" \in sock[talk] => k = PacketSize
  /\ stream' = stream \o FromStart(k)
  /\ left' = left - k
  /\ split' = (split \/ k < PacketSize)
  /\ UNCHANGED <<setup, table, status, talk, sent, misread>>

(* On a connection of the server the error ends the process; elsewhere the *)
(* loop ends, which a caller may see, and a packet may be cut off.  When   *)
(* the peer closed the connection, SIGPIPE ends either end's process.      *)
SendFails ==
  /\ status = "running" /\ left > 0
  /\ \/ "stream" \in sock[talk] /\ status' = "killed" /\ UNCHANGED left
     \/ owner[talk] = "tcp_server_accept" /\ status' = "exited" /\ UNCHANGED left
     \/ owner[talk] # "tcp_server_accept" /\ left' = 0 /\ UNCHANGED status
  /\ UNCHANGED <<setup, table, talk, stream, sent, split, misread>>

(* recv returns what has come, and the peer parses one packet from it.     *)
Recv(k) ==
  /\ k \in 1 .. Len(stream)
  /\ "datagram" \in sock[talk] => k = PacketSize
  /\ stream' = SubSeq(stream, k + 1, Len(stream))
  /\ split' = (split \/ k % PacketSize # 0)
  /\ misread' = (misread \/ k < PacketSize \/ SubSeq(stream, 1, PacketSize) # Packet)
  /\ UNCHANGED <<setup, table, status, talk, left, sent>>

Next ==
  \/ \E p \in Procedures : Call(p)
  \/ Resolve \/ OpenSocket \/ Configure \/ Fail \/ Return
  \/ \E d \in Fds : Accept(d) \/ SendStart(d)
  \/ \E k \in 1 .. PacketSize : SendSome(k)
  \/ SendFails
  \/ \E k \in 1 .. PacketSize * MaxPackets : Recv(k)

Spec == Init /\ [][Next]_vars
-----------------------------------------------------------------------------
(* The shape of every variable. *)
TypeOK ==
  /\ proc \in Procedures \cup {NoProc}
  /\ rest \in Seq(UNION {Range(Steps[p]) : p \in Procedures})
  /\ fd \in Fds \cup {-1}
  /\ sock \in [Fds -> SUBSET {"stream", "datagram", "reuse", "nonblocking",
                              "bound", "listening", "connected"}]
  /\ owner \in [Fds -> Procedures \cup {NoProc, "tcp_server_accept"}]
  /\ lists \in 0 .. MaxCalls
  /\ calls \in 0 .. MaxCalls /\ failures \in 0 .. MaxCalls
  /\ status \in {"running", "exited", "fault", "killed"}
  /\ talk \in Fds \cup {-1} /\ left \in Int
  /\ stream \in Seq(1 .. PacketSize) /\ sent \in 0 .. MaxPackets
  /\ split \in BOOLEAN /\ misread \in BOOLEAN

(* What the headers promise of a returned descriptor.                      *)
Promised(p) ==
  CASE p = "tcp_server_init" -> {"stream", "reuse", "nonblocking", "bound", "listening"}
    [] p = "tcp_server_accept" -> {"stream", "connected"}
    [] p = "tcp_init_client" -> {"stream", "reuse", "connected"}
    [] p = "udp_server_sock_init" -> {"datagram", "reuse"}
    [] p = "udp_server_sock_r" -> {"datagram", "reuse", "bound"}
    [] OTHER -> {"datagram", "reuse", "connected"}

(* The part of the promise whose failure a procedure reports, by -1 or by  *)
(* its end: tcp_init_client does not look at what connect returned.        *)
Reported(p) == IF p = "tcp_init_client" THEN Promised(p) \ {"connected"} ELSE Promised(p)

(* Whatever failed on the way, a descriptor that a procedure returns is    *)
(* open and has what the headers promise, but for the connection of        *)
(* tcp_init_client: that one ClientConnected shows to be missing.          *)
ReadyWhenReturned ==
  \A d \in Fds : owner[d] # NoProc => Reported(owner[d]) \subseteq sock[d]

(* tcp_client.h:71-80 promises a descriptor "for writing to the connected  *)
(* socket", and -1 on failure: what tcp_init_client returned is connected. *)
ClientConnected ==
  \A d \in Fds : owner[d] = "tcp_init_client" => "connected" \in sock[d]

(* A descriptor is lost to the process by a call that returned -1, at most *)
(* one by each, and so is an address list, but for udp_server_sock_init,   *)
(* which frees none: a caller that retries runs out of both.               *)
LeaksCounted ==
  LET taken == Fds \ Closed
      lost == {d \in taken : owner[d] = NoProc}
      kept == {d \in Fds : \/ owner[d] = "udp_server_sock_init"
                           \/ owner[d] = "tcp_init_client" /\ "connected" \notin sock[d]}
  IN  proc = NoProc =>
        /\ Cardinality(lost) <= failures
        /\ lists <= failures + Cardinality(kept)

(* The peer takes something else for a packet only after the kernel split  *)
(* one, in a send, whose loop begins the packet again, or in a recv.       *)
MisreadNeedsSplit == misread => split
=============================================================================
