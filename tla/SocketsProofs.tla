--------------------------- MODULE SocketsProofs ---------------------------
(***************************************************************************)
(* Theorems about Sockets, for any number of descriptors, calls and        *)
(* packets: what a returned descriptor is set up for, how many descriptors *)
(* and address lists failed calls lose, and when the peer can misread.     *)
(***************************************************************************)
EXTENDS Sockets, SequenceTheorems, FiniteSetTheorems, WellFoundedInduction, TLAPS

(* The library's CHOOSE of a least element finds one.                      *)
LEMMA NatSetHasMin ==
  ASSUME NEW I, I \subseteq Nat, I # {}
  PROVE  /\ Min(I) \in I
         /\ \A j \in I : Min(I) <= j
<1> DEFINE R == {ss \in Nat \X Nat : ss[1] < ss[2]}
<1>0. OpToRel(<, Nat) = R
  BY DEF OpToRel
<1>1. IsWellFoundedOn(R, Nat)
  BY <1>0, NatLessThanWellFounded, Zenon
<1>2. PICK m \in I : \A y \in I : ~ (<<y, m>> \in R)
  <2> HIDE DEF R
  <2> QED BY <1>1, WFMin, Zenon
<1>3. \A y \in I : m <= y
  <2> TAKE y \in I
  <2>1. ~ (<<y, m>> \in R)
    BY <1>2
  <2>2. <<y, m>> \in Nat \X Nat
    BY SMT
  <2>3. ~ (y < m)
    BY <2>1, <2>2, Zenon
  <2> QED BY <2>3
<1> QED BY <1>3 DEF Min

Names == {"tcp_server_init", "tcp_init_client", "udp_server_sock_init",
          "udp_server_sock_s", "udp_server_sock_r", "udp_client_init"}

Attributes == {"stream", "datagram", "reuse", "nonblocking", "bound", "listening", "connected"}

Errors == {"return", "lose", "ignore", "exit", "fault"}

FreesList == {"bound", "connected"}

AllSteps == UNION {Range(Steps[p]) : p \in Procedures}

(* A procedure resolves an address, makes a socket, and configures it: what *)
(* it reports the failure of comes from steps that end it or lose the       *)
(* descriptor when they fail, and one step at most frees the address list.  *)
LaidOut(p, s) ==
  /\ s \in Seq([call : {"getaddrinfo", "socket", "configure"}, gives : Attributes,
                onError : Errors])
  /\ Len(s) \in 3 .. 6
  /\ s[1].call = "getaddrinfo" /\ s[1].onError \in {"return", "fault"}
  /\ s[2].call = "socket" /\ s[2].gives \in {"stream", "datagram"}
  /\ s[2].onError \in {"return", "ignore"}
  /\ \A i \in 3 .. Len(s) :
       /\ s[i].call = "configure"
       /\ s[i].onError = "ignore" => s[i].gives \notin Reported(p)
       /\ s[i].onError = "lose" => i = 3 /\ s[i].gives = "reuse"
       /\ \A j \in 3 .. Len(s) :
            s[i].gives \in FreesList /\ s[j].gives \in FreesList => i = j
  /\ \A a \in Reported(p) : \E i \in 2 .. Len(s) : s[i].gives = a

LEMMA ServerLaidOut == LaidOut("tcp_server_init", tcp_server_init)
BY DEF LaidOut, tcp_server_init, tcp_server_addr, tcp_listen_socket, tcp_server_sock_opt,
       set_non_blocking, tcp_server_bind, tcp_server_listen, Step, Reported, Promised, Attributes,
       Errors, FreesList

LEMMA ClientLaidOut == LaidOut("tcp_init_client", tcp_init_client)
BY DEF LaidOut, tcp_init_client, tcp_client_addr, tcp_client_socket, tcp_client_sock_opt,
       tcp_client_connect, Step, Reported, Promised, Attributes, Errors, FreesList

LEMMA AppendFourth ==
  ASSUME NEW a, NEW b, NEW c, NEW d
  PROVE  Append(<<a, b, c>>, d) = <<a, b, c, d>>
<1> DEFINE S == {a, b, c, d}
           s == <<a, b, c>>
           t == <<a, b, c, d>>
<1>1. s \in Seq(S) /\ t \in Seq(S) /\ d \in S /\ Len(s) = 3 /\ Len(t) = 4
  OBVIOUS
<1>2. s[1] = a /\ s[2] = b /\ s[3] = c /\ t[1] = a /\ t[2] = b /\ t[3] = c /\ t[4] = d
  OBVIOUS
<1> HIDE DEF S, s, t
<1>3. /\ Append(s, d) \in Seq(S) /\ Len(Append(s, d)) = Len(s) + 1
      /\ \A i \in 1 .. Len(s) : Append(s, d)[i] = s[i]
      /\ Append(s, d)[Len(s) + 1] = d
  <2>1. s \in Seq(S) /\ d \in S
    BY <1>1
  <2> QED BY ONLY <2>1, AppendProperties
<1>4. \A i \in 1 .. 4 : Append(s, d)[i] = t[i]
  BY <1>1, <1>2, <1>3
<1>5. Append(s, d) = t
  BY <1>1, <1>3, <1>4, SeqEqual
<1> QED BY <1>5 DEF s, t

LEMMA DatagramLaidOut ==
  /\ LaidOut("udp_server_sock_init", udp_server_sock_init)
  /\ LaidOut("udp_server_sock_s", udp_server_sock_s)
  /\ LaidOut("udp_server_sock_r", udp_server_sock_r)
  /\ LaidOut("udp_client_init", udp_client_init)
<1> USE DEF Step, Reported, Promised, Attributes, Errors, FreesList, udp_server_addr,
            udp_server_socket, udp_server_sock_opt, udp_server_connect, udp_server_bind,
            udp_client_addr, udp_client_socket, udp_client_sock_opt, udp_client_connect
<1>1. LaidOut("udp_server_sock_init", udp_server_sock_init)
  BY DEF LaidOut, udp_server_sock_init
<1>2. udp_server_sock_s = <<udp_server_addr, udp_server_socket, udp_server_sock_opt,
                            udp_server_connect>>
  BY ONLY AppendFourth DEF udp_server_sock_s, udp_server_sock_init
<1>3. udp_server_sock_r = <<udp_server_addr, udp_server_socket, udp_server_sock_opt,
                            udp_server_bind>>
  BY ONLY AppendFourth DEF udp_server_sock_r, udp_server_sock_init
<1>4. LaidOut("udp_server_sock_s", udp_server_sock_s)
  BY <1>2 DEF LaidOut
<1>5. LaidOut("udp_server_sock_r", udp_server_sock_r)
  BY <1>3 DEF LaidOut
<1>6. LaidOut("udp_client_init", udp_client_init)
  BY DEF LaidOut, udp_client_init
<1> QED BY <1>1, <1>4, <1>5, <1>6

LEMMA StepsLaidOut ==
  /\ Procedures = Names
  /\ \A p \in Procedures : LaidOut(p, Steps[p])
<1>1. Procedures = Names
  BY DEF Procedures, Steps, Names
<1>2. /\ Steps["tcp_server_init"] = tcp_server_init
      /\ Steps["tcp_init_client"] = tcp_init_client
      /\ Steps["udp_server_sock_init"] = udp_server_sock_init
      /\ Steps["udp_server_sock_s"] = udp_server_sock_s
      /\ Steps["udp_server_sock_r"] = udp_server_sock_r
      /\ Steps["udp_client_init"] = udp_client_init
  BY DEF Steps
<1> QED BY <1>1, <1>2, ServerLaidOut, ClientLaidOut, DatagramLaidOut DEF Names
-----------------------------------------------------------------------------
(* How many steps of the procedure are behind. *)
Done == Len(Steps[proc]) - Len(rest)

Given(i) == Steps[proc][i].gives

SetupShape ==
  /\ proc \in Procedures \cup {NoProc}
  /\ rest \in Seq(AllSteps)
  /\ fd \in Fds \cup {-1}
  /\ sock \in [Fds -> SUBSET Attributes]
  /\ owner \in [Fds -> Procedures \cup {NoProc, "tcp_server_accept"}]
  /\ lists \in Nat /\ calls \in 0 .. MaxCalls /\ failures \in Nat
  /\ status \in {"running", "exited", "fault", "killed"}

(* The steps to come are the last ones of the procedure; a descriptor in   *)
(* hand is nobody else's and has what the steps behind report.             *)
InProgress ==
  /\ proc = NoProc => rest = <<>> /\ fd = -1
  /\ proc # NoProc =>
       /\ Len(rest) <= Len(Steps[proc])
       /\ \A j \in 1 .. Len(rest) : rest[j] = Steps[proc][Done + j]
       /\ fd # -1 =>
            /\ Done >= 2
            /\ owner[fd] = NoProc
            /\ Given(2) \in sock[fd]
            /\ \A i \in 2 .. Done : Given(i) \in Reported(proc) => Given(i) \in sock[fd]
            /\ sock[fd] \subseteq {Given(i) : i \in 2 .. Done}

Lost == {d \in Fds \ Closed : owner[d] = NoProc}

Kept == {d \in Fds : \/ owner[d] = "udp_server_sock_init"
                     \/ owner[d] = "tcp_init_client" /\ "connected" \notin sock[d]}

(* An address list that the procedure in progress may still free. *)
Pending ==
  /\ proc # NoProc /\ Done >= 1
  /\ fd = -1 \/ sock[fd] \cap FreesList = {}

OneIf(p) == IF p THEN 1 ELSE 0

Counted ==
  /\ Cardinality(Lost) <= failures + OneIf(proc # NoProc /\ Done >= 2)
  /\ lists <= failures + Cardinality(Kept) + OneIf(Pending)
  /\ failures + OneIf(proc # NoProc) <= calls
  /\ lists + OneIf(proc # NoProc /\ Done = 0) <= calls
  /\ Pending => lists >= 1

SetupInv == SetupShape /\ InProgress /\ ReadyWhenReturned /\ Counted

(* Every procedure reports something, so what it returned is open.         *)
LEMMA PromiseNotEmpty ==
  \A p \in Procedures \cup {"tcp_server_accept"} : Reported(p) # {} /\ Reported(p) \subseteq Attributes
BY StepsLaidOut DEF Names, Reported, Promised, Attributes

LEMMA NoProcIsNone == NoProc \notin Procedures \cup {"tcp_server_accept"}
BY StepsLaidOut DEF Names, NoProc

LEMMA CountsFinite ==
  /\ IsFiniteSet(Lost) /\ Cardinality(Lost) \in Nat
  /\ IsFiniteSet(Kept) /\ Cardinality(Kept) \in Nat
<1>1. Lost \subseteq Fds /\ Kept \subseteq Fds /\ IsFiniteSet(Fds)
  BY ConstantsAssumption DEF Lost, Kept
<1>2. IsFiniteSet(Lost) /\ IsFiniteSet(Kept)
  BY <1>1, FS_Subset
<1> QED BY <1>2, FS_CardinalityType

LEMMA InitSetup == Init => SetupInv
<1> SUFFICES ASSUME Init PROVE SetupInv
  OBVIOUS
<1>1. SetupShape
  BY ConstantsAssumption DEF Init, SetupShape
<1>2. InProgress /\ ReadyWhenReturned
  BY DEF Init, InProgress, ReadyWhenReturned
<1>3. Lost = {} /\ Cardinality({}) = 0
  BY FS_EmptySet DEF Init, Lost, Closed
<1>4. Counted
  BY <1>3, CountsFinite DEF Init, Counted, Pending, OneIf
<1> QED BY <1>1, <1>2, <1>4 DEF SetupInv

(* The next step, and what remains of the procedure after it.              *)
LEMMA NextStep ==
  ASSUME SetupInv, rest # <<>>
  PROVE  /\ proc \in Procedures /\ LaidOut(proc, Steps[proc])
         /\ Done \in Nat /\ Done + 1 <= Len(Steps[proc]) /\ Len(Steps[proc]) \in 3 .. 6
         /\ Head(rest) = Steps[proc][Done + 1]
         /\ Head(rest).call = "getaddrinfo" <=> Done = 0
         /\ Head(rest).call = "socket" <=> Done = 1
         /\ Head(rest).call = "configure" <=> Done >= 2
         /\ Head(rest).gives \in Attributes
         /\ GoOn => /\ Done' = Done + 1 /\ rest' \in Seq(AllSteps)
                    /\ Len(rest') <= Len(Steps[proc])
                    /\ \A j \in 1 .. Len(rest') : rest'[j] = Steps[proc][Done' + j]
<1>1. /\ proc \in Procedures /\ LaidOut(proc, Steps[proc])
      /\ rest \in Seq(AllSteps) /\ Len(rest) \in Nat \ {0} /\ Len(rest) <= Len(Steps[proc])
      /\ Len(Steps[proc]) \in 3 .. 6
      /\ \A j \in 1 .. Len(rest) : rest[j] = Steps[proc][Done + j]
  <2>1. proc # NoProc /\ proc \in Procedures
    BY DEF SetupInv, SetupShape, InProgress
  <2>2. LaidOut(proc, Steps[proc])
    BY <2>1, StepsLaidOut
  <2>3. Len(Steps[proc]) \in 3 .. 6
    BY <2>2 DEF LaidOut
  <2>4. rest \in Seq(AllSteps) /\ Len(rest) \in Nat \ {0}
    BY DEF SetupInv, SetupShape
  <2> QED BY <2>1, <2>2, <2>3, <2>4 DEF SetupInv, InProgress
<1>2. Done \in Nat /\ Done + 1 <= Len(Steps[proc]) /\ Head(rest) = Steps[proc][Done + 1]
  <2>1. Head(rest) = rest[1] /\ 1 \in 1 .. Len(rest)
    BY <1>1
  <2> QED BY <1>1, <2>1 DEF Done
<1>3. /\ Done = 0 => Head(rest).call = "getaddrinfo"
      /\ Done = 1 => Head(rest).call = "socket"
      /\ Done >= 2 => Head(rest).call = "configure"
  BY <1>1, <1>2 DEF LaidOut
<1>4. Head(rest).gives \in Attributes
  <2>1. Steps[proc] \in Seq([call : {"getaddrinfo", "socket", "configure"},
                            gives : Attributes, onError : Errors])
    BY <1>1 DEF LaidOut
  <2>2. Done + 1 \in 1 .. Len(Steps[proc])
    BY <1>1, <1>2
  <2>3. Steps[proc][Done + 1] \in [call : {"getaddrinfo", "socket", "configure"},
                                  gives : Attributes, onError : Errors]
    BY <2>1, <2>2, ElementOfSeq
  <2> QED BY <1>2, <2>3
<1>5. ASSUME GoOn
      PROVE  /\ Done' = Done + 1 /\ rest' \in Seq(AllSteps)
             /\ Len(rest') <= Len(Steps[proc])
             /\ \A j \in 1 .. Len(rest') : rest'[j] = Steps[proc][Done' + j]
  <2>1. /\ rest' = Tail(rest) /\ proc' = proc
        /\ rest' \in Seq(AllSteps) /\ Len(rest') = Len(rest) - 1
        /\ \A j \in 1 .. Len(rest) - 1 : rest'[j] = rest[j + 1]
    BY <1>1, <1>5 DEF GoOn
  <2>2. Done' = Done + 1
    BY <1>1, <2>1 DEF Done
  <2> QED BY <1>1, <1>2, <2>1, <2>2
<1> QED BY <1>1, <1>2, <1>3, <1>4, <1>5

(* Steps that leave the procedure and the descriptors alone. *)
LEMMA SetupKept ==
  ASSUME SetupInv, UNCHANGED <<setup, table>>,
         status' \in {"running", "exited", "fault", "killed"}
  PROVE  SetupInv'
<1>1. UNCHANGED <<proc, rest, fd, calls, failures, sock, owner, lists>>
  BY DEF setup, table
<1>2. Done' = Done /\ Lost' = Lost /\ Kept' = Kept
  BY <1>1 DEF Done, Lost, Kept, Closed
<1>3. SetupShape' /\ InProgress' /\ ReadyWhenReturned'
  BY <1>1, <1>2 DEF SetupInv, SetupShape, InProgress, ReadyWhenReturned, Given
<1>4. Counted'
  BY <1>1, <1>2 DEF SetupInv, Counted, Pending
<1> QED BY <1>3, <1>4 DEF SetupInv

LEMMA CallSetup ==
  ASSUME SetupInv, NEW p \in Procedures, Call(p)
  PROVE  SetupInv'
<1>1. /\ proc = NoProc /\ proc' = p /\ rest' = Steps[p] /\ fd' = -1
      /\ calls < MaxCalls /\ calls' = calls + 1
      /\ UNCHANGED <<failures, sock, owner, lists, status>>
  BY DEF Call, table
<1>2. p # NoProc /\ LaidOut(p, Steps[p])
  BY NoProcIsNone, StepsLaidOut
<1>3. Steps[p] \in Seq(AllSteps) /\ Len(Steps[p]) \in Nat
  <2>1. /\ Len(Steps[p]) \in Nat /\ DOMAIN Steps[p] = 1 .. Len(Steps[p])
        /\ Steps[p] = [i \in 1 .. Len(Steps[p]) |-> Steps[p][i]]
    BY <1>2 DEF LaidOut
  <2>2. \A i \in 1 .. Len(Steps[p]) : Steps[p][i] \in AllSteps
    BY <2>1 DEF AllSteps, Range
  <2> QED BY <2>1, <2>2
<1>4. SetupShape'
  <2>1. calls' \in 0 .. MaxCalls
    BY <1>1, ConstantsAssumption DEF SetupInv, SetupShape
  <2> QED BY <1>1, <1>3, <2>1 DEF SetupInv, SetupShape
<1>5. Done' = 0 /\ Lost' = Lost /\ Kept' = Kept
  <2>1. Done' = Len(Steps[p]) - Len(Steps[p])
    BY <1>1 DEF Done
  <2> QED BY <1>1, <1>3, <2>1 DEF Lost, Kept, Closed
<1>6. InProgress'
  BY <1>1, <1>2, <1>3, <1>5 DEF InProgress
<1>7. ReadyWhenReturned'
  BY <1>1 DEF SetupInv, ReadyWhenReturned
<1>8. Counted'
  BY <1>1, <1>2, <1>5, CountsFinite DEF SetupInv, SetupShape, Counted, Pending, OneIf
<1> QED BY <1>4, <1>6, <1>7, <1>8 DEF SetupInv

LEMMA ResolveSetup ==
  ASSUME SetupInv, Resolve
  PROVE  SetupInv'
<1>1. /\ rest # <<>> /\ Head(rest).call = "getaddrinfo" /\ lists' = lists + 1 /\ GoOn
      /\ UNCHANGED <<proc, fd, calls, failures, status, sock, owner>>
  BY DEF Resolve, Doing, GoOn
<1>2. /\ proc \in Procedures /\ proc # NoProc /\ Done = 0 /\ Done' = 1
      /\ rest' \in Seq(AllSteps)
      /\ Len(rest') <= Len(Steps[proc])
      /\ \A j \in 1 .. Len(rest') : rest'[j] = Steps[proc][Done' + j]
  BY <1>1, NextStep, NoProcIsNone
<1>3. fd = -1
  BY <1>2 DEF SetupInv, InProgress
<1>4. Lost' = Lost /\ Kept' = Kept
  BY <1>1 DEF Lost, Kept, Closed
<1>5. SetupShape' /\ InProgress' /\ ReadyWhenReturned'
  BY <1>1, <1>2, <1>3 DEF SetupInv, SetupShape, InProgress, ReadyWhenReturned
<1>6. Counted'
  <2>1. Pending' /\ ~ Pending
    BY <1>1, <1>2, <1>3 DEF Pending
  <2>2. Counted /\ failures \in Nat /\ calls \in Nat /\ lists \in Nat
    BY DEF SetupInv, SetupShape
  <2> QED BY ONLY <1>1, <1>2, <1>4, <2>1, <2>2, CountsFinite DEF Counted, OneIf
<1> QED BY <1>5, <1>6 DEF SetupInv

(* A descriptor that nobody returned, closed, becomes one that may be lost. *)
LEMMA OpenSetup ==
  ASSUME SetupInv, OpenSocket
  PROVE  SetupInv'
<1> DEFINE d == fd'
           g == Head(rest).gives
<1>1. /\ rest # <<>> /\ Head(rest).call = "socket" /\ Closed # {} /\ GoOn
      /\ d = CHOOSE c \in Closed : \A e \in Closed : c <= e
      /\ sock' = [sock EXCEPT ![d] = {g}]
      /\ UNCHANGED <<proc, calls, failures, status, owner, lists>>
  BY DEF OpenSocket, Doing, GoOn
<1>2. /\ proc \in Procedures /\ proc # NoProc /\ Done = 1 /\ Done' = 2
      /\ LaidOut(proc, Steps[proc]) /\ Head(rest) = Steps[proc][2]
      /\ rest' \in Seq(AllSteps)
      /\ Len(rest') <= Len(Steps[proc])
      /\ \A j \in 1 .. Len(rest') : rest'[j] = Steps[proc][Done' + j]
  BY <1>1, NextStep, NoProcIsNone
<1>3. g = Given(2) /\ g \in {"stream", "datagram"} /\ Given(2)' = g
  BY <1>1, <1>2 DEF LaidOut, Given
<1>4. d \in Closed
  <2>1. Closed \subseteq Nat
    BY ConstantsAssumption DEF Closed
  <2>2. \E c \in Closed : \A e \in Closed : c <= e
    BY <1>1, <2>1, NatSetHasMin
  <2> QED BY <1>1, <2>2
<1>5. d \in Fds /\ d # -1 /\ sock[d] = {} /\ owner[d] = NoProc /\ fd = -1
  <2>1. d \in Fds /\ sock[d] = {}
    BY <1>4 DEF Closed
  <2>2. owner[d] = NoProc
    <3>1. owner[d] \in Procedures \cup {NoProc, "tcp_server_accept"}
      BY <2>1 DEF SetupInv, SetupShape
    <3>2. owner[d] # NoProc => Reported(owner[d]) \subseteq {}
      BY <2>1 DEF SetupInv, ReadyWhenReturned
    <3> QED BY <3>1, <3>2, PromiseNotEmpty
  <2> QED BY <1>2, <2>1, <2>2, ConstantsAssumption DEF SetupInv, InProgress
<1>6. sock'[d] = {g} /\ \A e \in Fds \ {d} : sock'[e] = sock[e]
  BY <1>1, <1>5 DEF SetupInv, SetupShape
<1>7. SetupShape'
  BY <1>1, <1>2, <1>3, <1>5 DEF SetupInv, SetupShape, Attributes
<1>8. InProgress'
  <2>1. \A i \in 2 .. 2 : Given(i)' = g
    BY <1>3
  <2> QED BY <1>1, <1>2, <1>3, <1>5, <1>6, <2>1 DEF InProgress
<1>9. ReadyWhenReturned'
  BY <1>1, <1>5, <1>6 DEF SetupInv, ReadyWhenReturned
<1>10. Lost' = Lost \cup {d} /\ d \notin Lost /\ Kept' = Kept
  <2>1. Lost' = Lost \cup {d} /\ d \notin Lost
    <3>1. Closed' = Closed \ {d} /\ owner' = owner
      BY <1>1, <1>5, <1>6 DEF Closed
    <3> HIDE DEF d
    <3> QED BY ONLY <1>4, <1>5, <3>1 DEF Lost
  <2>2. Kept' = Kept
    <3>1. owner[d] # "udp_server_sock_init" /\ owner[d] # "tcp_init_client"
      BY <1>5 DEF NoProc
    <3> QED BY <1>1, <1>5, <1>6, <3>1 DEF Kept
  <2> QED BY <2>1, <2>2
<1>11. Cardinality(Lost') = Cardinality(Lost) + 1
  BY <1>10, CountsFinite, FS_AddElement
<1>12. Pending /\ Pending'
  BY <1>1, <1>2, <1>3, <1>5, <1>6 DEF Pending, FreesList
<1>13. Counted'
  BY <1>1, <1>2, <1>10, <1>11, <1>12, CountsFinite DEF SetupInv, SetupShape, Counted, OneIf
<1> QED BY <1>7, <1>8, <1>9, <1>13 DEF SetupInv

(* bind and connect end what was pending; no other call does.              *)
LEMMA ConfigureSetup ==
  ASSUME SetupInv, Configure
  PROVE  SetupInv'
<1> DEFINE g == Head(rest).gives
<1>1. /\ rest # <<>> /\ Head(rest).call = "configure" /\ fd # -1 /\ GoOn
      /\ sock' = [sock EXCEPT ![fd] = @ \cup {g}]
      /\ lists' = IF g \in FreesList THEN lists - 1 ELSE lists
      /\ UNCHANGED <<proc, fd, calls, failures, status, owner>>
  BY DEF Configure, Doing, GoOn, ListsAfter, FreesList
<1>2. /\ proc \in Procedures /\ proc # NoProc /\ Done \in Nat /\ Done >= 2
      /\ Done' = Done + 1 /\ Done + 1 <= Len(Steps[proc]) /\ Len(Steps[proc]) \in 3 .. 6
      /\ LaidOut(proc, Steps[proc]) /\ Head(rest) = Steps[proc][Done + 1]
      /\ g \in Attributes
      /\ rest' \in Seq(AllSteps)
      /\ Len(rest') <= Len(Steps[proc])
      /\ \A j \in 1 .. Len(rest') : rest'[j] = Steps[proc][Done' + j]
  BY <1>1, NextStep, NoProcIsNone
<1>3. g = Given(Done + 1) /\ Done + 1 \in 3 .. Len(Steps[proc])
      /\ \A i \in Nat : Given(i)' = Given(i)
  BY <1>1, <1>2 DEF Given
<1>4. /\ fd \in Fds /\ owner[fd] = NoProc
      /\ Given(2) \in sock[fd]
      /\ \A i \in 2 .. Done : Given(i) \in Reported(proc) => Given(i) \in sock[fd]
      /\ sock[fd] \subseteq {Given(i) : i \in 2 .. Done}
  BY <1>1, <1>2 DEF SetupInv, SetupShape, InProgress
<1>5. sock'[fd] = sock[fd] \cup {g} /\ \A e \in Fds \ {fd} : sock'[e] = sock[e]
  BY <1>1, <1>4 DEF SetupInv, SetupShape
<1>6. InProgress'
  <2>1. \A i \in 2 .. Done' : i \in 2 .. Done \/ i = Done + 1
    BY <1>2
  <2>2. 2 .. Done \subseteq 2 .. Done' /\ Done + 1 \in 2 .. Done' /\ 2 .. Done' \subseteq Nat
    BY <1>2
  <2>3. \A i \in 2 .. Done' : Given(i)' \in Reported(proc) => Given(i)' \in sock'[fd]
    BY <1>3, <1>4, <1>5, <2>1, <2>2
  <2>4. sock'[fd] \subseteq {Given(i)' : i \in 2 .. Done'}
    BY <1>3, <1>4, <1>5, <2>2
  <2>5. Given(2)' \in sock'[fd]
    BY <1>3, <1>4, <1>5
  <2>6. /\ proc' = proc /\ proc # NoProc /\ fd' = fd /\ fd # -1 /\ owner' = owner
        /\ Done' >= 2
    BY <1>1, <1>2
  <2> QED BY <1>2, <1>4, <2>3, <2>4, <2>5, <2>6 DEF InProgress
<1>7. ReadyWhenReturned'
  BY <1>1, <1>4, <1>5 DEF SetupInv, ReadyWhenReturned
<1>8. Lost' = Lost /\ Kept' = Kept
  <2>1. sock[fd] # {} /\ sock'[fd] # {}
    BY <1>4, <1>5
  <2>2. owner[fd] # "udp_server_sock_init" /\ owner[fd] # "tcp_init_client"
    BY <1>4 DEF NoProc
  <2>3. Lost' = Lost
    BY <1>1, <1>5, <2>1 DEF Lost, Closed
  <2>4. Kept' = Kept
    BY <1>1, <1>5, <2>2 DEF Kept
  <2> QED BY <2>3, <2>4
<1>9. g \in FreesList => Pending /\ ~ Pending'
  <2> SUFFICES ASSUME g \in FreesList PROVE Pending /\ ~ Pending'
    OBVIOUS
  <2>1. \A i \in 2 .. Done : Given(i) \notin FreesList
    <3> TAKE i \in 2 .. Done
    <3>1. CASE i = 2
      BY <1>2, <3>1 DEF LaidOut, Given, FreesList
    <3>2. CASE i # 2
      <4>1. i \in 3 .. Len(Steps[proc]) /\ i # Done + 1
        BY <1>2, <3>2
      <4> QED BY <1>2, <1>3, <4>1 DEF LaidOut, Given
    <3> QED BY <3>1, <3>2
  <2>2. sock[fd] \cap FreesList = {} /\ sock'[fd] \cap FreesList # {}
    BY <1>4, <1>5, <2>1
  <2> QED BY <1>1, <1>2, <2>2 DEF Pending
<1>10. g \notin FreesList => (Pending' <=> Pending)
  <2>1. g \notin FreesList => sock'[fd] \cap FreesList = sock[fd] \cap FreesList
    BY <1>5
  <2>2. proc' = proc /\ fd' = fd /\ Done >= 1 /\ Done' >= 1
    BY <1>1, <1>2
  <2> QED BY <2>1, <2>2 DEF Pending
<1>11. Counted'
  <2>1. CASE g \in FreesList
    <3>1. /\ OneIf(Pending) = 1 /\ OneIf(Pending)' = 0
          /\ OneIf(proc # NoProc /\ Done >= 2)' = 1 /\ OneIf(proc # NoProc /\ Done >= 2) = 1
          /\ OneIf(proc # NoProc)' = 1 /\ OneIf(proc # NoProc) = 1
          /\ OneIf(proc # NoProc /\ Done = 0)' = 0 /\ OneIf(proc # NoProc /\ Done = 0) = 0
      BY <1>1, <1>2, <1>9, <2>1 DEF OneIf
    <3>2. lists' = lists - 1 /\ lists \in Nat /\ failures \in Nat /\ calls \in Nat
      BY <1>1, <2>1 DEF SetupInv, SetupShape
    <3>3. ~ Pending'
      BY <1>9, <2>1
    <3> QED BY <1>1, <1>8, <3>1, <3>2, <3>3, CountsFinite DEF SetupInv, Counted
  <2>2. CASE g \notin FreesList
    <3>1. /\ OneIf(Pending)' = OneIf(Pending)
          /\ OneIf(proc # NoProc /\ Done >= 2)' = OneIf(proc # NoProc /\ Done >= 2)
          /\ OneIf(proc # NoProc)' = OneIf(proc # NoProc)
          /\ OneIf(proc # NoProc /\ Done = 0)' = 0 /\ OneIf(proc # NoProc /\ Done = 0) = 0
      BY <1>1, <1>2, <1>10, <2>2 DEF OneIf
    <3>2. UNCHANGED <<lists, failures, calls>>
      BY <1>1, <2>2
    <3> QED BY <1>8, <1>10, <2>2, <3>1, <3>2 DEF SetupInv, Counted
  <2> QED BY <2>1, <2>2
<1>12. SetupShape'
  <2>1. sock' \in [Fds -> SUBSET Attributes]
    BY <1>1, <1>2, <1>4 DEF SetupInv, SetupShape
  <2>2. lists' \in Nat
    BY <1>1, <1>9 DEF SetupInv, SetupShape, Counted
  <2> QED BY <1>1, <1>2, <2>1, <2>2 DEF SetupInv, SetupShape
<1> QED BY <1>6, <1>7, <1>11, <1>12 DEF SetupInv

(* What an error leads to: whoever returns -1 may have lost a descriptor   *)
(* and an address list.                                                    *)
LEMMA FailSetup ==
  ASSUME SetupInv, Fail
  PROVE  SetupInv'
<1> DEFINE error == Head(rest).onError
<1>1. /\ rest # <<>> /\ UNCHANGED <<sock, owner, lists>>
      /\ Lost' = Lost /\ Kept' = Kept
  BY DEF Fail, table, Lost, Kept, Closed
<1>2. /\ proc \in Procedures /\ proc # NoProc /\ Done \in Nat
      /\ LaidOut(proc, Steps[proc]) /\ Head(rest) = Steps[proc][Done + 1]
      /\ Done + 1 <= Len(Steps[proc]) /\ Len(Steps[proc]) \in 3 .. 6
      /\ GoOn => /\ Done' = Done + 1 /\ rest' \in Seq(AllSteps)
                 /\ Len(rest') <= Len(Steps[proc])
                 /\ \A j \in 1 .. Len(rest') : rest'[j] = Steps[proc][Done' + j]
  BY <1>1, NextStep, NoProcIsNone
<1>3. ASSUME error \in {"ignore", "lose"}
      PROVE  /\ Done >= 1
             /\ Done >= 2 => Done + 1 \in 3 .. Len(Steps[proc])
             /\ error = "lose" => Done = 2
             /\ error = "ignore" /\ Done >= 2 => Given(Done + 1) \notin Reported(proc)
  <2>1. Done # 0
    BY <1>2, <1>3 DEF LaidOut
  <2>2. Done >= 2 => Done + 1 \in 3 .. Len(Steps[proc])
    BY <1>2
  <2>3. Done = 1 => error # "lose"
    BY <1>2 DEF LaidOut
  <2>4. Done >= 2 => (error = "lose" => Done + 1 = 3)
    BY <1>2, <2>2 DEF LaidOut
  <2>5. error = "ignore" /\ Done >= 2 => Given(Done + 1) \notin Reported(proc)
    BY <1>2, <2>2 DEF LaidOut, Given
  <2> QED BY <1>2, <2>1, <2>2, <2>3, <2>4, <2>5
<1>4. CASE error = "ignore" /\ GoOn /\ UNCHANGED fd
  <2>1. UNCHANGED <<proc, fd, calls, failures, status>> /\ \A i \in Nat : Given(i)' = Given(i)
    BY <1>4 DEF GoOn, Given
  <2>2. SetupShape' /\ ReadyWhenReturned'
    BY <1>1, <1>2, <1>4, <2>1 DEF SetupInv, SetupShape, ReadyWhenReturned
  <2>3. InProgress'
    <3>1. ASSUME fd # -1
          PROVE  /\ Done' >= 2
                 /\ owner[fd] = NoProc
                 /\ Given(2)' \in sock[fd]
                 /\ \A i \in 2 .. Done' : Given(i)' \in Reported(proc) => Given(i)' \in sock[fd]
                 /\ sock[fd] \subseteq {Given(i)' : i \in 2 .. Done'}
      <4>1. /\ Done >= 2 /\ owner[fd] = NoProc
            /\ Given(2) \in sock[fd]
            /\ \A i \in 2 .. Done : Given(i) \in Reported(proc) => Given(i) \in sock[fd]
            /\ sock[fd] \subseteq {Given(i) : i \in 2 .. Done}
        BY <1>2, <3>1 DEF SetupInv, InProgress
      <4>2. /\ Done' = Done + 1 /\ 2 .. Done \subseteq 2 .. Done' /\ 2 .. Done' \subseteq Nat
            /\ \A i \in 2 .. Done' : i \in 2 .. Done \/ i = Done + 1
        BY <1>2, <1>4, <4>1
      <4>3. Given(Done + 1) \notin Reported(proc)
        BY <1>3, <1>4, <4>1
      <4> QED BY <2>1, <4>1, <4>2, <4>3
    <3> QED BY <1>1, <1>2, <1>4, <2>1, <3>1 DEF InProgress
  <2>4. Pending' <=> Pending
    BY <1>1, <1>2, <1>3, <1>4, <2>1 DEF Pending
  <2>5. Counted'
    BY <1>1, <1>2, <1>3, <1>4, <2>1, <2>4, CountsFinite DEF SetupInv, SetupShape, Counted, OneIf
  <2> QED BY <2>2, <2>3, <2>5 DEF SetupInv
<1>5. CASE error = "lose" /\ fd' = -1 /\ GoOn
  <2>1. UNCHANGED <<proc, calls, failures, status>> /\ Done = 2 /\ Done' = 3
    BY <1>2, <1>3, <1>5 DEF GoOn
  <2>2. SetupShape' /\ InProgress' /\ ReadyWhenReturned'
    BY <1>1, <1>2, <1>5, <2>1 DEF SetupInv, SetupShape, InProgress, ReadyWhenReturned
  <2>3. Pending
    <3>1. fd # -1 => sock[fd] \subseteq {Given(i) : i \in 2 .. 2}
      BY <1>2, <2>1 DEF SetupInv, InProgress
    <3>2. Given(2) \notin FreesList
      BY <1>2 DEF LaidOut, Given, FreesList
    <3> QED BY <1>2, <2>1, <3>1, <3>2 DEF Pending
  <2>4. Pending'
    BY <1>2, <1>5, <2>1 DEF Pending
  <2>5. Counted'
    <3>1. /\ UNCHANGED <<Lost, Kept, lists, failures, calls, proc>>
          /\ Done = 2 /\ Done' = 3
      BY <1>1, <2>1
    <3>2. Counted /\ failures \in Nat /\ calls \in Nat /\ lists \in Nat
      BY DEF SetupInv, SetupShape
    <3> QED BY ONLY <2>3, <2>4, <3>1, <3>2, CountsFinite DEF Counted, OneIf
  <2> QED BY <2>2, <2>5 DEF SetupInv
<1>6. CASE /\ error = "return" /\ proc' = NoProc /\ rest' = <<>> /\ fd' = -1
           /\ failures' = failures + 1 /\ UNCHANGED <<calls, status>>
  <2>1. SetupShape'
    BY <1>1, <1>6 DEF SetupInv, SetupShape
  <2>2. InProgress' /\ ReadyWhenReturned'
    BY <1>1, <1>6 DEF SetupInv, InProgress, ReadyWhenReturned
  <2>3. Counted'
    <3>1. /\ UNCHANGED <<Lost, Kept, lists, calls>> /\ failures' = failures + 1
          /\ proc # NoProc /\ proc' = NoProc
      BY <1>1, <1>2, <1>6
    <3>2. Counted /\ failures \in Nat /\ calls \in Nat /\ lists \in Nat
      BY DEF SetupInv, SetupShape
    <3>3. ~ Pending'
      BY <3>1 DEF Pending
    <3> QED BY ONLY <3>1, <3>2, <3>3, CountsFinite DEF Counted, OneIf
  <2> QED BY <2>1, <2>2, <2>3 DEF SetupInv
<1>7. CASE UNCHANGED setup /\ status' \in {"exited", "fault"}
  BY <1>1, <1>7, SetupKept DEF table
<1> QED BY <1>4, <1>5, <1>6, <1>7 DEF Fail

(* The caller gets what no call reported missing, or -1 for what was lost. *)
LEMMA ReturnSetup ==
  ASSUME SetupInv, Return
  PROVE  SetupInv'
<1>1. /\ proc # NoProc /\ rest = <<>> /\ proc' = NoProc /\ fd' = -1 /\ rest' = <<>>
      /\ owner' = IF fd = -1 THEN owner ELSE [owner EXCEPT ![fd] = proc]
      /\ failures' = IF fd = -1 THEN failures + 1 ELSE failures
      /\ UNCHANGED <<calls, sock, lists, status>>
  BY DEF Return
<1>2. proc \in Procedures /\ LaidOut(proc, Steps[proc])
  BY <1>1, StepsLaidOut DEF SetupInv, SetupShape
<1>3. Done = Len(Steps[proc]) /\ Done \in 3 .. 6
  BY <1>1, <1>2 DEF Done, LaidOut
<1>4. InProgress' /\ ~ Pending'
  BY <1>1 DEF InProgress, Pending
<1>5. SetupShape'
  BY <1>1, <1>2 DEF SetupInv, SetupShape
<1>6. CASE fd = -1
  <2>1. Lost' = Lost /\ Kept' = Kept
    BY <1>1, <1>6 DEF Lost, Kept, Closed
  <2>2. Counted'
    BY <1>1, <1>3, <1>4, <1>6, <2>1, CountsFinite DEF SetupInv, SetupShape, Counted, OneIf
  <2> QED BY <1>1, <1>4, <1>5, <1>6, <2>2 DEF SetupInv, ReadyWhenReturned
<1>7. CASE fd # -1
  <2>1. /\ fd \in Fds /\ owner[fd] = NoProc /\ sock[fd] # {}
        /\ \A i \in 2 .. Done : Given(i) \in Reported(proc) => Given(i) \in sock[fd]
    BY <1>1, <1>7 DEF SetupInv, SetupShape, InProgress
  <2>2. Reported(proc) \subseteq sock[fd]
    BY <1>2, <1>3, <2>1 DEF LaidOut, Given
  <2>3. owner'[fd] = proc /\ \A e \in Fds \ {fd} : owner'[e] = owner[e]
    BY <1>1, <1>7, <2>1 DEF SetupInv, SetupShape
  <2>4. ReadyWhenReturned'
    BY <1>1, <2>2, <2>3 DEF SetupInv, ReadyWhenReturned
  <2>5. Lost' = Lost \ {fd} /\ fd \in Lost
    BY <1>1, <2>1, <2>3 DEF Lost, Closed
  <2>6. Cardinality(Lost') = Cardinality(Lost) - 1
    BY <2>5, CountsFinite, FS_RemoveElement
  <2>7. \/ Kept' = Kept /\ ~ Pending
        \/ Kept' = Kept \cup {fd} /\ fd \notin Kept
    <3>1. fd \notin Kept
      BY <2>1 DEF Kept, NoProc
    <3>2. CASE \/ proc = "udp_server_sock_init"
               \/ proc = "tcp_init_client" /\ "connected" \notin sock[fd]
      <4>1. \A e \in Fds : e \in Kept' <=> e \in Kept \/ e = fd
        <5> TAKE e \in Fds
        <5>1. CASE e = fd
          BY <1>1, <2>1, <2>3, <3>2, <5>1 DEF Kept
        <5>2. CASE e # fd
          BY <1>1, <2>3, <5>2 DEF Kept
        <5> QED BY <5>1, <5>2
      <4>2. Kept' \subseteq Fds /\ Kept \subseteq Fds
        BY DEF Kept
      <4> QED BY <2>1, <3>1, <4>1, <4>2
    <3>3. CASE proc = "tcp_init_client" /\ "connected" \in sock[fd]
      BY <1>1, <1>7, <2>3, <3>1, <3>3 DEF Kept, Pending, FreesList
    <3>4. CASE proc \notin {"udp_server_sock_init", "tcp_init_client"}
      <4>1. Reported(proc) \cap FreesList # {}
        BY <1>2, <3>4, StepsLaidOut DEF Names, Reported, Promised, FreesList
      <4> QED BY <1>1, <1>7, <2>2, <2>3, <3>1, <3>4, <4>1 DEF Kept, Pending
    <3> QED BY <3>2, <3>3, <3>4
  <2>8. /\ Kept' = Kept \cup {fd} /\ fd \notin Kept =>
              Cardinality(Kept') = Cardinality(Kept) + 1
        /\ OneIf(Pending)' = 0 /\ OneIf(Pending) \in {0, 1} /\ (~ Pending => OneIf(Pending) = 0)
    BY <1>4, CountsFinite, FS_AddElement DEF OneIf
  <2>9. lists <= failures + Cardinality(Kept')
    BY <2>7, <2>8, CountsFinite DEF SetupInv, SetupShape, Counted
  <2>10. Counted'
    <3>1. Cardinality(Lost') <= failures
      BY <1>1, <1>3, <2>6, CountsFinite DEF SetupInv, SetupShape, Counted, OneIf
    <3>2. failures + 1 <= calls /\ lists <= calls
      BY <1>1, <1>3 DEF SetupInv, SetupShape, Counted, OneIf
    <3>3. failures \in Nat /\ calls \in Nat /\ lists \in Nat /\ failures' = failures
      BY <1>1, <1>7 DEF SetupInv, SetupShape
    <3>4. /\ OneIf(proc # NoProc /\ Done >= 2)' = 0 /\ OneIf(proc # NoProc)' = 0
          /\ OneIf(proc # NoProc /\ Done = 0)' = 0 /\ OneIf(Pending)' = 0
      BY <1>1, <1>4 DEF OneIf
    <3>5. Cardinality(Lost') \in Nat /\ Cardinality(Kept') \in Nat /\ lists' = lists /\ calls' = calls
      <4>1. Lost' \subseteq Fds /\ Kept' \subseteq Fds /\ IsFiniteSet(Fds)
        BY ConstantsAssumption DEF Lost, Kept
      <4>2. IsFiniteSet(Lost') /\ IsFiniteSet(Kept')
        BY <4>1, FS_Subset
      <4> QED BY <1>1, <4>2, FS_CardinalityType
    <3> QED BY <1>4, <2>9, <3>1, <3>2, <3>3, <3>4, <3>5 DEF Counted
  <2> QED BY <1>4, <1>5, <2>4, <2>10 DEF SetupInv
<1> QED BY <1>6, <1>7

LEMMA AcceptSetup ==
  ASSUME SetupInv, NEW d \in Fds, Accept(d)
  PROVE  SetupInv'
<1>1. PICK new \in Closed :
         /\ sock' = [sock EXCEPT ![new] = {"stream", "connected"}]
         /\ owner' = [owner EXCEPT ![new] = "tcp_server_accept"]
  BY DEF Accept
<1>2. proc = NoProc /\ UNCHANGED <<proc, rest, fd, calls, failures, lists, status>>
  BY DEF Accept, setup
<1>3. new \in Fds /\ sock[new] = {} /\ owner[new] = NoProc
  <2>1. new \in Fds /\ sock[new] = {}
    BY <1>1 DEF Closed
  <2>2. owner[new] \in Procedures \cup {NoProc, "tcp_server_accept"}
    BY <2>1 DEF SetupInv, SetupShape
  <2>3. owner[new] # NoProc => Reported(owner[new]) \subseteq {}
    BY <2>1 DEF SetupInv, ReadyWhenReturned
  <2> QED BY <2>1, <2>2, <2>3, PromiseNotEmpty
<1>4. /\ sock'[new] = {"stream", "connected"} /\ owner'[new] = "tcp_server_accept"
      /\ \A e \in Fds \ {new} : sock'[e] = sock[e] /\ owner'[e] = owner[e]
  BY <1>1, <1>3 DEF SetupInv, SetupShape
<1>5. SetupShape'
  BY <1>1, <1>2, <1>3 DEF SetupInv, SetupShape, Attributes
<1>6. InProgress'
  BY <1>2 DEF SetupInv, InProgress
<1>7. ReadyWhenReturned'
  BY <1>4 DEF SetupInv, ReadyWhenReturned, Reported, Promised
<1>8. Lost' = Lost /\ Kept' = Kept
  <2>1. Lost' = Lost
    BY <1>3, <1>4 DEF Lost, Closed, NoProc
  <2>2. Kept' = Kept
    BY <1>3, <1>4 DEF Kept, NoProc
  <2> QED BY <2>1, <2>2
<1>9. Counted'
  BY <1>2, <1>8, CountsFinite DEF SetupInv, SetupShape, Counted, Pending, OneIf
<1> QED BY <1>5, <1>6, <1>7, <1>9 DEF SetupInv

LEMMA SetupStep == SetupInv /\ [Next]_vars => SetupInv'
<1> SUFFICES ASSUME SetupInv, [Next]_vars PROVE SetupInv'
  OBVIOUS
<1>1. ASSUME NEW p \in Procedures, Call(p) PROVE SetupInv'
  BY <1>1, CallSetup
<1>2. ASSUME NEW d \in Fds, Accept(d) PROVE SetupInv'
  BY <1>2, AcceptSetup
<1>3. ASSUME NEW d \in Fds, SendStart(d) PROVE SetupInv'
  <2>1. UNCHANGED <<setup, table>> /\ status' \in {"running", "killed"}
    BY <1>3 DEF SendStart
  <2> QED BY <2>1, SetupKept
<1>4. ASSUME NEW k \in Int, SendSome(k) \/ Recv(k) PROVE SetupInv'
  <2>1. UNCHANGED <<setup, table, status>>
    BY <1>4 DEF SendSome, Recv
  <2>2. status \in {"running", "exited", "fault", "killed"}
    BY DEF SetupInv, SetupShape
  <2> QED BY <2>1, <2>2, SetupKept
<1>5. CASE SendFails
  <2>1. UNCHANGED <<setup, table>> /\ status' \in {"running", "exited", "killed"}
    BY <1>5 DEF SendFails
  <2> QED BY <2>1, SetupKept
<1>6. CASE UNCHANGED vars
  <2>1. UNCHANGED <<setup, table, status>>
    BY <1>6 DEF vars
  <2>2. status \in {"running", "exited", "fault", "killed"}
    BY DEF SetupInv, SetupShape
  <2> QED BY <2>1, <2>2, SetupKept
<1>7. \A k \in 1 .. PacketSize : k \in Int
  BY ConstantsAssumption
<1>8. \A k \in 1 .. PacketSize * MaxPackets : k \in Int
  BY ConstantsAssumption
<1> QED BY <1>1, <1>2, <1>3, <1>4, <1>5, <1>6, <1>7, <1>8, ResolveSetup, OpenSetup,
           ConfigureSetup, FailSetup, ReturnSetup DEF Next

(* Whatever calls fail, in whatever order: a descriptor that a set-up      *)
(* procedure returned is open and has every attribute the headers promise, *)
(* except that the one of tcp_init_client need not be connected            *)
(* (ReadyWhenReturned), and no more descriptors and address lists are lost *)
(* than calls returned -1, but for those LeaksCounted names.               *)
THEOREM SetUp == Spec => [](ReadyWhenReturned /\ LeaksCounted)
<1>1. SetupInv => ReadyWhenReturned /\ LeaksCounted
  <2> SUFFICES ASSUME SetupInv, proc = NoProc
               PROVE  Cardinality(Lost) <= failures /\ lists <= failures + Cardinality(Kept)
    <3>1. LeaksCounted <=>
            (proc = NoProc => /\ Cardinality(Lost) <= failures
                              /\ lists <= failures + Cardinality(Kept))
      BY DEF LeaksCounted, Lost, Kept
    <3> QED BY <3>1 DEF SetupInv
  <2> QED BY CountsFinite DEF SetupInv, SetupShape, Counted, Pending, OneIf
<1> QED BY <1>1, InitSetup, SetupStep, PTL DEF Spec
-----------------------------------------------------------------------------
(* Packets one behind the other, and nothing else. *)
Whole(s) ==
  \E j \in Nat :
    /\ Len(s) = PacketSize * j
    /\ \A a \in Nat, b \in 1 .. PacketSize : a < j => s[PacketSize * a + b] = b

LEMMA Multiples ==
  ASSUME NEW P \in Nat \ {0}, NEW a \in Nat, NEW j \in Nat, a < j, NEW b \in 1 .. P
  PROVE  P * a + b \in 1 .. P * j /\ P * j \in Nat
<1>1. P * a + P = P * (a + 1) /\ P * a \in Nat /\ P * j \in Nat
  OBVIOUS
<1>2. P * (a + 1) <= P * j
  OBVIOUS
<1> QED BY <1>1, <1>2

LEMMA PacketFacts ==
  /\ Packet \in Seq(1 .. PacketSize) /\ Len(Packet) = PacketSize
  /\ \A b \in 1 .. PacketSize : Packet[b] = b
BY ConstantsAssumption DEF Packet

(* A whole packet more. *)
LEMMA WholeMore ==
  ASSUME NEW s \in Seq(1 .. PacketSize), Whole(s)
  PROVE  s \o Packet \in Seq(1 .. PacketSize) /\ Whole(s \o Packet)
<1> DEFINE P == PacketSize
           t == s \o Packet
<1>0. P \in Nat \ {0}
  BY ConstantsAssumption
<1>1. PICK j \in Nat : /\ Len(s) = P * j
                       /\ \A a \in Nat, b \in 1 .. P : a < j => s[P * a + b] = b
  BY DEF Whole
<1>2. /\ t \in Seq(1 .. P) /\ Len(t) = Len(s) + Len(Packet)
      /\ \A i \in 1 .. Len(s) + Len(Packet) :
           t[i] = IF i <= Len(s) THEN s[i] ELSE Packet[i - Len(s)]
  <2>1. s \in Seq(1 .. P) /\ Packet \in Seq(1 .. P)
    BY PacketFacts
  <2> HIDE DEF P
  <2> QED BY ONLY <2>1, ConcatProperties
<1>3. Len(t) = P * (j + 1)
  <2>1. P * (j + 1) = P * j + P
    BY <1>0
  <2>2. Len(Packet) = P
    BY PacketFacts
  <2> QED BY ONLY <1>1, <1>2, <2>1, <2>2
<1>4. ASSUME NEW a \in Nat, NEW b \in 1 .. P, a < j + 1 PROVE t[P * a + b] = b
  <2>1. CASE a < j
    <3>1. P * a + b \in 1 .. P * j
      BY <1>0, <2>1, Multiples
    <3>2. P * a + b \in 1 .. Len(s) + Len(Packet) /\ P * a + b <= Len(s)
      BY <1>0, <1>1, <3>1, PacketFacts
    <3> QED BY <1>1, <1>2, <2>1, <3>2
  <2>2. CASE a = j
    <3>1. P * a + b = Len(s) + b
      BY <1>1, <2>2
    <3>2. /\ Len(s) + b \in 1 .. Len(s) + Len(Packet) /\ ~ (Len(s) + b <= Len(s))
          /\ (Len(s) + b) - Len(s) = b
      BY <1>0, PacketFacts
    <3>3. t[Len(s) + b] = Packet[(Len(s) + b) - Len(s)]
      BY <1>2, <3>2
    <3>4. t[P * a + b] = t[Len(s) + b]
      BY <3>1, Zenon
    <3>5. t[Len(s) + b] = b
      BY <3>2, <3>3, PacketFacts
    <3> QED BY <3>4, <3>5, Zenon
  <2>3. a < j \/ a = j
    BY <1>4
  <2> QED BY <2>1, <2>2, <2>3, Zenon
<1>5. Whole(t)
  <2>1. j + 1 \in Nat
    OBVIOUS
  <2> QED BY <1>3, <1>4, <2>1, Zenon DEF Whole
<1> QED BY <1>2, <1>5

(* Whole packets taken from the front are packets, and leave whole ones.   *)
LEMMA WholeRest ==
  ASSUME NEW s \in Seq(1 .. PacketSize), Whole(s), NEW k \in 1 .. Len(s), k % PacketSize = 0
  PROVE  /\ SubSeq(s, k + 1, Len(s)) \in Seq(1 .. PacketSize)
         /\ Whole(SubSeq(s, k + 1, Len(s)))
         /\ k >= PacketSize
         /\ SubSeq(s, 1, PacketSize) = Packet
<1> DEFINE P == PacketSize
           t == SubSeq(s, k + 1, Len(s))
           c == k \div P
<1>0. P \in Nat \ {0} /\ k \in Nat \ {0} /\ Len(s) \in Nat
  BY ConstantsAssumption
<1>1. PICK j \in Nat : /\ Len(s) = P * j
                       /\ \A a \in Nat, b \in 1 .. P : a < j => s[P * a + b] = b
  BY DEF Whole
<1>2. c \in Nat /\ k = P * c
  <2>1. ASSUME NEW n \in Nat, NEW q \in Nat \ {0}
        PROVE  n = q * (n \div q) + (n % q) /\ n \div q \in Nat
    OBVIOUS
  <2>2. k = P * c + (k % P) /\ c \in Nat
    BY <1>0, <2>1
  <2> QED BY <1>0, <2>2
<1> HIDE DEF c
<1>3. c >= 1 /\ k >= P /\ c <= j
  <2>1. c # 0
    <3>1. P * 0 = 0
      BY <1>0
    <3> QED BY <1>0, <1>2, <3>1
  <2>2. P <= P * c
    <3>1. c = (c - 1) + 1 /\ c - 1 \in Nat
      BY <1>2, <2>1
    <3>2. ASSUME NEW n \in Nat, NEW q \in Nat PROVE q * (n + 1) = q * n + q /\ q * n \in Nat
      OBVIOUS
    <3>3. P * ((c - 1) + 1) = P * (c - 1) + P /\ P * (c - 1) \in Nat
      BY ONLY <1>0, <3>1, <3>2
    <3> QED BY <1>0, <3>1, <3>3
  <2>3. ASSUME c > j PROVE FALSE
    <3>1. P * j + P <= P * c
      <4>1. P * (j + 1) <= P * c
        BY <1>0, <1>2, <2>3
      <4> QED BY <1>0, <4>1
    <3>2. P * j \in Nat
      BY <1>0
    <3> QED BY <1>0, <1>1, <1>2, <3>1, <3>2
  <2> QED BY <1>0, <1>2, <2>1, <2>2, <2>3
<1>4. /\ t \in Seq(1 .. P) /\ Len(t) = Len(s) - k
      /\ \A i \in 1 .. Len(s) - k : t[i] = s[k + i]
  <2>1. \A i \in 1 .. Len(s) : s[i] \in 1 .. P
    BY <1>0
  <2>2. k + 1 \in Int /\ k + 1 >= 1 /\ k + 1 <= Len(s) + 1
    BY <1>0
  <2> QED BY <1>0, <2>1, <2>2, SubSeqProperties
<1>5. Whole(t)
  <2>1. Len(t) = P * (j - c) /\ j - c \in Nat
    BY <1>0, <1>1, <1>2, <1>3, <1>4
  <2>2. ASSUME NEW a \in Nat, NEW b \in 1 .. P, a < j - c PROVE t[P * a + b] = b
    <3>1. P * a + b \in 1 .. P * (j - c)
      BY <1>0, <2>1, <2>2, Multiples
    <3>2. P * (a + c) = P * a + P * c /\ a + c \in Nat /\ a + c < j
      BY <1>0, <1>2, <1>3, <2>2
    <3>3. P * a \in Nat /\ P * c \in Nat
      BY <1>0, <1>2
    <3>4. k + (P * a + b) = P * (a + c) + b
      BY <1>0, <1>2, <3>2, <3>3
    <3>5. t[P * a + b] = s[k + (P * a + b)]
      BY <1>4, <2>1, <3>1
    <3> QED BY <1>1, <3>2, <3>4, <3>5
  <2> QED BY <2>1, <2>2 DEF Whole
<1>6. SubSeq(s, 1, P) = Packet
  <2>1. P <= Len(s)
    BY <1>0, <1>3
  <2>2. /\ SubSeq(s, 1, P) \in Seq(1 .. P) /\ Len(SubSeq(s, 1, P)) = P
        /\ \A i \in 1 .. P : SubSeq(s, 1, P)[i] = s[i]
    <3>1. \A i \in 1 .. P : s[i] \in 1 .. P
      BY <1>0, <2>1
    <3> QED BY <1>0, <3>1, SubSeqProperties
  <2>3. \A b \in 1 .. P : s[P * 0 + b] = b /\ P * 0 + b = b
    <3>1. P * 0 = 0 /\ 0 < j /\ 0 \in Nat
      BY <1>0, <1>2, <1>3
    <3>2. \A b \in 1 .. P : P * 0 + b = b
      BY <1>0, <3>1
    <3>3. \A b \in 1 .. P : s[P * 0 + b] = b
      BY <1>1, <3>1, Zenon
    <3> QED BY <3>2, <3>3, Zenon
  <2>4. \A b \in 1 .. P : SubSeq(s, 1, P)[b] = Packet[b]
    <3> TAKE b \in 1 .. P
    <3>1. s[P * 0 + b] = s[b] /\ s[P * 0 + b] = b
      BY <2>3, Zenon
    <3> QED BY ONLY <2>2, <3>1, PacketFacts, b \in 1 .. P, Zenon
  <2> QED BY <2>2, <2>4, PacketFacts, SeqEqual
<1> QED BY <1>3, <1>4, <1>5, <1>6

(* Until the kernel splits a packet, whole ones are on their way. *)
TransferInv ==
  /\ talk \in Fds \cup {-1} /\ left \in Int
  /\ stream \in Seq(1 .. PacketSize) /\ sent \in 0 .. MaxPackets
  /\ split \in BOOLEAN /\ misread \in BOOLEAN
  /\ ~ split => Whole(stream) /\ ~ misread

LEMMA InitTransfer == Init => TransferInv
<1> SUFFICES ASSUME Init PROVE TransferInv
  OBVIOUS
<1>1. /\ talk = -1 /\ left = 0 /\ stream = <<>> /\ sent = 0
      /\ split = FALSE /\ misread = FALSE
  BY DEF Init
<1>2. Whole(<<>>)
  <2>1. Len(<<>>) = PacketSize * 0 /\ \A a \in Nat : ~ (a < 0)
    BY ConstantsAssumption
  <2> QED BY <2>1 DEF Whole
<1>3. Whole(stream) /\ stream \in Seq(1 .. PacketSize)
  <2>1. <<>> \in Seq(1 .. PacketSize)
    OBVIOUS
  <2> QED BY <1>1, <1>2, <2>1, Zenon
<1>4. sent \in 0 .. MaxPackets
  BY <1>1, ConstantsAssumption
<1>5. /\ talk \in Fds \cup {-1} /\ left \in Int
      /\ split \in BOOLEAN /\ misread \in BOOLEAN /\ ~ misread
  <2>1. talk = -1 /\ left = 0 /\ split = FALSE /\ misread = FALSE
    BY <1>1
  <2>2. -1 \in Fds \cup {-1} /\ 0 \in Int
    OBVIOUS
  <2> QED BY <2>1, <2>2, Zenon
<1> QED BY <1>3, <1>4, <1>5 DEF TransferInv

LEMMA SendTransfer ==
  ASSUME TransferInv, NEW k \in 1 .. PacketSize, SendSome(k)
  PROVE  TransferInv'
<1>1. /\ stream' = stream \o SubSeq(Packet, 1, k)
      /\ left' = left - k
      /\ split' = (split \/ k < PacketSize)
      /\ UNCHANGED <<talk, sent, misread>>
  BY DEF SendSome, FromStart
<1>2. PacketSize \in Nat \ {0} /\ k \in Nat \ {0} /\ k <= PacketSize
  BY ConstantsAssumption
<1>3. /\ SubSeq(Packet, 1, k) \in Seq(1 .. PacketSize) /\ Len(SubSeq(Packet, 1, k)) = k
      /\ \A i \in 1 .. k : SubSeq(Packet, 1, k)[i] = Packet[i]
  <2>1. \A i \in 1 .. k : Packet[i] \in 1 .. PacketSize
    BY <1>2, PacketFacts
  <2> QED BY <1>2, <2>1, SubSeqProperties
<1>4. stream' \in Seq(1 .. PacketSize) /\ left' \in Int /\ split' \in BOOLEAN
  BY <1>1, <1>2, <1>3 DEF TransferInv
<1>5. ~ split' => Whole(stream')
  <2> SUFFICES ASSUME ~ split' PROVE Whole(stream')
    OBVIOUS
  <2>1. k = PacketSize /\ Whole(stream) /\ stream \in Seq(1 .. PacketSize)
    <3>1. ~ split /\ ~ (k < PacketSize)
      BY <1>1
    <3> QED BY <1>2, <3>1 DEF TransferInv
  <2>2. SubSeq(Packet, 1, k) = Packet
    BY <1>3, <2>1, PacketFacts, SeqEqual
  <2> QED BY <1>1, <2>1, <2>2, WholeMore
<1> QED BY <1>1, <1>4, <1>5 DEF TransferInv

LEMMA RecvTransfer ==
  ASSUME TransferInv, NEW k, Recv(k)
  PROVE  TransferInv'
<1>1. /\ k \in 1 .. Len(stream) /\ stream \in Seq(1 .. PacketSize)
      /\ stream' = SubSeq(stream, k + 1, Len(stream))
      /\ split' = (split \/ k % PacketSize # 0)
      /\ misread' = (misread \/ k < PacketSize \/ SubSeq(stream, 1, PacketSize) # Packet)
      /\ UNCHANGED <<talk, left, sent>>
  BY DEF Recv, TransferInv
<1>2. stream' \in Seq(1 .. PacketSize)
  <2>1. k \in Nat /\ Len(stream) \in Nat
    BY <1>1
  <2>2. \A i \in k + 1 .. Len(stream) : stream[i] \in 1 .. PacketSize
    <3>1. \A i \in k + 1 .. Len(stream) : i \in 1 .. Len(stream)
      BY <2>1
    <3> QED BY <1>1, <3>1, ElementOfSeq
  <2> QED BY <1>1, <2>1, <2>2, SubSeqProperties
<1>3. split' \in BOOLEAN /\ misread' \in BOOLEAN
  BY <1>1
<1>4. ~ split' => Whole(stream') /\ ~ misread'
  <2> SUFFICES ASSUME ~ split' PROVE Whole(stream') /\ ~ misread'
    OBVIOUS
  <2>1. ~ split /\ k % PacketSize = 0
    BY <1>1
  <2>2. Whole(stream) /\ ~ misread
    BY <2>1 DEF TransferInv
  <2>3. /\ Whole(SubSeq(stream, k + 1, Len(stream))) /\ k >= PacketSize
        /\ SubSeq(stream, 1, PacketSize) = Packet
    BY <1>1, <2>1, <2>2, WholeRest
  <2>4. ~ (k < PacketSize)
    BY <1>1, <2>3, ConstantsAssumption
  <2> QED BY <1>1, <2>2, <2>3, <2>4
<1> QED BY <1>1, <1>2, <1>3, <1>4 DEF TransferInv

LEMMA TransferStep == TransferInv /\ [Next]_vars => TransferInv'
<1> SUFFICES ASSUME TransferInv, [Next]_vars PROVE TransferInv'
  OBVIOUS
<1>1. ASSUME UNCHANGED transfer PROVE TransferInv'
  BY <1>1 DEF transfer, TransferInv
<1>2. ASSUME NEW p \in Procedures, Call(p) PROVE TransferInv'
  BY <1>1, <1>2 DEF Call
<1>3. CASE Resolve \/ OpenSocket \/ Configure \/ Fail \/ Return
  BY <1>1, <1>3 DEF Resolve, OpenSocket, Configure, Fail, Return
<1>4. ASSUME NEW d \in Fds, Accept(d) PROVE TransferInv'
  BY <1>1, <1>4 DEF Accept
<1>5. ASSUME NEW d \in Fds, SendStart(d) PROVE TransferInv'
  BY <1>5, ConstantsAssumption DEF SendStart, TransferInv
<1>6. ASSUME NEW k \in 1 .. PacketSize, SendSome(k) PROVE TransferInv'
  BY <1>6, SendTransfer
<1>7. CASE SendFails
  BY <1>7 DEF SendFails, TransferInv
<1>8. ASSUME NEW k, Recv(k) PROVE TransferInv'
  BY <1>8, RecvTransfer
<1>9. CASE UNCHANGED vars
  BY <1>1, <1>9 DEF vars
<1> QED BY <1>2, <1>3, <1>4, <1>5, <1>6, <1>7, <1>8, <1>9 DEF Next

(* The variables have their types in every reachable state: descriptors    *)
(* are the process's, and no more lists are allocated than calls made.     *)
THEOREM Typing == Spec => []TypeOK
<1>1. SetupInv /\ TransferInv => TypeOK
  <2> SUFFICES ASSUME SetupInv, TransferInv PROVE TypeOK
    OBVIOUS
  <2>1. lists <= calls /\ failures <= calls
    BY DEF SetupInv, SetupShape, Counted, OneIf
  <2>2. lists \in 0 .. MaxCalls /\ failures \in 0 .. MaxCalls
    BY <2>1, ConstantsAssumption DEF SetupInv, SetupShape
  <2>3. rest \in Seq(UNION {Range(Steps[p]) : p \in Procedures})
    BY DEF SetupInv, SetupShape, AllSteps
  <2>4. sock \in [Fds -> SUBSET {"stream", "datagram", "reuse", "nonblocking",
                                "bound", "listening", "connected"}]
    BY DEF SetupInv, SetupShape, Attributes
  <2> QED BY <2>2, <2>3, <2>4 DEF SetupInv, SetupShape, TransferInv, TypeOK
<1> QED BY <1>1, InitSetup, SetupStep, InitTransfer, TransferStep, PTL DEF Spec

(* The peer takes something else for a packet only after a send or a recv  *)
(* was short of one: while the kernel moves whole packets, however many at *)
(* a time, each read begins with one.                                      *)
THEOREM MisreadCause == Spec => []MisreadNeedsSplit
<1>1. TransferInv => MisreadNeedsSplit
  BY DEF TransferInv, MisreadNeedsSplit
<1> QED BY <1>1, InitTransfer, TransferStep, PTL DEF Spec
=============================================================================
