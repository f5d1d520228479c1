-------------------------- MODULE ChatClientProofs --------------------------
(***************************************************************************)
(* Whatever the bounds of the model and however the server behaves,        *)
(* send_thread never sleeps through the packet it waits for, the prompt    *)
(* shows a byte, and it keeps step with the server until a message comes   *)
(* between a command and its answer.                                       *)
(***************************************************************************)
EXTENDS ChatClient, SequenceTheorems, TLAPS

(* The mutex is held from the prompt's line to the wait or the next        *)
(* prompt, and a thread about to sleep has just seen is_receiving set.     *)
HoldsMutex == mutex = "free" <=> sender \notin {"locked", "test", "enters"}
EntersReceiving == sender = "enters" => isReceiving
WakeInv == HoldsMutex /\ EntersReceiving /\ NoLostWakeup

LEMMA InitWake == Init => WakeInv
BY DEF Init, WakeInv, HoldsMutex, EntersReceiving, NoLostWakeup

LEMMA SendThreadWake ==
  ASSUME WakeInv, Prompt \/ Unparsable \/ SendThread \/ Spurious
  PROVE  WakeInv'
<1> USE DEF WakeInv, HoldsMutex, EntersReceiving, NoLostWakeup
<1>1. CASE Prompt
  BY <1>1 DEF Prompt
<1>2. CASE Command
  BY <1>2 DEF Command
<1>3. CASE Text
  BY <1>3 DEF Text
<1>4. CASE Test
  BY <1>4 DEF Test
<1>5. CASE Wait
  BY <1>5 DEF Wait
<1>6. CASE Reacquire
  BY <1>6 DEF Reacquire
<1>7. CASE Spurious
  BY <1>7 DEF Spurious
<1>8. CASE Unparsable
  BY <1>8 DEF Unparsable, threads
<1> QED BY <1>1, <1>2, <1>3, <1>4, <1>5, <1>6, <1>7, <1>8 DEF SendThread

(* Handle clears is_receiving: under the mutex, so not between the test    *)
(* and the sleep, and a sleeper has its signal coming.  Only Signal leaves *)
(* that state, and it wakes the sleeper.                                   *)
LEMMA RecvThreadWake ==
  ASSUME WakeInv, RecvThread
  PROVE  WakeInv'
<1> USE DEF WakeInv, HoldsMutex, EntersReceiving, NoLostWakeup
<1>1. CASE Top
  BY <1>1 DEF Top
<1>2. CASE Recv
  BY <1>2 DEF Recv
<1>3. CASE Handle
  BY <1>3 DEF Handle, CanLock, AfterPacket
<1>4. CASE Signal
  BY <1>4 DEF Signal
<1> QED BY <1>1, <1>2, <1>3, <1>4 DEF RecvThread

LEMMA PeerWake ==
  ASSUME WakeInv, Exit \/ Serve \/ Message \/ ServerGone \/ UNCHANGED vars
  PROVE  WakeInv'
<1>1. UNCHANGED <<threads, isReceiving>>
  BY DEF Exit, Serve, Message, ServerGone, vars
<1> QED BY <1>1 DEF WakeInv, HoldsMutex, EntersReceiving, NoLostWakeup, threads

(* pthread_cond_signal after the mutex was given up loses no wake-up: in   *)
(* every state of every instance, a send_thread that sleeps although its   *)
(* packet is handled has the signal still to come.                         *)
THEOREM Wakeup == Spec => []NoLostWakeup
<1>1. WakeInv /\ [Next]_vars => WakeInv'
  BY SendThreadWake, RecvThreadWake, PeerWake DEF Next
<1>2. WakeInv => NoLostWakeup
  BY DEF WakeInv
<1> QED BY InitWake, <1>1, <1>2, PTL DEF Spec
-----------------------------------------------------------------------------
(* A packet names a channel of the server, or none.                        *)
LEMMA PacketIds ==
  ASSUME NEW p \in Packets
  PROVE  /\ p.id \in ChanIds \cup {0}
         /\ p.code \in {"create", "join"} => p.id \in ChanIds
         /\ p.code = "leave" => p.id = 0
BY DEF Packets, Packet

LEMMA AnswersArePackets ==
  ASSUME NEW request \in Lines, request.cmd \in Answered, NEW p \in Answers(request)
  PROVE  p \in Packets
<1>1. request.cmd = "join" => request.id \in ChanIds
  BY DEF Lines, Texts, Line
<1>2. CASE request.cmd = "getUsers"
  BY <1>2 DEF Answers, Packets
<1>3. CASE request.cmd = "create"
  BY <1>3 DEF Answers, Packets
<1>4. CASE request.cmd = "join"
  BY <1>1, <1>4 DEF Answers, Packets
<1>5. CASE request.cmd = "leave"
  BY <1>5 DEF Answers, Packets
<1> QED BY <1>2, <1>3, <1>4, <1>5 DEF Answered

(* What the prompt shows after a packet is a byte.                         *)
LEMMA ShownIsByte ==
  ASSUME NEW p \in Packets, channel \in Nat, channel < 256, NEW c \in Shown(p)
  PROVE  c \in Nat /\ c < 256
<1>1. CASE p.code \in {"create", "join"}
  <2>1. c \in ReadId(p.id)
    BY <1>1 DEF Shown
  <2>2. p.id \in ChanIds
    BY <1>1, PacketIds
  <2>3. p.id \in Nat
    BY <2>2, ConstantsAssumption
  <2>4. CASE p.id % 256 = 0
    BY <2>1, <2>4, ConstantsAssumption DEF ReadId
  <2>5. CASE p.id % 256 # 0
    BY <2>1, <2>3, <2>5 DEF ReadId
  <2> QED BY <2>4, <2>5
<1>2. CASE p.code = "leave"
  BY <1>2 DEF Shown
<1>3. CASE p.code \notin {"create", "join", "leave"}
  BY <1>3 DEF Shown
<1> QED BY <1>1, <1>2, <1>3

(* A read takes a prefix of the stream and leaves the rest of it.          *)
LEMMA PrefixAndRest ==
  ASSUME NEW S, NEW s \in Seq(S), NEW n \in 1 .. Len(s)
  PROVE  /\ SubSeq(s, 1, n) \in Seq(S) /\ Len(SubSeq(s, 1, n)) = n
         /\ \A i \in 1 .. n : SubSeq(s, 1, n)[i] = s[i]
         /\ SubSeq(s, n + 1, Len(s)) \in Seq(S) /\ Len(SubSeq(s, n + 1, Len(s))) = Len(s) - n
         /\ \A i \in 1 .. Len(s) - n : SubSeq(s, n + 1, Len(s))[i] = s[n + i]
<1>1. Len(s) \in Nat /\ \A i \in 1 .. Len(s) : s[i] \in S
  OBVIOUS
<1>2. /\ SubSeq(s, 1, n) \in Seq(S) /\ Len(SubSeq(s, 1, n)) = n
      /\ \A i \in 1 .. n : SubSeq(s, 1, n)[i] = s[i]
  BY <1>1, SubSeqProperties
<1>3. /\ SubSeq(s, n + 1, Len(s)) \in Seq(S) /\ Len(SubSeq(s, n + 1, Len(s))) = Len(s) - n
      /\ \A i \in 1 .. Len(s) - n : SubSeq(s, n + 1, Len(s))[i] = s[n + i]
  BY <1>1, SubSeqProperties
<1> QED BY <1>2, <1>3

(* The line is one that parse_cmd_input returned while a command of it is  *)
(* under way.                                                              *)
ShapeInv == TypeOK /\ (sender = "locked" => line \in Lines)

LEMMA InitShape == Init => ShapeInv
<1> SUFFICES ASSUME Init PROVE ShapeInv
  OBVIOUS
<1>1. toServer \in Seq(Lines) /\ toClient \in Seq(Packets) /\ batch \in Seq(Packets)
  BY DEF Init
<1>2. isReceiving \in BOOLEAN /\ loggedIn \in BOOLEAN /\ hasMsg \in BOOLEAN /\ early \in BOOLEAN
  BY DEF Init
<1>3. channel \in Nat /\ channel < 256
  BY DEF Init
<1>4. /\ sender = "prompt" /\ receiver = "top" /\ mutex = "free" /\ line = NoLine
      /\ status = "running" /\ peer = "up" /\ told = 0
  BY DEF Init
<1> QED BY ONLY <1>1, <1>2, <1>3, <1>4 DEF ShapeInv, TypeOK

LEMMA SendThreadShape ==
  ASSUME ShapeInv, Prompt \/ Unparsable \/ SendThread \/ Spurious
  PROVE  ShapeInv'
<1> USE DEF ShapeInv, TypeOK, stream, user
<1>1. CASE Prompt
  BY <1>1 DEF Prompt
<1>2. CASE Command
  <2>1. line \in Lines
    BY <1>2 DEF Command
  <2>2. Append(toServer, line) \in Seq(Lines)
    BY <2>1
  <2>3. toServer' \in {toServer, Append(toServer, line)} /\ status' \in {status, "running", "fault", "killed"}
    BY <1>2 DEF Command, Transmit
  <2>6. toServer' \in Seq(Lines) /\ status' \in {"running", "fault", "killed", "exited"}
    BY <2>2, <2>3
  <2>4. isReceiving' \in BOOLEAN /\ loggedIn' \in BOOLEAN /\ hasMsg' \in BOOLEAN
    BY <1>2 DEF Command, Awaits
  <2>5. sender' \in {"locked", "test"} /\ line' = line
        /\ UNCHANGED <<receiver, mutex, channel, batch, toClient, peer, told, early>>
    BY <1>2 DEF Command
  <2> QED BY <2>1, <2>4, <2>5, <2>6
<1>3. CASE Text
  <2>1. Line("text", 0) \in Lines
    BY DEF Lines, Texts
  <2>2. Append(toServer, Line("text", 0)) \in Seq(Lines)
    BY <2>1
  <2>3. /\ toServer' \in {toServer, Append(toServer, Line("text", 0))}
        /\ status' \in {status, "running", "killed", "fault"}
    BY <1>3 DEF Text, Transmit
  <2>4. toServer' \in Seq(Lines) /\ status' \in {"running", "fault", "killed", "exited"}
    BY <2>2, <2>3
  <2>5. /\ \/ sender' = "prompt" /\ mutex' = "free" /\ line' = NoLine /\ hasMsg' = TRUE
           \/ UNCHANGED <<sender, mutex, line, hasMsg>>
        /\ UNCHANGED <<receiver, isReceiving, loggedIn, channel, batch, toClient, peer, told, early>>
    BY <1>3 DEF Text
  <2>6. CASE sender' = "prompt" /\ mutex' = "free" /\ line' = NoLine /\ hasMsg' = TRUE
    BY ONLY ShapeInv, <2>4, <2>5, <2>6 DEF ShapeInv, TypeOK
  <2>7. CASE UNCHANGED <<sender, mutex, line, hasMsg>>
    BY ONLY ShapeInv, <2>4, <2>5, <2>7 DEF ShapeInv, TypeOK
  <2> QED BY <2>5, <2>6, <2>7
<1>4. CASE Test
  BY <1>4 DEF Test
<1>5. CASE Wait
  BY <1>5 DEF Wait
<1>6. CASE Reacquire
  BY <1>6 DEF Reacquire
<1>7. CASE Spurious
  BY <1>7 DEF Spurious
<1>8. CASE Unparsable
  BY <1>8 DEF Unparsable, threads
<1> QED BY <1>1, <1>2, <1>3, <1>4, <1>5, <1>6, <1>7, <1>8 DEF SendThread

LEMMA RecvThreadShape ==
  ASSUME ShapeInv, RecvThread
  PROVE  ShapeInv'
<1> USE DEF ShapeInv, TypeOK, stream, user
<1>1. CASE Top
  BY <1>1 DEF Top
<1>2. CASE Recv
  <2>1. CASE toClient = <<>> /\ receiver' = "top" /\ UNCHANGED <<batch, toClient>>
    BY <1>2, <2>1 DEF Recv
  <2>2. ASSUME NEW n \in 1 .. Len(toClient),
               batch' = SubSeq(toClient, 1, n),
               toClient' = SubSeq(toClient, n + 1, Len(toClient)),
               receiver' = "lock"
        PROVE  ShapeInv'
    <3>1. toClient \in Seq(Packets)
      BY DEF Packets
    <3>2. batch' \in Seq(Packets) /\ Len(batch') = n /\ toClient' \in Seq(Packets)
      BY <2>2, <3>1, PrefixAndRest
    <3>3. batch' # <<>>
      BY <3>2
    <3>4. receiver' = "lock" /\ UNCHANGED <<sender, mutex, isReceiving, user, toServer, peer, told, early>>
      BY <1>2, <2>2 DEF Recv
    <3> QED BY ONLY ShapeInv, <3>2, <3>3, <3>4
  <2> QED BY <1>2, <2>1, <2>2 DEF Recv
<1>3. CASE Handle
  <2>1. Head(batch) \in Packets
    BY <1>3 DEF Handle
  <2>2. channel' \in Nat /\ channel' < 256
    BY <1>3, <2>1, ShownIsByte DEF Handle
  <2>3. isReceiving' \in BOOLEAN /\ early' \in BOOLEAN
    BY <1>3, Zenon DEF Handle
  <2>4. told' \in ChanIds \cup {0}
    BY <1>3 DEF Handle
  <2>5. batch' \in Seq(Packets)
    BY <1>3 DEF Handle
  <2>6. receiver' = "signal" /\ UNCHANGED <<sender, mutex, line, loggedIn, hasMsg, status, stream>>
    BY <1>3 DEF Handle, AfterPacket
  <2> QED BY ONLY ShapeInv, <2>2, <2>3, <2>4, <2>5, <2>6
<1>4. CASE Signal
  BY <1>4 DEF Signal
<1> QED BY <1>1, <1>2, <1>3, <1>4 DEF RecvThread

LEMMA PeerShape ==
  ASSUME ShapeInv, Exit \/ Serve \/ Message \/ ServerGone \/ UNCHANGED vars
  PROVE  ShapeInv'
<1> USE DEF ShapeInv, TypeOK, stream, user, threads
<1>1. CASE Exit
  BY <1>1 DEF Exit
<1>2. CASE Serve
  <2> DEFINE request == Head(toServer)
  <2>1. PICK n \in 1 .. Len(toServer) : toServer' = SubSeq(toServer, n + 1, Len(toServer))
    BY <1>2 DEF Serve
  <2>2. toServer' \in Seq(Lines)
    BY <2>1, PrefixAndRest
  <2>3. request \in Lines
    BY <2>1
  <2>4. peer' \in {"up", "gone"}
    BY <1>2 DEF Serve
  <2>5. CASE toClient' = toClient /\ told' = told
    BY <1>2, <2>2, <2>4, <2>5 DEF Serve
  <2>6. ASSUME request.cmd \in Answered, NEW p \in Answers(request),
               toClient' = Append(toClient, p), told' \in {told, p.id}
        PROVE  ShapeInv'
    <3>1. p \in Packets
      BY <2>3, <2>6, AnswersArePackets
    <3>2. toClient' \in Seq(Packets)
      BY <2>6, <3>1
    <3>3. told' \in ChanIds \cup {0}
      BY <2>6, <3>1, PacketIds
    <3> QED BY <1>2, <2>2, <2>4, <3>2, <3>3 DEF Serve
  <2> QED BY <1>2, <2>5, <2>6 DEF Serve
<1>3. CASE Message
  <2>1. Append(toClient, Packet("message", 0)) \in Seq(Packets)
    BY DEF Packets
  <2> QED BY <1>3, <2>1 DEF Message
<1>4. CASE ServerGone
  <2>1. toServer' \in Seq(Lines) /\ toClient' \in Seq(Packets)
    <3>1. toServer' = <<>> /\ toClient' \in {toClient, <<>>}
      BY <1>4 DEF ServerGone
    <3>2. <<>> \in Seq(Lines) /\ <<>> \in Seq(Packets) /\ toClient \in Seq(Packets)
      OBVIOUS
    <3> QED BY ONLY <3>1, <3>2
  <2>2. peer' = "gone" /\ UNCHANGED <<threads, isReceiving, user, batch, told, early>>
    BY <1>4 DEF ServerGone
  <2> QED BY ONLY ShapeInv, <2>1, <2>2
<1>5. CASE UNCHANGED vars
  BY <1>5 DEF vars
<1> QED BY <1>1, <1>2, <1>3, <1>4, <1>5

(* Every variable keeps its shape: a batch is only handled when recv has   *)
(* returned something, and what the prompt shows is always one byte.       *)
THEOREM Typing == Spec => []TypeOK
<1>1. ShapeInv /\ [Next]_vars => ShapeInv'
  BY SendThreadShape, RecvThreadShape, PeerShape DEF Next
<1>2. ShapeInv => TypeOK
  BY DEF ShapeInv
<1> QED BY InitShape, <1>1, <1>2, PTL DEF Spec
-----------------------------------------------------------------------------
(* Owed, of any three streams.                                             *)
OwedIn(ts, tc, b) ==
  ({"toServer"} \X {i \in DOMAIN ts : GetsAnswer(ts[i])})
  \cup ({"toClient"} \X {i \in DOMAIN tc : IsAnswer(tc[i])})
  \cup ({"batch"} \X {i \in DOMAIN b : IsAnswer(b[i])})

AtMostOne(S) == \A x, y \in S : x = y

LEMMA OwedPlaces ==
  ASSUME NEW ts, NEW tc, NEW b
  PROVE  /\ \A i \in DOMAIN ts : GetsAnswer(ts[i]) => <<"toServer", i>> \in OwedIn(ts, tc, b)
         /\ \A i \in DOMAIN tc : IsAnswer(tc[i]) => <<"toClient", i>> \in OwedIn(ts, tc, b)
         /\ \A i \in DOMAIN b : IsAnswer(b[i]) => <<"batch", i>> \in OwedIn(ts, tc, b)
         /\ \A x \in OwedIn(ts, tc, b) :
              \/ \E i \in DOMAIN ts : GetsAnswer(ts[i]) /\ x = <<"toServer", i>>
              \/ \E i \in DOMAIN tc : IsAnswer(tc[i]) /\ x = <<"toClient", i>>
              \/ \E i \in DOMAIN b : IsAnswer(b[i]) /\ x = <<"batch", i>>
<1> HIDE DEF GetsAnswer, IsAnswer
<1> QED BY DEF OwedIn

(* A request sent when nothing is owed is the one answer that is.          *)
LEMMA RequestOwed ==
  ASSUME NEW ts \in Seq(Lines), NEW tc, NEW b, NEW l \in Lines, OwedIn(ts, tc, b) = {}
  PROVE  /\ OwedIn(Append(ts, l), tc, b) \subseteq {<<"toServer", Len(ts) + 1>>}
         /\ ~ GetsAnswer(l) => OwedIn(Append(ts, l), tc, b) = {}
<1> DEFINE t == Append(ts, l)
<1>1. /\ DOMAIN t = 1 .. Len(ts) + 1 /\ DOMAIN ts = 1 .. Len(ts) /\ Len(ts) \in Nat
      /\ t[Len(ts) + 1] = l /\ \A i \in 1 .. Len(ts) : t[i] = ts[i]
  BY AppendProperties
<1> HIDE DEF t
<1>2. /\ \A i \in DOMAIN ts : ~ GetsAnswer(ts[i])
      /\ \A i \in DOMAIN tc : ~ IsAnswer(tc[i])
      /\ \A i \in DOMAIN b : ~ IsAnswer(b[i])
  BY OwedPlaces
<1>3. \A i \in DOMAIN t : GetsAnswer(t[i]) => i = Len(ts) + 1 /\ GetsAnswer(l)
  <2> SUFFICES ASSUME NEW i \in DOMAIN t, GetsAnswer(t[i])
               PROVE  i = Len(ts) + 1 /\ GetsAnswer(l)
    OBVIOUS
  <2>1. i # Len(ts) + 1 => i \in DOMAIN ts /\ t[i] = ts[i]
    BY <1>1
  <2> QED BY <1>1, <1>2, <2>1
<1>4. \A x \in OwedIn(t, tc, b) : x = <<"toServer", Len(ts) + 1>> /\ GetsAnswer(l)
  <2> SUFFICES ASSUME NEW x \in OwedIn(t, tc, b)
               PROVE  x = <<"toServer", Len(ts) + 1>> /\ GetsAnswer(l)
    OBVIOUS
  <2>0. \/ \E i \in DOMAIN t : GetsAnswer(t[i]) /\ x = <<"toServer", i>>
        \/ \E i \in DOMAIN tc : IsAnswer(tc[i]) /\ x = <<"toClient", i>>
        \/ \E i \in DOMAIN b : IsAnswer(b[i]) /\ x = <<"batch", i>>
    BY OwedPlaces
  <2>1. \E i \in DOMAIN t : GetsAnswer(t[i]) /\ x = <<"toServer", i>>
    BY ONLY <1>2, <2>0, Zenon
  <2> QED BY <1>3, <2>1, Zenon
<1> QED BY <1>4 DEF t

(* A message is not an answer.                                             *)
LEMMA MessageNotOwed ==
  ASSUME NEW ts, NEW tc \in Seq(Packets), NEW b, NEW p \in Packets, ~ IsAnswer(p)
  PROVE  OwedIn(ts, Append(tc, p), b) = OwedIn(ts, tc, b)
<1> DEFINE t == Append(tc, p)
<1>1. /\ DOMAIN t = 1 .. Len(tc) + 1 /\ DOMAIN tc = 1 .. Len(tc) /\ Len(tc) \in Nat
      /\ t[Len(tc) + 1] = p /\ \A i \in 1 .. Len(tc) : t[i] = tc[i]
  BY AppendProperties
<1> HIDE DEF t
<1>2. ASSUME NEW i \in DOMAIN t, IsAnswer(t[i]) PROVE i \in DOMAIN tc /\ IsAnswer(tc[i])
  <2>1. i # Len(tc) + 1
    BY <1>1, <1>2
  <2> QED BY <1>1, <1>2, <2>1
<1>3. ASSUME NEW i \in DOMAIN tc, IsAnswer(tc[i]) PROVE i \in DOMAIN t /\ IsAnswer(t[i])
  BY <1>1, <1>3
<1>4. {i \in DOMAIN t : IsAnswer(t[i])} = {i \in DOMAIN tc : IsAnswer(tc[i])}
  BY <1>2, <1>3
<1>5. OwedIn(ts, t, b) = OwedIn(ts, tc, b)
  BY <1>4, Zenon DEF OwedIn
<1> QED BY <1>5 DEF t

(* A read moves what is owed from the stream to the batch.                 *)
LEMMA ReadMovesOwed ==
  ASSUME NEW ts, NEW tc \in Seq(Packets), NEW n \in 1 .. Len(tc),
         AtMostOne(OwedIn(ts, tc, <<>>))
  PROVE  LET rest == SubSeq(tc, n + 1, Len(tc))
             read == SubSeq(tc, 1, n)
         IN  /\ AtMostOne(OwedIn(ts, rest, read))
             /\ OwedIn(ts, tc, <<>>) = {} => OwedIn(ts, rest, read) = {}
<1> DEFINE rest == SubSeq(tc, n + 1, Len(tc))
           read == SubSeq(tc, 1, n)
           before == OwedIn(ts, tc, <<>>)
           after == OwedIn(ts, rest, read)
           Back(x, y) ==
             \/ \E i \in DOMAIN ts : x = <<"toServer", i>> /\ y[1] = "toServer" /\ y[2] = i
             \/ \E i \in DOMAIN rest : x = <<"toClient", i>> /\ y[1] = "toClient" /\ y[2] = n + i
             \/ \E i \in DOMAIN read : x = <<"batch", i>> /\ y[1] = "toClient" /\ y[2] = i
<1>1. /\ DOMAIN tc = 1 .. Len(tc) /\ Len(tc) \in Nat /\ n \in Nat
      /\ DOMAIN read = 1 .. n /\ \A i \in 1 .. n : read[i] = tc[i]
      /\ DOMAIN rest = 1 .. Len(tc) - n /\ \A i \in 1 .. Len(tc) - n : rest[i] = tc[n + i]
  BY PrefixAndRest
<1> HIDE DEF rest, read
<1>2. ASSUME NEW x \in after PROVE \E y \in before : Back(x, y)
  <2>1. CASE \E i \in DOMAIN ts : GetsAnswer(ts[i]) /\ x = <<"toServer", i>>
    <3>1. PICK i \in DOMAIN ts : GetsAnswer(ts[i]) /\ x = <<"toServer", i>>
      BY <2>1
    <3>2. <<"toServer", i>> \in before
      BY <3>1, OwedPlaces, Zenon
    <3>3. <<"toServer", i>>[1] = "toServer" /\ <<"toServer", i>>[2] = i
      OBVIOUS
    <3> QED BY <3>1, <3>2, <3>3, Zenon
  <2>2. ASSUME NEW i \in DOMAIN rest, IsAnswer(rest[i]), x = <<"toClient", i>>
        PROVE  \E y \in before : Back(x, y)
    <3>1. n + i \in DOMAIN tc /\ rest[i] = tc[n + i]
      BY <1>1
    <3>2. <<"toClient", n + i>> \in before
      BY <2>2, <3>1, OwedPlaces, Zenon
    <3>3. <<"toClient", n + i>>[1] = "toClient" /\ <<"toClient", n + i>>[2] = n + i
      OBVIOUS
    <3> QED BY <2>2, <3>2, <3>3, Zenon
  <2>3. ASSUME NEW i \in DOMAIN read, IsAnswer(read[i]), x = <<"batch", i>>
        PROVE  \E y \in before : Back(x, y)
    <3>1. i \in DOMAIN tc /\ read[i] = tc[i]
      BY <1>1
    <3>2. <<"toClient", i>> \in before
      BY <2>3, <3>1, OwedPlaces, Zenon
    <3>3. <<"toClient", i>>[1] = "toClient" /\ <<"toClient", i>>[2] = i
      OBVIOUS
    <3> QED BY <2>3, <3>2, <3>3, Zenon
  <2>4. \/ \E i \in DOMAIN ts : GetsAnswer(ts[i]) /\ x = <<"toServer", i>>
        \/ \E i \in DOMAIN rest : IsAnswer(rest[i]) /\ x = <<"toClient", i>>
        \/ \E i \in DOMAIN read : IsAnswer(read[i]) /\ x = <<"batch", i>>
    BY <1>2, OwedPlaces
  <2> HIDE DEF Back, before, after
  <2> QED BY <2>1, <2>2, <2>3, <2>4, Zenon
<1>3. ASSUME NEW x \in after, NEW z \in after PROVE x = z
  <2>1. PICK y \in before : Back(x, y)
    BY <1>2
  <2>2. PICK w \in before : Back(z, w)
    BY <1>2
  <2>3. y = w
    BY <2>1, <2>2 DEF AtMostOne
  <2> HIDE DEF before, after
  <2> DEFINE place == IF y[1] = "toServer" THEN <<"toServer", y[2]>>
                     ELSE IF y[2] > n THEN <<"toClient", y[2] - n>> ELSE <<"batch", y[2]>>
  <2>4. x = place
    BY ONLY <1>1, <2>1
  <2>5. z = place
    BY ONLY <1>1, <2>2, <2>3
  <2> QED BY ONLY <2>4, <2>5
<1>4. before = {} => after = {}
  BY <1>2
<1> HIDE DEF before, after
<1>5. AtMostOne(after)
  BY <1>3 DEF AtMostOne
<1> QED BY <1>4, <1>5 DEF rest, read, before, after

(* The requests the server reads are no longer owed; if the first of them  *)
(* gets an answer, that answer is all that is owed after it.               *)
LEMMA ServedOwed ==
  ASSUME NEW ts \in Seq(Lines), NEW tc \in Seq(Packets), NEW b, NEW n \in 1 .. Len(ts),
         AtMostOne(OwedIn(ts, tc, b))
  PROVE  LET rest == SubSeq(ts, n + 1, Len(ts))
         IN  /\ AtMostOne(OwedIn(rest, tc, b))
             /\ OwedIn(ts, tc, b) = {} => OwedIn(rest, tc, b) = {}
             /\ GetsAnswer(ts[1]) =>
                  /\ OwedIn(ts, tc, b) # {}
                  /\ \A i \in DOMAIN tc : ~ IsAnswer(tc[i])
                  /\ \A i \in DOMAIN b : ~ IsAnswer(b[i])
                  /\ OwedIn(rest, tc, b) = {}
<1> DEFINE rest == SubSeq(ts, n + 1, Len(ts))
           before == OwedIn(ts, tc, b)
           after == OwedIn(rest, tc, b)
           Back(x, y) ==
             \/ \E i \in DOMAIN rest : x = <<"toServer", i>> /\ y[1] = "toServer" /\ y[2] = n + i
             \/ \E i \in DOMAIN tc : x = <<"toClient", i>> /\ y[1] = "toClient" /\ y[2] = i
             \/ \E i \in DOMAIN b : x = <<"batch", i>> /\ y[1] = "batch" /\ y[2] = i
<1>1. /\ DOMAIN ts = 1 .. Len(ts) /\ Len(ts) \in Nat /\ n \in Nat /\ n >= 1
      /\ DOMAIN rest = 1 .. Len(ts) - n /\ \A i \in 1 .. Len(ts) - n : rest[i] = ts[n + i]
  BY PrefixAndRest
<1> HIDE DEF rest
<1>2. ASSUME NEW x \in after PROVE \E y \in before : Back(x, y)
  <2>1. ASSUME NEW i \in DOMAIN rest, GetsAnswer(rest[i]), x = <<"toServer", i>>
        PROVE  \E y \in before : Back(x, y)
    <3>1. n + i \in DOMAIN ts /\ rest[i] = ts[n + i]
      BY <1>1
    <3>2. <<"toServer", n + i>> \in before
      BY <2>1, <3>1, OwedPlaces, Zenon
    <3>3. <<"toServer", n + i>>[1] = "toServer" /\ <<"toServer", n + i>>[2] = n + i
      OBVIOUS
    <3> QED BY <2>1, <3>2, <3>3, Zenon
  <2>2. ASSUME NEW i \in DOMAIN tc, IsAnswer(tc[i]), x = <<"toClient", i>>
        PROVE  \E y \in before : Back(x, y)
    <3>1. <<"toClient", i>> \in before
      BY <2>2, OwedPlaces, Zenon
    <3>2. <<"toClient", i>>[1] = "toClient" /\ <<"toClient", i>>[2] = i
      OBVIOUS
    <3> QED BY <2>2, <3>1, <3>2, Zenon
  <2>3. ASSUME NEW i \in DOMAIN b, IsAnswer(b[i]), x = <<"batch", i>>
        PROVE  \E y \in before : Back(x, y)
    <3>1. <<"batch", i>> \in before
      BY <2>3, OwedPlaces, Zenon
    <3>2. <<"batch", i>>[1] = "batch" /\ <<"batch", i>>[2] = i
      OBVIOUS
    <3> QED BY <2>3, <3>1, <3>2, Zenon
  <2>4. \/ \E i \in DOMAIN rest : GetsAnswer(rest[i]) /\ x = <<"toServer", i>>
        \/ \E i \in DOMAIN tc : IsAnswer(tc[i]) /\ x = <<"toClient", i>>
        \/ \E i \in DOMAIN b : IsAnswer(b[i]) /\ x = <<"batch", i>>
    BY <1>2, OwedPlaces
  <2> HIDE DEF Back, before, after
  <2> QED BY <2>1, <2>2, <2>3, <2>4, Zenon
<1>3. ASSUME NEW x \in after, NEW z \in after PROVE x = z
  <2>1. PICK y \in before : Back(x, y)
    BY <1>2
  <2>2. PICK w \in before : Back(z, w)
    BY <1>2
  <2>3. y = w
    BY <2>1, <2>2 DEF AtMostOne
  <2> HIDE DEF before, after
  <2> DEFINE place == IF y[1] = "toServer" THEN <<"toServer", y[2] - n>>
                     ELSE IF y[1] = "batch" THEN <<"batch", y[2]>> ELSE <<"toClient", y[2]>>
  <2>4. x = place
    BY ONLY <1>1, <2>1
  <2>5. z = place
    BY ONLY <1>1, <2>2, <2>3
  <2> QED BY ONLY <2>4, <2>5
<1>4. before = {} => after = {}
  BY <1>2
<1>5. ASSUME GetsAnswer(ts[1])
      PROVE  /\ before # {}
             /\ \A i \in DOMAIN tc : ~ IsAnswer(tc[i])
             /\ \A i \in DOMAIN b : ~ IsAnswer(b[i])
             /\ after = {}
  <2>1. <<"toServer", 1>> \in before
    BY <1>1, <1>5, OwedPlaces
  <2>2. \A y \in before : y[1] = "toServer" /\ y[2] = 1
    <3>1. <<"toServer", 1>>[1] = "toServer" /\ <<"toServer", 1>>[2] = 1
      OBVIOUS
    <3>2. \A y \in before : y = <<"toServer", 1>>
      BY <2>1 DEF AtMostOne
    <3> QED BY ONLY <3>1, <3>2, Zenon
  <2>3. \A i \in DOMAIN tc : ~ IsAnswer(tc[i])
    <3> SUFFICES ASSUME NEW i \in DOMAIN tc, IsAnswer(tc[i]) PROVE FALSE
      OBVIOUS
    <3>1. <<"toClient", i>> \in before
      BY OwedPlaces
    <3>2. <<"toClient", i>>[1] = "toServer"
      BY <2>2, <3>1, Zenon
    <3> QED BY ONLY <3>2
  <2>4. \A i \in DOMAIN b : ~ IsAnswer(b[i])
    <3> SUFFICES ASSUME NEW i \in DOMAIN b, IsAnswer(b[i]) PROVE FALSE
      OBVIOUS
    <3>1. <<"batch", i>> \in before
      BY OwedPlaces
    <3>2. <<"batch", i>>[1] = "toServer"
      BY <2>2, <3>1, Zenon
    <3> QED BY ONLY <3>2
  <2>5. ASSUME NEW x \in after PROVE FALSE
    <3>1. PICK y \in before : Back(x, y)
      BY <1>2
    <3>2. y[1] = "toServer" /\ y[2] = 1
      BY <2>2
    <3> HIDE DEF before, after
    <3> QED BY ONLY <1>1, <3>1, <3>2
  <2> QED BY <2>1, <2>3, <2>4, <2>5
<1> HIDE DEF before, after
<1>6. AtMostOne(after)
  BY <1>3 DEF AtMostOne
<1> QED BY <1>4, <1>5, <1>6 DEF rest, before, after

(* When the packet handled is the answer, or nothing was owed, nothing is  *)
(* owed after it, and no other packet of the batch was an answer.          *)
LEMMA HandledOwed ==
  ASSUME NEW ts, NEW tc, NEW b \in Seq(Packets), b # <<>>,
         AtMostOne(OwedIn(ts, tc, b)), IsAnswer(b[1]) \/ OwedIn(ts, tc, b) = {}
  PROVE  /\ OwedIn(ts, tc, <<>>) = {}
         /\ \A i \in DOMAIN b : IsAnswer(b[i]) => i = 1
<1> DEFINE before == OwedIn(ts, tc, b)
           empty == <<>>
<1>0. DOMAIN b = 1 .. Len(b) /\ 1 \in DOMAIN b
  OBVIOUS
<1>1. DOMAIN empty = {}
  OBVIOUS
<1> HIDE DEF empty
<1>2. \A x \in before : x = <<"batch", 1>>
  <2>1. CASE IsAnswer(b[1])
    <3>1. <<"batch", 1>> \in before
      BY <1>0, <2>1, OwedPlaces, Zenon
    <3> QED BY <3>1 DEF AtMostOne
  <2>2. CASE before = {}
    BY <2>2
  <2> QED BY <2>1, <2>2
<1>3. \A x \in before : x[1] = "batch" /\ x[2] = 1
  <2>1. <<"batch", 1>>[1] = "batch" /\ <<"batch", 1>>[2] = 1
    OBVIOUS
  <2> QED BY ONLY <1>2, <2>1, Zenon
<1>4. ASSUME NEW i \in DOMAIN ts, GetsAnswer(ts[i]) PROVE FALSE
  <2>1. <<"toServer", i>> \in before
    BY <1>4, OwedPlaces
  <2>2. <<"toServer", i>>[1] = "batch"
    BY <1>3, <2>1, Zenon
  <2> QED BY ONLY <2>2
<1>5. ASSUME NEW i \in DOMAIN tc, IsAnswer(tc[i]) PROVE FALSE
  <2>1. <<"toClient", i>> \in before
    BY <1>5, OwedPlaces
  <2>2. <<"toClient", i>>[1] = "batch"
    BY <1>3, <2>1, Zenon
  <2> QED BY ONLY <2>2
<1>6. ASSUME NEW i \in DOMAIN b, IsAnswer(b[i]) PROVE i = 1
  <2>1. <<"batch", i>> \in before
    BY <1>6, OwedPlaces
  <2>2. <<"batch", i>>[2] = 1
    BY <1>3, <2>1, Zenon
  <2> QED BY ONLY <2>2
<1>7. ASSUME NEW x \in OwedIn(ts, tc, empty) PROVE FALSE
  <2>1. \/ \E i \in DOMAIN ts : GetsAnswer(ts[i]) /\ x = <<"toServer", i>>
        \/ \E i \in DOMAIN tc : IsAnswer(tc[i]) /\ x = <<"toClient", i>>
        \/ \E i \in DOMAIN empty : IsAnswer(empty[i]) /\ x = <<"batch", i>>
    BY <1>7, OwedPlaces
  <2> QED BY <1>1, <1>4, <1>5, <2>1
<1> QED BY <1>6, <1>7 DEF empty

(* An answer written when nothing is owed is all that is owed.             *)
LEMMA AnswerOwed ==
  ASSUME NEW ts, NEW tc \in Seq(Packets), NEW b, NEW p \in Packets, OwedIn(ts, tc, b) = {}
  PROVE  AtMostOne(OwedIn(ts, Append(tc, p), b))
<1> DEFINE t == Append(tc, p)
<1>1. /\ DOMAIN t = 1 .. Len(tc) + 1 /\ DOMAIN tc = 1 .. Len(tc) /\ Len(tc) \in Nat
      /\ \A i \in 1 .. Len(tc) : t[i] = tc[i]
  BY AppendProperties
<1> HIDE DEF t
<1>2. /\ \A i \in DOMAIN ts : ~ GetsAnswer(ts[i])
      /\ \A i \in DOMAIN tc : ~ IsAnswer(tc[i])
      /\ \A i \in DOMAIN b : ~ IsAnswer(b[i])
  BY OwedPlaces
<1>3. \A i \in DOMAIN t : IsAnswer(t[i]) => i = Len(tc) + 1
  <2> SUFFICES ASSUME NEW i \in DOMAIN t, IsAnswer(t[i]), i # Len(tc) + 1 PROVE FALSE
    OBVIOUS
  <2>1. i \in DOMAIN tc /\ t[i] = tc[i]
    BY <1>1
  <2> QED BY <1>2, <2>1
<1>4. \A x \in OwedIn(ts, t, b) : x = <<"toClient", Len(tc) + 1>>
  <2> SUFFICES ASSUME NEW x \in OwedIn(ts, t, b)
               PROVE  x = <<"toClient", Len(tc) + 1>>
    OBVIOUS
  <2>1. \/ \E i \in DOMAIN ts : GetsAnswer(ts[i]) /\ x = <<"toServer", i>>
        \/ \E i \in DOMAIN t : IsAnswer(t[i]) /\ x = <<"toClient", i>>
        \/ \E i \in DOMAIN b : IsAnswer(b[i]) /\ x = <<"batch", i>>
    BY OwedPlaces
  <2> QED BY ONLY <1>2, <1>3, <2>1, Zenon
<1> QED BY <1>4 DEF AtMostOne, t

-----------------------------------------------------------------------------
(* Until a message was taken for an answer: the user waits for the one     *)
(* answer that is owed; a packet on its way that gives a channel gives the *)
(* one the server told last; and without such a packet the prompt shows    *)
(* that channel already, as far as one byte can tell.                      *)
GivesChannel(p) == p.code \in {"create", "join", "leave"}
GiveTold(s, t) == \A i \in DOMAIN s : GivesChannel(s[i]) => s[i].id = t
GiveNone(s) == \A i \in DOMAIN s : ~ GivesChannel(s[i])
InByte(t) == t = 0 \/ t % 256 # 0

OneAnswer == AtMostOne(Owed) /\ (Owed # {} => isReceiving)
ToldLast == GiveTold(toClient, told) /\ GiveTold(batch, told)
ShowsTold ==
  peer = "up" /\ InByte(told) /\ GiveNone(toClient) /\ GiveNone(batch)
    => channel = told % 256
InStep == OneAnswer /\ ToldLast /\ ShowsTold

(* The prompt is there, or a line just read, only when nothing is awaited; *)
(* and a batch is kept from recv to the handler only.                      *)
IdleSender == sender \in {"prompt", "locked", "done"} => ~ isReceiving
BatchTaken == receiver # "lock" => batch = <<>>

StepInv == ShapeInv /\ IdleSender /\ BatchTaken /\ (~ early => InStep)

LEMMA OwedNow == Owed = OwedIn(toServer, toClient, batch)
BY Zenon DEF Owed, OwedIn

LEMMA OwedNext == Owed' = OwedIn(toServer', toClient', batch')
BY Zenon DEF Owed, OwedIn

LEMMA InitStep == Init => StepInv
<1> SUFFICES ASSUME Init PROVE StepInv
  OBVIOUS
<1>1. ShapeInv
  BY InitShape
<1>2. toServer = <<>> /\ toClient = <<>> /\ batch = <<>> /\ told = 0 /\ channel = 0
      /\ ~ isReceiving
  BY DEF Init
<1> DEFINE empty == <<>>
<1>3. DOMAIN empty = {}
  OBVIOUS
<1> HIDE DEF empty
<1>4. Owed = {}
  <2> SUFFICES ASSUME NEW x \in Owed PROVE FALSE
    OBVIOUS
  <2>1. x \in OwedIn(empty, empty, empty)
    BY <1>2, OwedNow DEF empty
  <2>2. \/ \E i \in DOMAIN empty : GetsAnswer(empty[i]) /\ x = <<"toServer", i>>
        \/ \E i \in DOMAIN empty : IsAnswer(empty[i]) /\ x = <<"toClient", i>>
        \/ \E i \in DOMAIN empty : IsAnswer(empty[i]) /\ x = <<"batch", i>>
    BY <2>1, OwedPlaces
  <2> QED BY <1>3, <2>2
<1>5. OneAnswer
  BY <1>4 DEF OneAnswer, AtMostOne
<1>6. ToldLast
  BY <1>2 DEF ToldLast, GiveTold
<1>7. ShowsTold
  BY <1>2 DEF ShowsTold
<1> QED BY <1>1, <1>2, <1>5, <1>6, <1>7 DEF StepInv, InStep, IdleSender, BatchTaken

(* A step that leaves the packets, the flag and the channel alone.         *)
LEMMA InStepKept ==
  ASSUME ~ early => InStep,
         UNCHANGED <<toServer, toClient, batch, isReceiving, told, early, channel, peer>>
  PROVE  (~ early => InStep)'
<1>1. Owed' = Owed
  BY OwedNow, OwedNext
<1> QED BY <1>1 DEF InStep, OneAnswer, ToldLast, ShowsTold

(* A command is sent when nothing is owed, and is_receiving is set when it *)
(* gets an answer.                                                         *)
LEMMA CommandStep ==
  ASSUME StepInv, Command
  PROVE  StepInv'
<1>1. ShapeInv'
  BY SendThreadShape DEF StepInv, SendThread
<1>2. /\ sender = "locked" /\ line \in Lines /\ toServer \in Seq(Lines) /\ ~ isReceiving
      /\ UNCHANGED <<receiver, batch, toClient, peer, told, early, channel>>
  BY DEF Command, StepInv, ShapeInv, TypeOK, IdleSender
<1>3. CASE toServer' = toServer /\ isReceiving' = isReceiving /\ sender' = sender
  BY <1>1, <1>2, <1>3, InStepKept DEF StepInv, IdleSender, BatchTaken
<1>4. CASE /\ sender' = "test"
           /\ isReceiving' = Awaits(line.cmd)
           /\ toServer' \in {toServer, Append(toServer, line)}
  <2> SUFFICES ASSUME ~ early PROVE InStep'
    BY <1>1, <1>2, <1>4 DEF StepInv, IdleSender, BatchTaken
  <2>1. OwedIn(toServer, toClient, batch) = {}
    BY <1>2, OwedNow DEF StepInv, InStep, OneAnswer
  <2>2. /\ OwedIn(Append(toServer, line), toClient, batch) \subseteq {<<"toServer", Len(toServer) + 1>>}
        /\ ~ GetsAnswer(line) => OwedIn(Append(toServer, line), toClient, batch) = {}
    BY <1>2, <2>1, RequestOwed
  <2>3. Owed' = OwedIn(toServer', toClient, batch)
    BY <1>2, OwedNext
  <2>4. GetsAnswer(line) => isReceiving'
    BY <1>4 DEF GetsAnswer, Answered, Awaits
  <2>5. AtMostOne(Owed') /\ (Owed' # {} => GetsAnswer(line))
    <3>1. CASE toServer' = toServer
      BY <2>1, <2>3, <3>1 DEF AtMostOne
    <3>2. CASE toServer' = Append(toServer, line)
      <4>1. /\ Owed' \subseteq {<<"toServer", Len(toServer) + 1>>}
            /\ ~ GetsAnswer(line) => Owed' = {}
        BY ONLY <2>2, <2>3, <3>2
      <4> QED BY ONLY <4>1 DEF AtMostOne
    <3> QED BY <1>4, <3>1, <3>2
  <2> QED BY <1>2, <2>4, <2>5 DEF StepInv, InStep, OneAnswer, ToldLast, ShowsTold, AtMostOne
<1> QED BY <1>3, <1>4 DEF Command, Transmit

(* Chat text is sent without waiting: it gets no answer.                   *)
LEMMA TextStep ==
  ASSUME StepInv, Text
  PROVE  StepInv'
<1>1. ShapeInv'
  BY SendThreadShape DEF StepInv, SendThread
<1> DEFINE text == Line("text", 0)
<1>2. /\ sender = "locked" /\ text \in Lines /\ toServer \in Seq(Lines) /\ ~ isReceiving
      /\ ~ GetsAnswer(text)
      /\ toServer' \in {toServer, Append(toServer, text)}
      /\ UNCHANGED <<receiver, isReceiving, batch, toClient, peer, told, early, channel>>
  BY DEF Text, Texts, Lines, Line, Transmit, StepInv, ShapeInv, TypeOK, IdleSender, GetsAnswer, Answered
<1> HIDE DEF text
<1> SUFFICES ASSUME ~ early PROVE InStep'
  BY <1>1, <1>2 DEF StepInv, IdleSender, BatchTaken
<1>3. OwedIn(toServer, toClient, batch) = {}
  BY <1>2, OwedNow DEF StepInv, InStep, OneAnswer
<1>4. OwedIn(Append(toServer, text), toClient, batch) = {}
  BY <1>2, <1>3, RequestOwed
<1>5. Owed' = {}
  BY <1>2, <1>3, <1>4, OwedNext
<1> QED BY <1>2, <1>5 DEF StepInv, InStep, OneAnswer, ToldLast, ShowsTold, AtMostOne

(* The other steps of send_thread go to the prompt when nothing is awaited. *)
LEMMA SenderStep ==
  ASSUME StepInv, Prompt \/ Unparsable \/ Test \/ Wait \/ Reacquire \/ Spurious
  PROVE  StepInv'
<1>1. ShapeInv'
  BY SendThreadShape DEF StepInv, SendThread
<1>2. UNCHANGED <<receiver, toServer, toClient, batch, isReceiving, told, early, channel, peer>>
  BY DEF Prompt, Unparsable, Test, Wait, Reacquire, Spurious, threads, user, stream
<1>3. IdleSender'
  BY DEF Prompt, Unparsable, Test, Wait, Reacquire, Spurious, threads, StepInv, IdleSender
<1> QED BY <1>1, <1>2, <1>3, InStepKept DEF StepInv, BatchTaken

(* A read leaves what is on its way on its way.                            *)
LEMMA RecvStep ==
  ASSUME StepInv, Recv
  PROVE  StepInv'
<1>1. ShapeInv'
  BY RecvThreadShape DEF StepInv, RecvThread
<1>2. /\ receiver = "recv" /\ batch = <<>> /\ toClient \in Seq(Packets)
      /\ UNCHANGED <<sender, toServer, isReceiving, told, early, channel, peer>>
  BY DEF Recv, StepInv, ShapeInv, TypeOK, BatchTaken, user
<1>3. CASE UNCHANGED <<batch, toClient>>
  BY <1>1, <1>2, <1>3, InStepKept DEF StepInv, IdleSender, BatchTaken
<1>4. ASSUME NEW n \in 1 .. Len(toClient),
             batch' = SubSeq(toClient, 1, n),
             toClient' = SubSeq(toClient, n + 1, Len(toClient)),
             receiver' = "lock"
      PROVE  StepInv'
  <2> SUFFICES ASSUME ~ early PROVE InStep'
    BY <1>1, <1>2, <1>4 DEF StepInv, IdleSender, BatchTaken
  <2>1. /\ Len(toClient) \in Nat /\ n \in Nat /\ DOMAIN toClient = 1 .. Len(toClient)
        /\ DOMAIN batch' = 1 .. n /\ \A i \in 1 .. n : batch'[i] = toClient[i]
        /\ DOMAIN toClient' = 1 .. Len(toClient) - n
        /\ \A i \in 1 .. Len(toClient) - n : toClient'[i] = toClient[n + i]
    BY <1>2, <1>4, PrefixAndRest
  <2>2. AtMostOne(OwedIn(toServer, toClient, <<>>))
    BY <1>2, OwedNow DEF StepInv, InStep, OneAnswer
  <2>3. /\ AtMostOne(OwedIn(toServer, toClient', batch'))
        /\ OwedIn(toServer, toClient, <<>>) = {} => OwedIn(toServer, toClient', batch') = {}
    BY <1>2, <1>4, <2>2, ReadMovesOwed
  <2>4. OneAnswer'
    BY <1>2, <2>3, OwedNow, OwedNext DEF StepInv, InStep, OneAnswer, AtMostOne
  <2>5. /\ \A i \in DOMAIN batch' : \E j \in DOMAIN toClient : batch'[i] = toClient[j]
        /\ \A i \in DOMAIN toClient' : \E j \in DOMAIN toClient : toClient'[i] = toClient[j]
    <3>1. \A i \in 1 .. n : i \in 1 .. Len(toClient)
      BY <2>1
    <3>2. \A i \in 1 .. Len(toClient) - n : n + i \in 1 .. Len(toClient)
      BY <2>1
    <3> QED BY <2>1, <3>1, <3>2
  <2>6. \A j \in DOMAIN toClient : \/ \E i \in DOMAIN batch' : batch'[i] = toClient[j]
                                   \/ \E i \in DOMAIN toClient' : toClient'[i] = toClient[j]
    <3> SUFFICES ASSUME NEW j \in DOMAIN toClient
                 PROVE  \/ \E i \in DOMAIN batch' : batch'[i] = toClient[j]
                        \/ \E i \in DOMAIN toClient' : toClient'[i] = toClient[j]
      OBVIOUS
    <3>1. CASE j <= n
      BY <2>1, <3>1
    <3>2. CASE j > n
      <4>1. j - n \in 1 .. Len(toClient) - n /\ n + (j - n) = j
        BY <2>1, <3>2
      <4> QED BY <2>1, <4>1
    <3> QED BY <2>1, <3>1, <3>2
  <2>7. ToldLast'
    <3>1. GiveTold(toClient, told)
      BY DEF StepInv, InStep, ToldLast
    <3> QED BY <1>2, <2>5, <3>1 DEF ToldLast, GiveTold
  <2>8. ShowsTold'
    <3>1. GiveNone(toClient') /\ GiveNone(batch') => GiveNone(toClient)
      BY <2>6 DEF GiveNone
    <3>2. GiveNone(batch)
      BY <1>2 DEF GiveNone
    <3> QED BY <1>2, <3>1, <3>2 DEF StepInv, InStep, ShowsTold
  <2> QED BY <2>4, <2>7, <2>8 DEF InStep
<1> QED BY <1>3, <1>4 DEF Recv

(* The first packet of the batch is handled: either it is the answer that  *)
(* was owed, or nothing was.                                               *)
LEMMA HandleStep ==
  ASSUME StepInv, Handle
  PROVE  StepInv'
<1> DEFINE packet == batch[1]
<1>1. ShapeInv'
  BY RecvThreadShape DEF StepInv, RecvThread
<1>2. /\ batch \in Seq(Packets) /\ batch # <<>> /\ Head(batch) = packet /\ packet \in Packets
      /\ batch' = <<>> /\ ~ isReceiving'
      /\ UNCHANGED <<sender, toServer, toClient, peer>>
  BY DEF Handle, StepInv, ShapeInv, TypeOK, stream
<1>3. IdleSender' /\ BatchTaken'
  BY <1>2 DEF IdleSender, BatchTaken
<1> SUFFICES ASSUME ~ early' PROVE InStep'
  BY <1>1, <1>3 DEF StepInv
<1>4. /\ ~ early /\ told' = told /\ (IsAnswer(packet) \/ Owed = {})
      /\ channel' \in Shown(packet)
  BY <1>2 DEF Handle
<1>5. InStep
  BY <1>4 DEF StepInv
<1>6. /\ OwedIn(toServer, toClient, <<>>) = {}
      /\ \A i \in DOMAIN batch : IsAnswer(batch[i]) => i = 1
  BY <1>2, <1>4, <1>5, OwedNow, HandledOwed DEF InStep, OneAnswer
<1>7. OneAnswer'
  BY <1>2, <1>6, OwedNext DEF OneAnswer, AtMostOne
<1>8. ToldLast'
  BY <1>2, <1>4, <1>5 DEF InStep, ToldLast, GiveTold
<1>9. ASSUME peer = "up", InByte(told), GiveNone(toClient)
      PROVE  channel' = told % 256
  <2>1. 1 \in DOMAIN batch
    BY <1>2
  <2>2. CASE packet.code \in {"create", "join"}
    <3>1. packet.id = told
      BY <1>5, <2>1, <2>2 DEF InStep, ToldLast, GiveTold, GivesChannel
    <3>2. told \in ChanIds
      BY <1>2, <2>2, <3>1, PacketIds
    <3>3. told # 0
      BY <3>2, ConstantsAssumption
    <3>4. told % 256 # 0
      BY <1>9, <3>3 DEF InByte
    <3> QED BY <1>4, <2>2, <3>1, <3>4 DEF Shown, ReadId
  <2>3. CASE packet.code = "leave"
    <3>1. packet.id = told /\ packet.id = 0
      BY <1>2, <1>5, <2>1, <2>3, PacketIds DEF InStep, ToldLast, GiveTold, GivesChannel
    <3>2. channel' = 0
      BY <1>4, <2>3 DEF Shown
    <3> QED BY <3>1, <3>2
  <2>4. CASE ~ GivesChannel(packet)
    <3>1. channel' = channel
      BY <1>4, <2>4 DEF Shown, GivesChannel
    <3>2. \A i \in DOMAIN batch : GivesChannel(batch[i]) => IsAnswer(batch[i])
      BY DEF GivesChannel, IsAnswer
    <3>3. GiveNone(batch)
      BY <1>6, <2>4, <3>2 DEF GiveNone
    <3> QED BY <1>5, <1>9, <3>1, <3>3 DEF InStep, ShowsTold
  <2> QED BY <2>2, <2>3, <2>4 DEF GivesChannel
<1>10. ShowsTold'
  BY <1>2, <1>4, <1>9 DEF ShowsTold
<1> QED BY <1>7, <1>8, <1>10 DEF InStep

LEMMA TopSignalStep ==
  ASSUME StepInv, Top \/ Signal
  PROVE  StepInv'
<1>1. ShapeInv'
  BY RecvThreadShape DEF StepInv, RecvThread
<1>2. UNCHANGED <<toServer, toClient, batch, isReceiving, told, early, channel, peer>>
  BY DEF Top, Signal, user, stream
<1>3. receiver \in {"top", "signal"} /\ sender' \in {sender, "woken"}
  BY DEF Top, Signal
<1>4. batch = <<>>
  BY <1>3 DEF StepInv, BatchTaken
<1> QED BY <1>1, <1>2, <1>3, <1>4, InStepKept DEF StepInv, IdleSender, BatchTaken

(* The server answers the first request it reads and drops the others.     *)
LEMMA ServeStep ==
  ASSUME StepInv, Serve
  PROVE  StepInv'
<1> DEFINE request == toServer[1]
<1>1. ShapeInv'
  BY PeerShape DEF StepInv
<1>2. PICK n \in 1 .. Len(toServer) : toServer' = SubSeq(toServer, n + 1, Len(toServer))
  BY DEF Serve
<1>3. /\ toServer \in Seq(Lines) /\ toClient \in Seq(Packets)
      /\ Head(toServer) = request /\ request \in Lines
      /\ UNCHANGED <<sender, receiver, isReceiving, batch, early, channel>>
  BY <1>2 DEF Serve, StepInv, ShapeInv, TypeOK, threads, user
<1> SUFFICES ASSUME ~ early PROVE InStep'
  BY <1>1, <1>3 DEF StepInv, IdleSender, BatchTaken
<1>4. /\ AtMostOne(OwedIn(toServer, toClient, batch))
      /\ OwedIn(toServer, toClient, batch) # {} => isReceiving
      /\ GiveTold(toClient, told) /\ GiveTold(batch, told) /\ ShowsTold
  BY OwedNow DEF StepInv, InStep, OneAnswer, ToldLast
<1>5. /\ AtMostOne(OwedIn(toServer', toClient, batch))
      /\ OwedIn(toServer, toClient, batch) = {} => OwedIn(toServer', toClient, batch) = {}
      /\ GetsAnswer(request) =>
           /\ OwedIn(toServer, toClient, batch) # {}
           /\ \A i \in DOMAIN toClient : ~ IsAnswer(toClient[i])
           /\ \A i \in DOMAIN batch : ~ IsAnswer(batch[i])
           /\ OwedIn(toServer', toClient, batch) = {}
  BY <1>2, <1>3, <1>4, ServedOwed
<1>6. CASE UNCHANGED <<toClient, told>> /\ (peer' = peer \/ peer' = "gone")
  <2>1. OneAnswer'
    BY <1>3, <1>4, <1>5, <1>6, OwedNext DEF OneAnswer
  <2>2. ToldLast' /\ ShowsTold'
    BY <1>3, <1>4, <1>6 DEF ToldLast, ShowsTold
  <2> QED BY <2>1, <2>2 DEF InStep
<1>7. ASSUME GetsAnswer(request), NEW p \in Answers(request),
             toClient' = Append(toClient, p),
             told' = (IF GivesChannel(p) THEN p.id ELSE told), peer' = peer
      PROVE  InStep'
  <2>1. p \in Packets
    BY <1>3, <1>7, AnswersArePackets DEF GetsAnswer
  <2>2. /\ DOMAIN toClient = 1 .. Len(toClient) /\ Len(toClient) \in Nat
        /\ DOMAIN toClient' = 1 .. Len(toClient) + 1
        /\ toClient'[Len(toClient) + 1] = p
        /\ \A i \in 1 .. Len(toClient) : toClient'[i] = toClient[i]
    BY <1>3, <1>7, <2>1, AppendProperties
  <2>3. OneAnswer'
    <3>1. AtMostOne(OwedIn(toServer', Append(toClient, p), batch))
      BY <1>3, <1>5, <1>7, <2>1, AnswerOwed
    <3>2. isReceiving'
      BY <1>3, <1>4, <1>5, <1>7
    <3> QED BY <1>3, <1>7, <3>1, <3>2, OwedNext DEF OneAnswer
  <2>4. GiveNone(toClient) /\ GiveNone(batch)
    BY <1>5, <1>7 DEF GiveNone, GivesChannel, IsAnswer
  <2>5. \A i \in DOMAIN toClient' : GivesChannel(toClient'[i]) => i = Len(toClient) + 1
    <3> SUFFICES ASSUME NEW i \in DOMAIN toClient', GivesChannel(toClient'[i]), i # Len(toClient) + 1
                 PROVE  FALSE
      OBVIOUS
    <3>1. i \in DOMAIN toClient /\ toClient'[i] = toClient[i]
      BY <2>2
    <3> QED BY <2>4, <3>1 DEF GiveNone
  <2>6. ToldLast'
    <3>1. GiveTold(toClient', told')
      BY <1>7, <2>2, <2>5 DEF GiveTold
    <3>2. GiveTold(batch, told')
      BY <2>4 DEF GiveNone, GiveTold
    <3> QED BY <1>3, <3>1, <3>2 DEF ToldLast
  <2>7. ShowsTold'
    <3>1. GiveNone(toClient') => ~ GivesChannel(p)
      BY <2>2 DEF GiveNone
    <3> QED BY <1>3, <1>4, <1>7, <2>4, <3>1 DEF ShowsTold
  <2> QED BY <2>3, <2>6, <2>7 DEF InStep
<1> QED BY <1>3, <1>6, <1>7 DEF Serve, GetsAnswer, GivesChannel

(* Chat messages are owed to nobody.                                       *)
LEMMA MessageStep ==
  ASSUME StepInv, Message
  PROVE  StepInv'
<1> DEFINE p == Packet("message", 0)
<1>1. ShapeInv'
  BY PeerShape DEF StepInv
<1>2. /\ toClient \in Seq(Packets) /\ toClient' = Append(toClient, p)
      /\ UNCHANGED <<sender, receiver, isReceiving, toServer, batch, told, early, channel, peer>>
  BY DEF Message, StepInv, ShapeInv, TypeOK, threads, user
<1>3. p \in Packets /\ ~ IsAnswer(p) /\ ~ GivesChannel(p)
  BY DEF Packets, Packet, IsAnswer, GivesChannel
<1> HIDE DEF p
<1>4. Owed' = Owed
  BY <1>2, <1>3, OwedNow, OwedNext, MessageNotOwed
<1>5. /\ DOMAIN toClient = 1 .. Len(toClient) /\ Len(toClient) \in Nat
      /\ DOMAIN toClient' = 1 .. Len(toClient) + 1
      /\ toClient'[Len(toClient) + 1] = p
      /\ \A i \in 1 .. Len(toClient) : toClient'[i] = toClient[i]
  BY <1>2, <1>3, AppendProperties
<1>6. \A i \in DOMAIN toClient' :
        GivesChannel(toClient'[i]) => i \in DOMAIN toClient /\ toClient'[i] = toClient[i]
  <2> SUFFICES ASSUME NEW i \in DOMAIN toClient', GivesChannel(toClient'[i])
               PROVE  i \in DOMAIN toClient /\ toClient'[i] = toClient[i]
    OBVIOUS
  <2>1. i # Len(toClient) + 1
    BY <1>3, <1>5
  <2> QED BY <1>5, <2>1
<1>7. \A t : GiveTold(toClient, t) => GiveTold(toClient', t)
  BY <1>6 DEF GiveTold
<1>8. GiveNone(toClient') => GiveNone(toClient)
  BY <1>5 DEF GiveNone
<1>9. InStep => InStep'
  BY <1>2, <1>4, <1>7, <1>8 DEF InStep, OneAnswer, ToldLast, ShowsTold
<1> QED BY <1>1, <1>2, <1>9 DEF StepInv, IdleSender, BatchTaken

(* What is lost with the server is no longer owed.                         *)
LEMMA GoneStep ==
  ASSUME StepInv, ServerGone
  PROVE  StepInv'
<1> DEFINE empty == <<>>
<1>1. ShapeInv'
  BY PeerShape DEF StepInv
<1>2. /\ toServer' = empty /\ toClient' \in {toClient, empty} /\ peer' = "gone"
      /\ UNCHANGED <<sender, receiver, isReceiving, batch, told, early, channel>>
  BY DEF ServerGone, threads, user
<1>3. DOMAIN empty = {}
  OBVIOUS
<1> HIDE DEF empty
<1>4. ASSUME NEW x \in OwedIn(toServer', toClient', batch) PROVE x \in OwedIn(toServer, toClient, batch)
  <2>1. \/ \E i \in DOMAIN toServer' : GetsAnswer(toServer'[i]) /\ x = <<"toServer", i>>
        \/ \E i \in DOMAIN toClient' : IsAnswer(toClient'[i]) /\ x = <<"toClient", i>>
        \/ \E i \in DOMAIN batch : IsAnswer(batch[i]) /\ x = <<"batch", i>>
    BY <1>4, OwedPlaces
  <2>2. \/ \E i \in DOMAIN toClient : IsAnswer(toClient[i]) /\ x = <<"toClient", i>>
        \/ \E i \in DOMAIN batch : IsAnswer(batch[i]) /\ x = <<"batch", i>>
    BY <1>2, <1>3, <2>1
  <2> QED BY <2>2, OwedPlaces
<1>5. Owed' \subseteq Owed
  BY <1>2, <1>4, OwedNow, OwedNext
<1>6. GiveTold(toClient, told) => GiveTold(toClient', told)
  BY <1>2, <1>3 DEF GiveTold
<1>7. InStep => InStep'
  BY <1>2, <1>5, <1>6 DEF InStep, OneAnswer, ToldLast, ShowsTold, AtMostOne
<1> QED BY <1>1, <1>2, <1>7 DEF StepInv, IdleSender, BatchTaken

LEMMA IdleStep ==
  ASSUME StepInv, Exit \/ UNCHANGED vars
  PROVE  StepInv'
<1>1. ShapeInv'
  BY PeerShape DEF StepInv
<1>2. UNCHANGED <<sender, receiver, toServer, toClient, batch, isReceiving, told, early, channel, peer>>
  BY DEF Exit, vars, threads, user, stream
<1> QED BY <1>1, <1>2, InStepKept DEF StepInv, IdleSender, BatchTaken

(* The prompt keeps step with the server, whatever the two threads and the *)
(* server do in between, until a message comes between a command and its   *)
(* answer.                                                                 *)
THEOREM InStepWithServer == Spec => []PromptInStep
<1>1. StepInv /\ [Next]_vars => StepInv'
  BY CommandStep, TextStep, SenderStep, RecvStep, HandleStep, TopSignalStep, ServeStep,
     MessageStep, GoneStep, IdleStep DEF Next, SendThread, RecvThread
<1>2. StepInv => PromptInStep
  <2> SUFFICES ASSUME StepInv, ~ early
               PROVE  /\ \A x, y \in Owed : x = y
                      /\ Owed # {} => isReceiving /\ sender # "prompt"
                      /\ Owed = {} /\ peer = "up" /\ (told = 0 \/ told % 256 # 0)
                           => channel = told % 256
    BY DEF PromptInStep
  <2>1. OneAnswer /\ ShowsTold /\ IdleSender
    BY DEF StepInv, InStep
  <2>2. ASSUME Owed = {} PROVE GiveNone(toClient) /\ GiveNone(batch)
    <3>1. /\ \A i \in DOMAIN toClient : ~ IsAnswer(toClient[i])
          /\ \A i \in DOMAIN batch : ~ IsAnswer(batch[i])
      BY <2>2, OwedNow, OwedPlaces
    <3> QED BY <3>1 DEF GiveNone, GivesChannel, IsAnswer
  <2> QED BY <2>1, <2>2 DEF OneAnswer, AtMostOne, ShowsTold, InByte, IdleSender
<1> QED BY InitStep, <1>1, <1>2, PTL DEF Spec
=============================================================================
