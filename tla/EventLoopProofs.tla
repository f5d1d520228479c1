-------------------------- MODULE EventLoopProofs --------------------------
(* Theorems about EventLoop: the array of polled descriptors is right for  *)
(* any number of descriptors, peers and packets.                           *)
EXTENDS EventLoop, SequenceTheorems, FiniteSetTheorems, WellFoundedInduction, TLAPS

(* The library's CHOOSE of a least element finds one.                      *)
LEMMA NatSetHasMin ==
  ASSUME NEW I, I \subseteq Nat, I # {}
  PROVE  /\ Min(I) \in I
         /\ \A j \in I : Min(I) <= j
<1> DEFINE R == {ss \in Nat \X Nat : ss[1] < ss[2]}
<1>0. OpToRel(<, Nat) = R
  BY DEF OpToRel
<1>1. IsWellFoundedOn(R, Nat)
  BY <1>0, NatLessThanWellFounded, Zenon
<1>2. PICK m \in I : \A y \in I : ~ (<<y, m>> \in R)
  <2> HIDE DEF R
  <2> QED BY <1>1, WFMin, Zenon
<1>3. \A y \in I : m <= y
  <2> TAKE y \in I
  <2>1. ~ (<<y, m>> \in R)
    BY <1>2
  <2>2. <<y, m>> \in Nat \X Nat
    BY SMT
  <2>3. ~ (y < m)
    BY <2>1, <2>2, Zenon
  <2> QED BY <2>3
<1> QED BY <1>3 DEF Min

OnlyAccepted == \A k \in Entries \ {0} : fds[k] \in Accepted \cup {Closed}

AllAccepted == \A f \in Accepted : \E k \in Entries : fds[k] = f

Once == \A k, l \in Entries : fds[k] = fds[l] /\ fds[k] # Closed => k = l

(* An entry is Closed behind the place the pass has reached, and from the  *)
(* place compress_fds has reached on; a pass that closed one remembers it. *)
ClosedMarked ==
  \A k \in Entries : fds[k] = Closed =>
    \/ pc = "scan" /\ compress /\ k < i
    \/ pc = "compress" /\ i <= k
    \/ pc = "ended"

(* poll reports on entries; the accept loop runs from the first of them.   *)
PassShape ==
  /\ DOMAIN ready \subseteq Entries
  /\ pc \in {"poll", "compress"} => DOMAIN ready = {}
  /\ pc \in {"accept", "login"} => i = 0
  /\ pc = "login" => newfd \in open

ArrayInv ==
  /\ fds[0] = Listener
  /\ OnlyAccepted
  /\ AllAccepted
  /\ Once
  /\ ClosedMarked

IInv == TypeOK /\ PassShape /\ ArrayInv /\ ArrayBounded

-----------------------------------------------------------------------------
(* The numbers the constants are. *)
LEMMA Numbers ==
  /\ Cardinality(Fds) \in Nat
  /\ ArraySize \in Nat /\ ArraySize > Cardinality(Fds) + 1
  /\ Listener \in Nat /\ Listener \notin Fds /\ Fds \subseteq Nat
  /\ IsFiniteSet(Fds)
  /\ MaxBacklog \in Nat
  /\ Closed \notin Nat
BY ConstantsAssumption, FS_CardinalityType DEF Closed

(* No event is left between two passes.                                    *)
LEMMA NoPassType ==
  /\ DOMAIN NoPass = {}
  /\ NoPass \in [DOMAIN NoPass -> {"none", "in", "other"}]
BY DEF NoPass

(* The loop starts in the invariant. *)
LEMMA InitIInv == Init => IInv
<1> SUFFICES ASSUME Init PROVE IInv
  OBVIOUS
<1>1. nfds = 1 /\ Entries = {0} /\ 0 \in Index
  BY Numbers DEF Init, Entries, Index
<1>2. TypeOK
  <2>1. ready \in [DOMAIN ready -> {"none", "in", "other"}] /\ DOMAIN ready \subseteq Index
    BY NoPassType DEF Init
  <2>2. unread \in [Fds -> Seq(Packets)]
    <3>1. <<>> \in Seq(Packets)
      OBVIOUS
    <3> QED BY <3>1 DEF Init
  <2>3. fds \in [Index -> Fds \cup {Listener, Closed, 0}]
    BY DEF Init
  <2>4. pc = "poll" /\ nfds \in Nat \ {0} /\ newfd = Listener
    BY DEF Init
  <2>5. i \in 0 .. ArraySize /\ backlog \in 0 .. MaxBacklog
    BY Numbers DEF Init
  <2>6. compress \in BOOLEAN /\ fatal \in BOOLEAN
    BY DEF Init
  <2>7. open \subseteq Fds /\ eof \subseteq open /\ served \in [Fds -> Nat]
    BY DEF Init, NoneServed
  <2> QED BY <2>1, <2>2, <2>3, <2>4, <2>5, <2>6, <2>7 DEF TypeOK
<1>3. PassShape
  BY <1>1 DEF Init, PassShape, NoPass
<1>4. fds[0] = Listener
  BY <1>1 DEF Init
<1>5. OnlyAccepted /\ AllAccepted /\ Once
  BY <1>1 DEF Init, OnlyAccepted, AllAccepted, Once, Accepted
<1>6. ClosedMarked
  BY <1>1, <1>4, Numbers DEF ClosedMarked
<1>7. ArrayBounded
  BY <1>1, Numbers DEF ArrayBounded
<1> QED BY <1>2, <1>3, <1>4, <1>5, <1>6, <1>7 DEF IInv, ArrayInv

(* What the entries are depends on the array, on who is accepted and on    *)
(* nothing else.                                                           *)
LEMMA ArraySame ==
  ASSUME ArrayInv, UNCHANGED <<fds, nfds>>, Accepted' = Accepted
  PROVE  /\ fds'[0] = Listener
         /\ OnlyAccepted' /\ AllAccepted' /\ Once'
BY DEF ArrayInv, OnlyAccepted, AllAccepted, Once, Entries

(* During the accept loop no entry is Closed: it runs from the first one.  *)
LEMMA NoneClosed ==
  ASSUME IInv, pc \in {"poll", "accept", "login"}
  PROVE  \A k \in Entries : fds[k] # Closed
<1>1. pc \in {"accept", "login"} => i = 0
  BY DEF IInv, PassShape
<1> QED BY <1>1 DEF IInv, ArrayInv, ClosedMarked, Entries

(* The entries are the listener and as many connections as are accepted at *)
(* most, so there is room for one more.                                    *)
LEMMA RoomForOne ==
  ASSUME IInv, pc = "login"
  PROVE  nfds <= Cardinality(Fds)
<1> DEFINE S == 1 .. (nfds - 1)
           T == open \ {newfd}
<1>1. /\ nfds \in Nat \ {0} /\ open \subseteq Fds /\ newfd \in open
  BY DEF IInv, TypeOK, PassShape
<1>2. /\ IsFiniteSet(open) /\ Cardinality(open) <= Cardinality(Fds)
      /\ Cardinality(open) \in Nat
  BY <1>1, Numbers, FS_Subset, FS_CardinalityType
<1>3. IsFiniteSet(T) /\ Cardinality(T) = Cardinality(open) - 1
  BY <1>1, <1>2, FS_RemoveElement
<1>4. IsFiniteSet(S) /\ Cardinality(S) = nfds - 1
  BY <1>1, FS_Interval
<1>5. \A k \in S : k \in Entries \ {0}
  BY <1>1 DEF Entries
<1>6. \A k \in S : fds[k] \in T
  BY <1>5, NoneClosed DEF IInv, ArrayInv, OnlyAccepted, Accepted
<1>7. \A k, l \in S : fds[k] = fds[l] => k = l
  BY <1>5, NoneClosed DEF IInv, ArrayInv, Once
<1> DEFINE g == [k \in S |-> fds[k]]
<1>8. g \in [S -> T]
  BY <1>6
<1>9. ~ (Cardinality(T) < Cardinality(S))
  <2> SUFFICES ASSUME Cardinality(T) < Cardinality(S) PROVE FALSE
    OBVIOUS
  <2>1. \E x, y \in S : x # y /\ g[x] = g[y]
    <3> HIDE DEF S, T, g
    <3> QED BY <1>3, <1>4, <1>8, FS_PigeonHole
  <2> QED BY <2>1, <1>7
<1> HIDE DEF S, T
<1> QED BY <1>1, <1>2, <1>3, <1>4, <1>9, Numbers

(* The smallest free descriptor is a descriptor, and free.                 *)
LEMMA FreeDescriptor ==
  ASSUME open # Fds, open \subseteq Fds
  PROVE  Min(Fds \ open) \in Fds \ open
<1>1. Fds \ open \subseteq Nat /\ Fds \ open # {}
  BY Numbers
<1> QED BY <1>1, NatSetHasMin

(* The entry a pass reads is the listener's or an accepted connection's.   *)
LEMMA EntryRead ==
  ASSUME IInv, pc = "scan", ~ PassOver
  PROVE  /\ i \in Entries /\ i \in DOMAIN ready
         /\ fds[i] # Closed
         /\ fds[i] # Listener => i # 0 /\ fds[i] \in open
         /\ fds[i] = Listener => i = 0
<1>1. i \in DOMAIN ready /\ i \in Entries /\ 0 \in Entries
  BY DEF IInv, PassShape, PassOver, TypeOK, Entries
<1>2. fds[i] # Closed
  BY <1>1 DEF IInv, ArrayInv, ClosedMarked, Entries
<1>3. fds[i] # Listener => i # 0 /\ fds[i] \in open
  BY <1>1, <1>2 DEF IInv, ArrayInv, OnlyAccepted, Accepted
<1>4. fds[i] = Listener => i = 0
  BY <1>1, <1>2 DEF IInv, ArrayInv, Once
<1> QED BY <1>1, <1>2, <1>3, <1>4

(* Poll and the steps of a pass that leave the array and the connections   *)
(* as they are.                                                            *)
LEMMA QuietSteps ==
  ASSUME IInv,
         Poll \/ PollEnds \/ EndPass \/ Skip \/ Unexpected \/ Listening \/ AcceptFails
  PROVE  IInv'
<1>1. /\ UNCHANGED <<fds, nfds, newfd, open>>
      /\ pc # "login" /\ pc' # "login"
  BY DEF Poll, PollEnds, EndPass, Skip, Unexpected, Listening, AcceptFails, kernel, array
<1>2. Accepted' = Accepted /\ Entries' = Entries
  BY <1>1 DEF Accepted, Entries
<1>3. fds'[0] = Listener /\ OnlyAccepted' /\ AllAccepted' /\ Once'
  BY <1>1, <1>2, ArraySame DEF IInv
<1>4. ArrayBounded'
  BY <1>1 DEF IInv, ArrayBounded
<1>5. CASE Poll
  <2>1. TypeOK' /\ PassShape'
    <3>1. ready' \in [Entries -> {"none", "in", "other"}]
      BY <1>5 DEF Poll
    <3>2. Entries \subseteq Index
      BY Numbers DEF IInv, TypeOK, ArrayBounded, Entries, Index
    <3> QED BY <1>5, <1>2, <3>1, <3>2, Numbers DEF IInv, TypeOK, Poll, kernel, PassShape
  <2>2. ClosedMarked'
    BY <1>5, <1>1, <1>2, NoneClosed DEF Poll, ClosedMarked
  <2> QED BY <2>1, <2>2, <1>3, <1>4 DEF IInv, ArrayInv
<1>6. CASE PollEnds
  <2>1. TypeOK' /\ PassShape'
    BY <1>6, <1>2 DEF IInv, TypeOK, PollEnds, array, kernel, PassShape
  <2>2. ClosedMarked'
    BY <1>6, <1>1, <1>2 DEF PollEnds, ClosedMarked
  <2> QED BY <2>1, <2>2, <1>3, <1>4 DEF IInv, ArrayInv
<1>7. CASE EndPass
  <2>1. TypeOK' /\ PassShape'
    <3>1. /\ DOMAIN ready' = {}
          /\ ready' \in [DOMAIN ready' -> {"none", "in", "other"}]
      BY <1>7, NoPassType DEF EndPass
    <3>2. i' \in 0 .. ArraySize
      BY <1>7, Numbers DEF EndPass
    <3>4. compress' \in BOOLEAN /\ fatal' \in BOOLEAN
      BY <1>7 DEF EndPass, IInv, TypeOK
    <3>3. served' \in [Fds -> Nat] /\ pc' \in {"poll", "compress", "ended"}
      BY <1>7 DEF EndPass, NoneServed
    <3> QED BY <1>7, <1>1, <3>1, <3>2, <3>3, <3>4 DEF IInv, TypeOK, EndPass, kernel, PassShape
  <2>2. ClosedMarked'
    BY <1>7, <1>1, <1>2 DEF EndPass, IInv, ArrayInv, ClosedMarked, Entries
  <2> QED BY <2>1, <2>2, <1>3, <1>4 DEF IInv, ArrayInv
<1>8. CASE Skip
  <2>1. TypeOK' /\ PassShape'
    <3>1. i' \in 0 .. ArraySize
      <4>1. i \in Entries /\ nfds \in Nat /\ nfds < ArraySize
        <5>1. i \in Entries
          BY <1>8, EntryRead DEF Skip
        <5>2. nfds \in Nat /\ nfds <= Cardinality(Fds) + 1
          BY DEF IInv, TypeOK, ArrayInv, ArrayBounded
        <5> QED BY <5>1, <5>2, Numbers
      <4>2. i' = i + 1 /\ ArraySize \in Nat
        BY <1>8, Numbers DEF Skip
      <4> QED BY ONLY <4>1, <4>2 DEF Entries
    <3> QED BY <1>8, <1>2, <3>1 DEF IInv, TypeOK, Skip, kernel, PassShape
  <2>2. ClosedMarked'
    BY <1>8, <1>1, <1>2 DEF Skip, IInv, TypeOK, ArrayInv, ClosedMarked, Entries
  <2> QED BY <2>1, <2>2, <1>3, <1>4 DEF IInv, ArrayInv
<1>9. CASE Unexpected
  <2>1. TypeOK' /\ PassShape'
    <3>1. /\ DOMAIN ready' = {}
          /\ ready' \in [DOMAIN ready' -> {"none", "in", "other"}]
      BY <1>9, NoPassType DEF Unexpected
    <3>2. i' \in 0 .. ArraySize
      BY <1>9, Numbers DEF Unexpected
    <3>4. compress' \in BOOLEAN /\ fatal' \in BOOLEAN
      BY <1>9 DEF Unexpected, IInv, TypeOK
    <3>3. served' \in [Fds -> Nat] /\ pc' \in {"poll", "compress", "ended"}
      BY <1>9 DEF Unexpected, NoneServed
    <3> QED BY <1>9, <1>1, <3>1, <3>2, <3>3, <3>4 DEF IInv, TypeOK, Unexpected, kernel, PassShape
  <2>2. ClosedMarked'
    BY <1>9, <1>1, <1>2 DEF Unexpected, IInv, ArrayInv, ClosedMarked, Entries
  <2> QED BY <2>1, <2>2, <1>3, <1>4 DEF IInv, ArrayInv
<1>10. CASE Listening
  <2>1. i = 0
    BY <1>10, EntryRead DEF Listening
  <2>2. TypeOK' /\ PassShape'
    BY <1>10, <1>2, <2>1 DEF IInv, TypeOK, Listening, array, kernel, PassShape
  <2>3. ClosedMarked'
    BY <1>10, <1>1, <1>2, <2>1 DEF Listening, IInv, ArrayInv, ClosedMarked, Entries
  <2> QED BY <2>2, <2>3, <1>3, <1>4 DEF IInv, ArrayInv
<1>11. CASE AcceptFails
  <2>1. i = 0
    BY <1>11 DEF AcceptFails, IInv, PassShape
  <2>2. TypeOK' /\ PassShape'
    BY <1>11, <1>2, <2>1, Numbers DEF IInv, TypeOK, AcceptFails, kernel, PassShape
  <2>3. ClosedMarked'
    BY <1>11, <1>1, <1>2, NoneClosed DEF AcceptFails, ClosedMarked
  <2> QED BY <2>2, <2>3, <1>3, <1>4 DEF IInv, ArrayInv
<1> QED BY <1>5, <1>6, <1>7, <1>8, <1>9, <1>10, <1>11

(* Peers touch neither the array nor which connections are open.           *)
LEMMA PeerSteps ==
  ASSUME IInv,
         Connect \/ \E f \in Fds : HangUp(f) \/ \E p \in Packets : PeerSend(f, p)
  PROVE  IInv'
<1>1. UNCHANGED <<pc, array, newfd, open, served>>
  BY DEF Connect, HangUp, PeerSend
<1>2. Accepted' = Accepted /\ Entries' = Entries
  BY <1>1 DEF Accepted, Entries, array
<1>3. unread' \in [Fds -> Seq(Packets)]
  <2>1. unread \in [Fds -> Seq(Packets)]
    BY DEF IInv, TypeOK
  <2>2. CASE Connect
    BY <2>1, <2>2 DEF Connect
  <2>3. CASE \E f \in Fds : HangUp(f)
    BY <2>1, <2>3 DEF HangUp
  <2>4. ASSUME NEW f \in Fds, NEW p \in Packets, PeerSend(f, p)
        PROVE  unread' \in [Fds -> Seq(Packets)]
    <3>1. Append(unread[f], p) \in Seq(Packets)
      BY <2>1
    <3> QED BY <2>1, <2>4, <3>1 DEF PeerSend
  <2> QED BY <2>2, <2>3, <2>4
<1>4. backlog' \in 0 .. MaxBacklog /\ eof' \subseteq open
  <2>1. backlog \in 0 .. MaxBacklog /\ MaxBacklog \in Nat /\ eof \subseteq open
    BY Numbers DEF IInv, TypeOK
  <2>2. \/ backlog < MaxBacklog /\ backlog' = backlog + 1 /\ eof' = eof
        \/ backlog' = backlog /\ \E f \in Fds : f \in open /\ eof' = eof \cup {f}
        \/ backlog' = backlog /\ eof' = eof
    BY DEF Connect, HangUp, PeerSend
  <2> QED BY ONLY <2>1, <2>2
<1>5. TypeOK' /\ PassShape'
  BY <1>1, <1>2, <1>3, <1>4 DEF IInv, TypeOK, PassShape, array
<1>6. ArrayInv'
  BY <1>1, <1>2 DEF IInv, ArrayInv, OnlyAccepted, AllAccepted, Once, ClosedMarked, array
<1> QED BY <1>1, <1>5, <1>6 DEF IInv, ArrayBounded, array

(* The new connection is not counted as accepted while its LOGIN is read.  *)
LEMMA AcceptStep == IInv /\ Accept => IInv'
<1> SUFFICES ASSUME IInv, Accept PROVE IInv'
  OBVIOUS
<1>1. open \subseteq Fds /\ open # Fds /\ pc = "accept" /\ pc' = "login"
  BY DEF IInv, TypeOK, Accept, CanAccept
<1>2. newfd' \in Fds \ open /\ open' = open \cup {newfd'}
  BY <1>1, FreeDescriptor DEF Accept
<1>3. Accepted' = Accepted /\ Entries' = Entries
  BY <1>1, <1>2 DEF Accepted, Accept, array, Entries
<1>4. fds'[0] = Listener /\ OnlyAccepted' /\ AllAccepted' /\ Once'
  BY <1>3, ArraySame DEF IInv, Accept, array
<1>5. ClosedMarked'
  BY <1>1, <1>3, NoneClosed DEF Accept, array, ClosedMarked
<1>6. backlog' \in 0 .. MaxBacklog
  BY Numbers DEF IInv, TypeOK, Accept, CanAccept
<1>7. TypeOK' /\ PassShape'
  BY <1>1, <1>2, <1>3, <1>6 DEF IInv, TypeOK, PassShape, Accept, array
<1> QED BY <1>4, <1>5, <1>7 DEF IInv, ArrayInv, ArrayBounded, Accept, array

(* login_event has an answer: the connection gets the next entry.          *)
LEMMA LoginStep == IInv /\ Login => IInv'
<1> SUFFICES ASSUME IInv, Login PROVE IInv'
  OBVIOUS
<1>1. /\ pc = "login" /\ pc' \in {"accept", "ended"} /\ i = 0
      /\ nfds \in Nat \ {0} /\ nfds' = nfds + 1
      /\ fds \in [Index -> Fds \cup {Listener, Closed, 0}]
      /\ newfd \in open /\ open \subseteq Fds /\ open' = open
      /\ unread \in [Fds -> Seq(Packets)]
  BY DEF IInv, TypeOK, PassShape, Login
<1>2. nfds <= Cardinality(Fds)
  BY <1>1, RoomForOne
<1>3. nfds \in Index /\ nfds \notin Entries /\ Entries \subseteq Index /\ 0 \in Entries
  BY <1>1, <1>2, Numbers DEF Index, Entries
<1>4. Entries' = Entries \cup {nfds}
  BY <1>1 DEF Entries
<1>5. /\ fds' \in [Index -> Fds \cup {Listener, Closed, 0}]
      /\ fds'[nfds] = newfd
      /\ \A k \in Entries : fds'[k] = fds[k]
  BY <1>1, <1>3 DEF Login, Slot
<1>6. Accepted = open \ {newfd} /\ Accepted' = open
  BY <1>1 DEF Accepted, Login
<1>7. \A k \in Entries : fds[k] # newfd
  <2>1. fds[0] # newfd
    BY <1>1, Numbers DEF IInv, ArrayInv
  <2>2. newfd # Closed
    BY <1>1, Numbers
  <2> QED BY <2>1, <2>2, <1>6 DEF IInv, ArrayInv, OnlyAccepted
<1>8. ArrayInv'
  <2>1. fds'[0] = Listener
    BY <1>3, <1>5 DEF IInv, ArrayInv
  <2>2. OnlyAccepted'
    BY <1>1, <1>4, <1>5, <1>6 DEF IInv, ArrayInv, OnlyAccepted
  <2>3. AllAccepted'
    BY <1>4, <1>5, <1>6 DEF IInv, ArrayInv, AllAccepted
  <2>4. Once'
    BY <1>4, <1>5, <1>7 DEF IInv, ArrayInv, Once
  <2>5. ClosedMarked'
    <3>1. newfd # Closed
      BY <1>1, Numbers
    <3> QED BY <1>1, <1>4, <1>5, <3>1, NoneClosed DEF ClosedMarked
  <2> QED BY <2>1, <2>2, <2>3, <2>4, <2>5 DEF ArrayInv
<1>9. unread' \in [Fds -> Seq(Packets)]
  <2>1. <<>> \in Seq(Packets)
    OBVIOUS
  <2> QED BY <1>1, <2>1 DEF Login
<1>10. TypeOK' /\ PassShape'
  BY <1>1, <1>4, <1>5, <1>9 DEF IInv, TypeOK, PassShape, Login
<1>11. ArrayBounded'
  BY <1>1, <1>2, Numbers DEF ArrayBounded
<1> QED BY <1>8, <1>10, <1>11 DEF IInv

(* A request leaves the array alone; LOGOUT and end-of-file mark an entry. *)
LEMMA ServeStep == IInv /\ Serve => IInv'
<1> SUFFICES ASSUME IInv, Serve PROVE IInv'
  OBVIOUS
<1> DEFINE f == fds[i]
<1>1. /\ pc = "scan" /\ pc' \in {"scan", "ended"}
      /\ i' = i + 1
      /\ UNCHANGED <<nfds, ready, fatal, newfd, backlog>>
      /\ served' = [served EXCEPT ![f] = @ + 1]
  BY DEF Serve
<1>2. i \in Entries /\ i # 0 /\ f \in open /\ f # Listener
  BY EntryRead DEF Serve
<1>3. /\ nfds \in Nat \ {0} /\ i \in Nat /\ open \subseteq Fds /\ served \in [Fds -> Nat]
      /\ fds \in [Index -> Fds \cup {Listener, Closed, 0}]
      /\ unread \in [Fds -> Seq(Packets)]
      /\ eof \subseteq open
      /\ compress \in BOOLEAN
  BY DEF IInv, TypeOK
<1>4. /\ Entries' = Entries /\ Entries \subseteq Index /\ 0 \in Entries /\ i' \in 0 .. ArraySize
      /\ served' \in [Fds -> Nat]
  <2>1. served' \in [Fds -> Nat]
    <3>1. served[f] \in Nat /\ served[f] + 1 \in Nat
      BY <1>2, <1>3
    <3> QED BY <1>1, <1>3, <3>1
  <2> QED BY <1>1, <1>2, <1>3, <2>1, Numbers DEF Entries, Index, IInv, ArrayBounded
<1>5. Accepted = open /\ Accepted' = open'
  BY <1>1 DEF Accepted
<1>6. unread' = [unread EXCEPT ![f] = <<>>] /\ unread' \in [Fds -> Seq(Packets)]
  <2>1. <<>> \in Seq(Packets)
    OBVIOUS
  <2>2. unread' = [unread EXCEPT ![f] = <<>>]
    BY DEF Serve, CloseEntry
  <2> QED BY <1>2, <1>3, <2>1, <2>2
<1>7. CASE UNCHANGED <<open, eof, fds, compress>>
  <2>1. Accepted' = Accepted
    BY <1>5, <1>7
  <2>2. fds'[0] = Listener /\ OnlyAccepted' /\ AllAccepted' /\ Once'
    BY <1>1, <1>7, <2>1, ArraySame DEF IInv
  <2>3. ClosedMarked'
    BY <1>1, <1>3, <1>4, <1>7 DEF IInv, ArrayInv, ClosedMarked, Entries
  <2>4. TypeOK' /\ PassShape'
    BY <1>1, <1>2, <1>3, <1>4, <1>6, <1>7 DEF IInv, TypeOK, PassShape
  <2> QED BY <2>2, <2>3, <2>4, <1>1 DEF IInv, ArrayInv, ArrayBounded
<1>8. CASE CloseEntry(f)
  <2>1. /\ fds'[i] = Closed
        /\ \A k \in Index \ {i} : fds'[k] = fds[k]
        /\ fds' \in [Index -> Fds \cup {Listener, Closed, 0}]
        /\ open' = open \ {f} /\ eof' = eof \ {f} /\ compress'
    BY <1>2, <1>3, <1>4, <1>8 DEF CloseEntry
  <2>2. fds'[0] = Listener
    BY <1>2, <1>4, <2>1 DEF IInv, ArrayInv
  <2>3. \A k \in Entries \ {i} : fds[k] # f
    <3>1. f # Closed
      BY <1>2, <1>3, Numbers
    <3> QED BY <1>2, <3>1 DEF IInv, ArrayInv, Once
  <2>4. OnlyAccepted'
    BY <1>4, <1>5, <2>1, <2>3 DEF IInv, ArrayInv, OnlyAccepted
  <2>5. AllAccepted'
    BY <1>4, <1>5, <2>1, <2>3 DEF IInv, ArrayInv, AllAccepted
  <2>6. Once'
    BY <1>4, <2>1 DEF IInv, ArrayInv, Once
  <2>7. ClosedMarked'
    <3> SUFFICES ASSUME NEW k \in Entries, fds'[k] = Closed, pc' = "scan"
                 PROVE  k < i'
      BY <1>1, <1>4, <2>1 DEF ClosedMarked
    <3>1. CASE k = i
      BY <3>1, <1>1, <1>3
    <3>2. CASE k # i
      <4>1. fds[k] = Closed
        BY <3>2, <1>4, <2>1
      <4>2. k < i
        BY <4>1, <1>1 DEF IInv, ArrayInv, ClosedMarked
      <4> QED BY <4>2, <1>1, <1>3 DEF Entries
    <3> QED BY <3>1, <3>2
  <2>8. TypeOK' /\ PassShape'
    BY <1>1, <1>2, <1>3, <1>4, <1>6, <2>1 DEF IInv, TypeOK, PassShape
  <2> QED BY <2>2, <2>4, <2>5, <2>6, <2>7, <2>8, <1>1 DEF IInv, ArrayInv, ArrayBounded
<1> QED BY <1>7, <1>8 DEF Serve

(* A Closed entry goes and those behind it move down by one.               *)
LEMMA ShiftStep ==
  ASSUME IInv, Compress, i < nfds, fds[i] = Closed
  PROVE  IInv'
<1>1. /\ pc = "compress" /\ pc' = "compress" /\ i' = i /\ nfds' = nfds - 1
      /\ fds' = [k \in Index |-> Shift(k)]
      /\ UNCHANGED <<ready, compress, fatal, newfd, kernel, served>>
  BY DEF Compress, NextIndex, IInv, TypeOK
<1>2. /\ nfds \in Nat \ {0} /\ i \in Nat /\ nfds <= Cardinality(Fds) + 1
      /\ fds \in [Index -> Fds \cup {Listener, Closed, 0}]
      /\ fds[0] = Listener /\ DOMAIN ready = {}
      /\ i \in 0 .. ArraySize
  BY <1>1 DEF IInv, TypeOK, ArrayBounded, ArrayInv, PassShape
<1>3. i # 0 /\ i \in Entries /\ 0 \in Entries
  BY <1>2, Numbers DEF Entries
<1>4. /\ \A k \in Entries : k \in Index /\ k + 1 \in Index
      /\ \A k \in Entries' : k \in Entries /\ k + 1 \in Entries
      /\ \A k \in Entries : k < i => k \in Entries'
      /\ \A k \in Entries : k > i => k - 1 \in Entries' /\ k - 1 >= i /\ (k - 1) + 1 = k
  BY <1>1, <1>2, <1>3, Numbers DEF Entries, Index
<1>5. /\ \A k \in Entries' : k < i => fds'[k] = fds[k]
      /\ \A k \in Entries' : k >= i => fds'[k] = fds[k + 1]
  <2>1. \A k \in Entries' : fds'[k] = IF k \in i .. (nfds - 1) THEN fds[k + 1] ELSE fds[k]
    BY <1>1, <1>4 DEF Shift
  <2>2. \A k \in Entries' : k \in Int /\ k <= nfds - 1
    BY <1>1, <1>2 DEF Entries
  <2>3. ASSUME NEW k \in Entries', k < i PROVE fds'[k] = fds[k]
    <3>1. k \notin i .. (nfds - 1)
      BY <2>2, <2>3, <1>2
    <3> QED BY <2>1, <3>1
  <2>4. ASSUME NEW k \in Entries', k >= i PROVE fds'[k] = fds[k + 1]
    <3>1. k \in i .. (nfds - 1)
      BY <2>2, <2>4, <1>2
    <3> QED BY <2>1, <3>1
  <2> QED BY <2>3, <2>4
<1>6. Accepted' = Accepted
  BY <1>1 DEF Accepted, kernel
<1>7. fds'[0] = Listener
  BY <1>2, <1>3, <1>4, <1>5
<1>8. OnlyAccepted'
  <2> SUFFICES ASSUME NEW k \in Entries', k # 0
               PROVE  fds'[k] \in Accepted \cup {Closed}
    BY <1>6 DEF OnlyAccepted
  <2>1. k + 1 # 0 /\ k \in Nat
    BY <1>1, <1>2 DEF Entries
  <2> QED BY <2>1, <1>2, <1>4, <1>5 DEF IInv, ArrayInv, OnlyAccepted
<1>9. AllAccepted'
  <2> SUFFICES ASSUME NEW f \in Accepted PROVE \E k \in Entries' : fds'[k] = f
    BY <1>6 DEF AllAccepted
  <2>1. PICK k \in Entries : fds[k] = f
    BY DEF IInv, ArrayInv, AllAccepted
  <2>2. k # i
    <3>1. f # Closed
      BY Numbers DEF IInv, TypeOK, Accepted
    <3> QED BY <2>1, <3>1
  <2>3. k < i \/ k > i
    BY <1>2, <2>2 DEF Entries
  <2>4. CASE k < i
    BY <2>1, <2>4, <1>4, <1>5
  <2>5. CASE k > i
    BY <2>1, <2>5, <1>4, <1>5
  <2> QED BY <2>3, <2>4, <2>5
<1>10. Once'
  <2> SUFFICES ASSUME NEW k \in Entries', NEW l \in Entries',
                      fds'[k] = fds'[l], fds'[k] # Closed
               PROVE  k = l
    BY DEF Once
  <2>1. k \in Nat /\ l \in Nat
    BY <1>1, <1>2 DEF Entries
  <2>2. \A a, b \in Entries : fds[a] = fds[b] /\ fds[a] # Closed => a = b
    BY DEF IInv, ArrayInv, Once
  <2>3. /\ k \in Entries /\ k + 1 \in Entries
        /\ l \in Entries /\ l + 1 \in Entries
    BY <1>4
  <2>4. CASE k < i /\ l < i
    BY <2>2, <2>3, <2>4, <1>5
  <2>5. CASE k < i /\ l >= i
    <3>1. k = l + 1
      BY <2>2, <2>3, <2>5, <1>5
    <3> QED BY <3>1, <2>5, <2>1, <1>2
  <2>6. CASE k >= i /\ l < i
    <3>1. k + 1 = l
      BY <2>2, <2>3, <2>6, <1>5
    <3> QED BY <3>1, <2>6, <2>1, <1>2
  <2>7. CASE k >= i /\ l >= i
    <3>1. k + 1 = l + 1
      BY <2>2, <2>3, <2>7, <1>5
    <3> QED BY <3>1, <2>1
  <2> QED BY <2>1, <1>2, <2>4, <2>5, <2>6, <2>7
<1>11. ClosedMarked'
  <2> SUFFICES ASSUME NEW k \in Entries', fds'[k] = Closed PROVE i <= k
    BY <1>1 DEF ClosedMarked
  <2>1. CASE k < i
    BY <2>1, <1>1, <1>4, <1>5 DEF IInv, ArrayInv, ClosedMarked
  <2>2. k \in Nat
    BY <1>1, <1>2 DEF Entries
  <2> QED BY <2>1, <2>2, <1>2
<1>12. fds' \in [Index -> Fds \cup {Listener, Closed, 0}]
  <2>1. \A k \in Index : Shift(k) \in Fds \cup {Listener, Closed, 0}
    <3> TAKE k \in Index
    <3>1. CASE k \in i .. (nfds - 1)
      <4>1. k \in Entries
        BY <3>1, <1>2 DEF Entries
      <4> QED BY <3>1, <4>1, <1>2, <1>4 DEF Shift
    <3>2. CASE k \notin i .. (nfds - 1)
      BY <3>2, <1>2 DEF Shift
    <3> QED BY <3>1, <3>2
  <2> QED BY <2>1, <1>1
<1>13. nfds' \in Nat \ {0} /\ ArrayBounded'
  BY <1>1, <1>2, <1>3, Numbers DEF ArrayBounded
<1>14. TypeOK' /\ PassShape'
  BY <1>1, <1>2, <1>12, <1>13 DEF IInv, TypeOK, PassShape, kernel
<1> QED BY <1>7, <1>8, <1>9, <1>10, <1>11, <1>13, <1>14 DEF IInv, ArrayInv

(* The other steps of compress_fds only move on. *)
LEMMA CompressStep == IInv /\ Compress => IInv'
<1> SUFFICES ASSUME IInv, Compress PROVE IInv'
  OBVIOUS
<1>1. CASE i < nfds /\ fds[i] = Closed
  BY <1>1, ShiftStep
<1>2. CASE ~ (i < nfds /\ fds[i] = Closed)
  <2>1. /\ UNCHANGED <<fds, nfds, ready, compress, fatal, newfd, kernel, served>>
        /\ pc = "compress" /\ pc' \in {"compress", "poll", "ended"}
        /\ nfds \in Nat \ {0} /\ i \in 0 .. ArraySize
    BY <1>2 DEF Compress, IInv, TypeOK
  <2>2. \/ pc' = "compress" /\ i < nfds /\ fds[i] # Closed /\ i' = i + 1
        \/ pc' # "compress" /\ i >= nfds /\ i' = i
    BY <1>2 DEF Compress, NextIndex
  <2>3. Accepted' = Accepted /\ Entries' = Entries
    BY <2>1 DEF Accepted, Entries, kernel
  <2>4. fds'[0] = Listener /\ OnlyAccepted' /\ AllAccepted' /\ Once'
    BY <2>1, <2>3, ArraySame DEF IInv
  <2>5. ClosedMarked'
    <3> SUFFICES ASSUME NEW k \in Entries, fds[k] = Closed, pc' # "ended"
                 PROVE  pc' = "compress" /\ i' <= k
      BY <2>1, <2>3 DEF ClosedMarked
    <3>1. k \in Nat /\ k < nfds
      BY <2>1 DEF Entries
    <3>2. i <= k
      BY <2>1 DEF IInv, ArrayInv, ClosedMarked
    <3>3. i < nfds
      BY <3>1, <3>2, <2>1
    <3>4. pc' = "compress" /\ fds[i] # Closed /\ i' = i + 1
      BY <2>2, <3>3, <2>1
    <3>5. k # i
      BY <3>4
    <3> QED BY <3>1, <3>2, <3>4, <3>5, <2>1
  <2>6. i' \in 0 .. ArraySize
    BY <2>1, <2>2, Numbers DEF IInv, ArrayBounded
  <2>7. TypeOK' /\ PassShape'
    BY <2>1, <2>3, <2>6 DEF IInv, TypeOK, PassShape, kernel
  <2> QED BY <2>1, <2>4, <2>5, <2>7 DEF IInv, ArrayInv, ArrayBounded
<1> QED BY <1>1, <1>2

(* Every step keeps the invariant. *)
LEMMA NextIInv == IInv /\ [Next]_vars => IInv'
<1> SUFFICES ASSUME IInv, [Next]_vars PROVE IInv'
  OBVIOUS
<1>1. CASE UNCHANGED vars
  BY <1>1 DEF vars, array, kernel, IInv, TypeOK, PassShape, ArrayInv, ArrayBounded,
     OnlyAccepted, AllAccepted, Once, ClosedMarked, Accepted, Entries
<1>2. CASE Next
  BY <1>2, QuietSteps, PeerSteps, AcceptStep, LoginStep, ServeStep, CompressStep
     DEF Next, Loop
<1> QED BY <1>1, <1>2

(* What the loop relies on follows from the invariant. *)
LEMMA InvariantSuffices == IInv => TypeOK /\ PolledOnce /\ PollsOpenOnly
<1> SUFFICES ASSUME IInv PROVE PolledOnce /\ PollsOpenOnly
  BY DEF IInv
<1>1. 0 \in Entries /\ fds[0] = Listener /\ open \subseteq Fds
  BY DEF IInv, TypeOK, ArrayInv, Entries
<1>2. \A f \in Accepted : f # Closed
  BY <1>1, Numbers DEF Accepted
<1>3. PolledOnce
  BY <1>1, <1>2 DEF PolledOnce, ArrayBounded, IInv, ArrayInv, AllAccepted, Once
<1>4. PollsOpenOnly
  <2> SUFFICES ASSUME pc = "poll" PROVE {fds[k] : k \in Entries} = open \cup {Listener}
    BY DEF PollsOpenOnly
  <2>1. Accepted = open
    BY DEF Accepted
  <2>2. \A k \in Entries \ {0} : fds[k] \in open
    BY <2>1, NoneClosed DEF IInv, ArrayInv, OnlyAccepted
  <2>3. \A f \in open : \E k \in Entries : fds[k] = f
    BY <2>1 DEF IInv, ArrayInv, AllAccepted
  <2> QED BY <1>1, <2>2, <2>3
<1> QED BY <1>3, <1>4

(* For any number of descriptors: every connection the process holds is in *)
(* exactly one entry of poll_fds, poll is asked about open descriptors     *)
(* only, and the array needs one entry more than there are descriptors,    *)
(* which run() does not compare with its size.                             *)
THEOREM Polling == Spec => [](TypeOK /\ PolledOnce /\ PollsOpenOnly)
<1>1. Init => IInv
  BY InitIInv
<1>2. IInv /\ [Next]_vars => IInv'
  BY NextIInv
<1>3. IInv => TypeOK /\ PolledOnce /\ PollsOpenOnly
  BY InvariantSuffices
<1> QED BY <1>1, <1>2, <1>3, PTL DEF Spec
-----------------------------------------------------------------------------
(* poll reports on an initial part of the entries, and those the pass has  *)
(* left behind with something to read were read from.                      *)
ReadBehind ==
  /\ \A k \in DOMAIN ready : 0 .. k \subseteq DOMAIN ready
  /\ \A k \in DOMAIN ready :
       k < i /\ ready[k] = "in" /\ fds[k] \in Fds => served[fds[k]] = 1

(* A pass begins with no connection read, and reads an entry's when it     *)
(* comes to the entry: those ahead of it, new ones included, are unread.   *)
UnreadAhead ==
  /\ \A f \in Fds : served[f] \in {0, 1}
  /\ pc \in {"poll", "compress", "accept", "login"} => served = NoneServed
  /\ pc = "scan" /\ i = 0 => served = NoneServed
  /\ pc = "scan" => \A k \in Entries : k >= i /\ fds[k] \in Fds => served[fds[k]] = 0

(* Once tells the entries apart: a read counts for one of them only.       *)
LEMMA UnreadAheadStep == IInv /\ UnreadAhead /\ [Next]_vars => UnreadAhead'
<1> SUFFICES ASSUME IInv, UnreadAhead, [Next]_vars PROVE UnreadAhead'
  OBVIOUS
<1>0. /\ TypeOK /\ PassShape
      /\ i \in Nat /\ nfds \in Nat \ {0}
      /\ \A f \in Fds : NoneServed[f] = 0
  BY Numbers DEF IInv, ArrayInv, TypeOK, NoneServed
<1>1. ASSUME served' = NoneServed PROVE UnreadAhead'
  BY <1>0, <1>1 DEF UnreadAhead
<1>2. ASSUME UNCHANGED <<pc, i, fds, nfds, served>> PROVE UnreadAhead'
  BY <1>2 DEF UnreadAhead, Entries
<1>3. CASE Poll \/ EndPass \/ Unexpected \/ Accept \/ AcceptFails \/ Login \/ Compress \/ Listening
  <2>1. served' = NoneServed
    <3>1. CASE Listening
      <4>1. i = 0
        BY <3>1, EntryRead DEF Listening
      <4> QED BY <3>1, <4>1 DEF Listening, UnreadAhead
    <3>2. CASE EndPass \/ Unexpected
      BY <3>2 DEF EndPass, Unexpected
    <3>3. CASE Poll \/ Accept \/ AcceptFails \/ Login \/ Compress
      BY <3>3 DEF Poll, Accept, AcceptFails, Login, Compress, UnreadAhead
    <3> QED BY <1>3, <3>1, <3>2, <3>3
  <2> QED BY <1>1, <2>1
<1>4. CASE PollEnds
  BY <1>4 DEF PollEnds, UnreadAhead
<1>5. CASE Skip
  <2>1. UNCHANGED <<pc, fds, nfds, served>> /\ i' = i + 1 /\ pc = "scan"
    BY <1>5 DEF Skip
  <2> QED BY <1>0, <2>1 DEF UnreadAhead, Entries
<1>6. CASE Serve
  <2> DEFINE f == fds[i]
  <2>1. /\ pc = "scan" /\ pc' \in {"scan", "ended"} /\ i' = i + 1 /\ nfds' = nfds
        /\ served' = [served EXCEPT ![f] = @ + 1]
        /\ fds' = fds \/ fds' = [fds EXCEPT ![i] = Closed]
    BY <1>6 DEF Serve, CloseEntry
  <2>2. i \in Entries /\ f \in Fds /\ f # Closed /\ served \in [Fds -> Nat]
    <3>1. i \in Entries /\ f \in open
      BY <1>6, EntryRead DEF Serve
    <3> QED BY <1>0, <3>1, Numbers DEF TypeOK
  <2>3. served[f] = 0
    BY <1>0, <2>1, <2>2 DEF UnreadAhead
  <2>4. served'[f] = 1 /\ \A g \in Fds \ {f} : served'[g] = served[g]
    BY <2>1, <2>2, <2>3
  <2>5. \A g \in Fds : served'[g] \in {0, 1}
    BY <2>4 DEF UnreadAhead
  <2>6. \A k \in Entries : k >= i + 1 => fds'[k] = fds[k] /\ fds[k] # f
    <3> SUFFICES ASSUME NEW k \in Entries, k >= i + 1 PROVE fds'[k] = fds[k] /\ fds[k] # f
      OBVIOUS
    <3>1. k # i
      BY <1>0 DEF Entries
    <3>2. fds[k] # f
      BY <2>2, <3>1 DEF IInv, ArrayInv, Once
    <3>3. k \in Index
      BY <1>0, Numbers DEF Entries, Index, IInv, ArrayBounded
    <3> QED BY <1>0, <2>1, <3>1, <3>2, <3>3 DEF TypeOK
  <2>7. \A k \in Entries : k >= i + 1 /\ fds'[k] \in Fds => served'[fds'[k]] = 0
    <3> SUFFICES ASSUME NEW k \in Entries, k >= i + 1, fds'[k] \in Fds
                 PROVE  served'[fds'[k]] = 0
      OBVIOUS
    <3>1. k >= i
      BY <1>0 DEF Entries
    <3>2. served[fds[k]] = 0 /\ fds[k] \in Fds \ {f}
      BY <2>1, <2>6, <3>1 DEF UnreadAhead
    <3> QED BY <2>4, <2>6, <3>2
  <2>8. Entries' = Entries /\ i' # 0
    BY <1>0, <2>1 DEF Entries
  <2> QED BY <2>1, <2>5, <2>7, <2>8 DEF UnreadAhead
<1>7. CASE Connect \/ \E f \in Fds : HangUp(f) \/ \E p \in Packets : PeerSend(f, p)
  BY <1>2, <1>7 DEF Connect, HangUp, PeerSend, array
<1>8. CASE UNCHANGED vars
  BY <1>2, <1>8 DEF vars, array
<1> QED BY <1>3, <1>4, <1>5, <1>6, <1>7, <1>8 DEF Next, Loop

(* Handlers, accepted connections and closings leave the entries behind    *)
(* the pass as they are, or Closed.                                        *)
LEMMA ReadBehindStep == IInv /\ UnreadAhead /\ ReadBehind /\ [Next]_vars => ReadBehind'
<1> SUFFICES ASSUME IInv, UnreadAhead, ReadBehind, [Next]_vars PROVE ReadBehind'
  OBVIOUS
<1>0. /\ TypeOK /\ PassShape /\ fds[0] = Listener
      /\ i \in Nat /\ nfds \in Nat \ {0} /\ DOMAIN ready \subseteq Nat
  BY Numbers DEF IInv, ArrayInv, TypeOK, Index
<1>1. ASSUME DOMAIN ready' = {} PROVE ReadBehind'
  BY <1>1 DEF ReadBehind
<1>2. ASSUME UNCHANGED <<ready, i, fds, served>> PROVE ReadBehind'
  BY <1>2 DEF ReadBehind
<1>3. CASE Poll
  <2>1. DOMAIN ready' = 0 .. (nfds - 1) /\ i' = 0
    BY <1>3 DEF Poll, Entries
  <2>2. \A k \in 0 .. (nfds - 1) : ~ (k < 0) /\ 0 .. k \subseteq 0 .. (nfds - 1)
    BY <1>0
  <2> QED BY <2>1, <2>2 DEF ReadBehind
<1>4. CASE EndPass \/ Unexpected
  BY <1>1, <1>4, NoPassType DEF EndPass, Unexpected
<1>5. CASE Skip \/ AcceptFails
  <2>1. UNCHANGED <<ready, fds, served>> /\ i' = i + 1
    BY <1>5 DEF Skip, AcceptFails
  <2>2. ~ (ready[i] = "in" /\ fds[i] \in Fds)
    BY <1>0, <1>5, Numbers DEF Skip, AcceptFails, PassShape
  <2>3. \A k \in Nat : k < i + 1 => k < i \/ k = i
    BY <1>0
  <2> QED BY <1>0, <2>1, <2>2, <2>3 DEF ReadBehind
<1>6. CASE PollEnds \/ Listening \/ Accept
  BY <1>2, <1>6 DEF PollEnds, Listening, Accept, array
<1>7. CASE Login
  <2>1. /\ UNCHANGED <<ready, i, served>>
        /\ fds' = [fds EXCEPT ![nfds] = newfd]
    BY <1>7 DEF Login, Slot
  <2>2. nfds \notin DOMAIN ready
    BY <1>0 DEF PassShape, Entries
  <2>3. \A k \in DOMAIN ready : fds'[k] = fds[k]
    BY <1>0, <2>1, <2>2 DEF TypeOK
  <2> QED BY <2>1, <2>3 DEF ReadBehind
<1>8. CASE Serve
  <2>1. /\ ready' = ready /\ i' = i + 1 /\ served' = [served EXCEPT ![fds[i]] = @ + 1]
        /\ fds' = fds \/ fds' = [fds EXCEPT ![i] = Closed]
    BY <1>8 DEF Serve, CloseEntry
  <2>2. \A k \in DOMAIN ready : k # i => fds'[k] = fds[k]
    BY <1>0, <2>1 DEF TypeOK
  <2>3. i \in DOMAIN ready => (fds'[i] = fds[i] \/ fds'[i] = Closed)
    BY <1>0, <2>1 DEF TypeOK
  <2>4. Closed \notin Fds
    BY Numbers
  <2>5. \A k \in Nat : k < i + 1 => k < i \/ k = i
    BY <1>0
  <2>6. ASSUME NEW k \in DOMAIN ready, k < i + 1, ready[k] = "in", fds'[k] \in Fds
        PROVE  served'[fds[k]] = 1 /\ fds'[k] = fds[k]
    <3>0. i \in Entries /\ fds[i] \in Fds /\ fds[i] # Closed /\ served[fds[i]] = 0
      <4>1. i \in Entries /\ fds[i] \in open
        BY <1>8, EntryRead DEF Serve
      <4>2. fds[i] \in Fds /\ fds[i] # Closed
        BY <1>0, <4>1, Numbers DEF TypeOK
      <4>3. pc = "scan" /\ i >= i
        BY <1>0, <1>8 DEF Serve
      <4>4. served[fds[i]] = 0
        BY <4>1, <4>2, <4>3 DEF UnreadAhead
      <4> QED BY <4>1, <4>2, <4>4
    <3>1. CASE k = i
      <4>1. served'[fds[i]] = 1
        <5>1. served \in [Fds -> Nat]
          BY <1>0 DEF TypeOK
        <5> QED BY <2>1, <3>0, <5>1
      <4> QED BY <2>3, <2>4, <2>6, <3>1, <4>1
    <3>2. CASE k # i
      <4>1. k < i /\ fds'[k] = fds[k]
        BY <1>0, <2>2, <2>5, <2>6, <3>2
      <4>2. served[fds[k]] = 1 /\ fds[k] \in Fds
        BY <2>6, <4>1 DEF ReadBehind
      <4>3. fds[k] # fds[i]
        BY <3>0, <4>2
      <4> QED BY <1>0, <2>1, <3>0, <4>1, <4>2, <4>3 DEF TypeOK
    <3> QED BY <3>1, <3>2
  <2> QED BY <2>1, <2>6 DEF ReadBehind
<1>9. CASE Compress
  <2>1. DOMAIN ready' = {}
    BY <1>0, <1>9 DEF Compress, PassShape
  <2> QED BY <1>1, <2>1
<1>10. CASE Connect \/ \E f \in Fds : HangUp(f) \/ \E p \in Packets : PeerSend(f, p)
  BY <1>2, <1>10 DEF Connect, HangUp, PeerSend, array
<1>11. CASE UNCHANGED vars
  BY <1>2, <1>11 DEF vars, array
<1> QED BY <1>3, <1>4, <1>5, <1>6, <1>7, <1>8, <1>9, <1>10, <1>11 DEF Next, Loop

(* A pass over any number of entries reads from every connection that poll *)
(* reported, and from none twice, unless it is cut short: closings in the  *)
(* same pass, and connections accepted in it, cost nobody a turn.          *)
THEOREM WholePass == Spec => PassComplete
<1> DEFINE PassInv == IInv /\ UnreadAhead /\ ReadBehind
<1>1. Init => PassInv
  <2>1. Init => ReadBehind
    BY NoPassType DEF Init, ReadBehind
  <2>2. Init => UnreadAhead
    BY DEF Init, UnreadAhead, NoneServed
  <2> QED BY <2>1, <2>2, InitIInv
<1>2. PassInv /\ [Next]_vars => PassInv'
  BY NextIInv, UnreadAheadStep, ReadBehindStep
<1>3. PassInv => (EndPass => ReadOnce)
  <2> SUFFICES ASSUME PassInv, EndPass, NEW k \in DOMAIN ready,
                      ready[k] = "in", fds[k] \in Fds
               PROVE  served[fds[k]] = 1
    BY DEF ReadOnce, UnreadAhead
  <2>1. i \in Nat /\ k \in Nat
    BY Numbers DEF IInv, TypeOK, Index
  <2>2. i \notin DOMAIN ready
    BY DEF EndPass, PassOver
  <2>3. ~ (i <= k)
    BY <2>1, <2>2 DEF ReadBehind
  <2> QED BY <2>1, <2>3 DEF ReadBehind
<1>4. PassInv /\ [Next]_vars => [EndPass => ReadOnce]_vars
  BY <1>3
<1> HIDE DEF PassInv
<1> QED BY <1>1, <1>2, <1>4, PTL DEF Spec, PassComplete
-----------------------------------------------------------------------------
MostEntries == Cardinality(Fds) + 1

Free == Cardinality(Fds \ open)

(* At most so many steps of the loop are left until it calls poll again:   *)
(* one per entry of the pass and of the compression, two per connection    *)
(* the accept loop may take.                                               *)
StepsToPoll ==
  CASE pc \in {"poll", "ended"} -> 0
    [] pc = "compress" -> 1 + (nfds - i)
    [] pc = "scan" ->
         (MostEntries + 2) + (MostEntries - i)
           + (IF i = 0 THEN 2 * Cardinality(Fds) + 1 ELSE 0)
    [] pc = "accept" -> (MostEntries + 2) + MostEntries + 2 * Free
    [] pc = "login" -> (MostEntries + 2) + MostEntries + 2 * Free + 1

IndexWithin ==
  /\ pc = "scan" => i <= MostEntries
  /\ pc = "compress" => i <= nfds

StepsToPollBounded == StepsToPoll \in 0 .. 4 * Cardinality(Fds) + 5

PassAdvances ==
  [][pc \notin {"poll", "ended"} => StepsToPoll' < StepsToPoll]_<<pc, array, newfd>>

(* A connection takes one descriptor from those that are free. *)
LEMMA FreeFacts ==
  ASSUME IInv
  PROVE  /\ Free \in Nat /\ Free <= Cardinality(Fds) /\ Cardinality(Fds) \in Nat
         /\ Accept => Free' = Free - 1 /\ Free >= 1
<1>1. Fds \ open \subseteq Fds /\ IsFiniteSet(Fds) /\ Cardinality(Fds) \in Nat
  BY Numbers
<1>2. IsFiniteSet(Fds \ open) /\ Free <= Cardinality(Fds) /\ Free \in Nat
  BY <1>1, FS_Subset, FS_CardinalityType DEF Free
<1>3. ASSUME Accept PROVE Free' = Free - 1 /\ Free >= 1
  <2> DEFINE f == Min(Fds \ open)
  <2>1. open # Fds /\ open' = open \cup {f} /\ open \subseteq Fds
    BY <1>3 DEF Accept, CanAccept, IInv, TypeOK
  <2>2. f \in Fds \ open
    BY <2>1, Numbers, NatSetHasMin
  <2>3. Fds \ open' = (Fds \ open) \ {f}
    BY <2>1
  <2> HIDE DEF f
  <2>4. Cardinality((Fds \ open) \ {f}) = Cardinality(Fds \ open) - 1
    BY <1>2, <2>2, FS_RemoveElement
  <2>5. Free' = Free - 1
    BY <2>3, <2>4 DEF Free
  <2>6. Cardinality((Fds \ open) \ {f}) \in Nat
    BY <1>2, FS_RemoveElement, FS_CardinalityType
  <2> QED BY <1>2, <2>4, <2>5, <2>6 DEF Free
<1> QED BY <1>1, <1>2, <1>3

(* The place of the loop in its array, as arithmetic needs it. *)
LEMMA LoopNumbers ==
  ASSUME IInv
  PROVE  /\ i \in Nat /\ nfds \in Nat /\ nfds >= 1 /\ nfds <= MostEntries
         /\ MostEntries = Cardinality(Fds) + 1 /\ Cardinality(Fds) \in Nat
         /\ ~ PassOver => i < nfds
         /\ pc \in {"accept", "login"} => i = 0
         /\ pc \in {"poll", "scan", "accept", "login", "compress", "ended"}
<1>1. TypeOK /\ PassShape /\ ArrayBounded
  BY DEF IInv
<1>2. i \in Nat /\ nfds \in Nat /\ nfds >= 1
  BY <1>1, Numbers DEF TypeOK
<1>3. ~ PassOver => i < nfds
  BY <1>1, <1>2 DEF PassOver, PassShape, Entries
<1> QED BY <1>1, <1>2, <1>3, Numbers DEF ArrayBounded, MostEntries, PassShape, TypeOK

LEMMA IndexStep == IInv /\ IndexWithin /\ [Next]_vars => IndexWithin'
<1> SUFFICES ASSUME IInv, IndexWithin, [Next]_vars PROVE IndexWithin'
  OBVIOUS
<1> DEFINE C == Cardinality(Fds)
<1>0. /\ i \in Nat /\ nfds \in Nat /\ nfds >= 1 /\ nfds <= MostEntries
      /\ ~ PassOver => i < nfds
      /\ pc \in {"accept", "login"} => i = 0
      /\ MostEntries = C + 1 /\ C \in Nat
  BY LoopNumbers
<1> HIDE DEF C
<1>1. MostEntries' = MostEntries
  BY DEF MostEntries
<1>2. CASE Poll \/ EndPass \/ Unexpected
  BY <1>0, <1>1, <1>2 DEF Poll, EndPass, Unexpected, IndexWithin
<1>3. CASE Skip \/ Serve
  <2>1. i' = i + 1 /\ i < nfds /\ pc' \in {"scan", "ended"}
    BY <1>0, <1>3 DEF Skip, Serve, CloseEntry
  <2> QED BY <1>0, <1>1, <2>1 DEF IndexWithin
<1>4. CASE AcceptFails
  <2>1. i' = 1 /\ pc' = "scan"
    BY <1>0, <1>4 DEF AcceptFails
  <2> QED BY <1>0, <1>1, <2>1 DEF IndexWithin
<1>5. CASE Listening \/ Accept \/ Login \/ PollEnds
  BY <1>5 DEF Listening, Accept, Login, PollEnds, IndexWithin
<1>6. CASE Compress
  BY <1>0, <1>1, <1>6 DEF Compress, NextIndex, IndexWithin
<1>7. CASE Connect \/ \E f \in Fds : HangUp(f) \/ \E p \in Packets : PeerSend(f, p)
  BY <1>1, <1>7 DEF Connect, HangUp, PeerSend, array, IndexWithin
<1>8. CASE UNCHANGED vars
  BY <1>1, <1>8 DEF vars, array, IndexWithin
<1> QED BY <1>2, <1>3, <1>4, <1>5, <1>6, <1>7, <1>8 DEF Next, Loop

LEMMA StepsBound == IInv /\ IndexWithin => StepsToPollBounded
<1> SUFFICES ASSUME IInv, IndexWithin PROVE StepsToPollBounded
  OBVIOUS
<1> DEFINE C == Cardinality(Fds)
<1>0. /\ i \in Nat /\ nfds \in Nat /\ nfds >= 1 /\ nfds <= MostEntries
      /\ MostEntries = C + 1 /\ C \in Nat /\ Free \in Nat /\ Free <= C
      /\ pc \in {"poll", "scan", "accept", "login", "compress", "ended"}
  BY LoopNumbers, FreeFacts
<1>a. StepsToPoll \in Int /\ 0 <= StepsToPoll /\ StepsToPoll <= 4 * C + 5
      => StepsToPollBounded
  BY <1>0 DEF StepsToPollBounded
<1>1. CASE pc \in {"poll", "ended"}
  BY <1>0, <1>a, <1>1 DEF StepsToPoll
<1>2. CASE pc = "compress"
  <2>1. StepsToPoll = 1 + (nfds - i) /\ i <= nfds
    BY <1>2 DEF StepsToPoll, IndexWithin
  <2> HIDE DEF C
  <2> QED BY <1>0, <1>a, <2>1
<1>3. CASE pc = "scan"
  <2>1. /\ i <= MostEntries
        /\ StepsToPoll = (MostEntries + 2) + (MostEntries - i)
                           + (IF i = 0 THEN 2 * C + 1 ELSE 0)
    BY <1>3 DEF StepsToPoll, IndexWithin
  <2> HIDE DEF C
  <2> QED BY <1>0, <1>a, <2>1
<1>4. CASE pc \in {"accept", "login"}
  <2>1. \/ StepsToPoll = (MostEntries + 2) + MostEntries + 2 * Free
        \/ StepsToPoll = (MostEntries + 2) + MostEntries + 2 * Free + 1
    BY <1>4 DEF StepsToPoll
  <2>2. pc = "login" => Free + 1 <= C
    <3> SUFFICES ASSUME pc = "login" PROVE Free + 1 <= C
      OBVIOUS
    <3>1. newfd \in open /\ open \subseteq Fds
      BY DEF IInv, PassShape, TypeOK
    <3>2. Fds \ open \in SUBSET Fds /\ Fds \ open # Fds
      BY <3>1
    <3>3. Cardinality(Fds \ open) # Cardinality(Fds)
      BY <3>2, Numbers, FS_Subset
    <3>4. Free # C
      BY <3>3 DEF Free
    <3> HIDE DEF C
    <3> QED BY <1>0, <3>4
  <2> HIDE DEF C
  <2> QED BY <1>0, <1>4, <1>a, <2>1, <2>2
<1> QED BY <1>0, <1>1, <1>2, <1>3, <1>4

(* Every step of the loop brings the next call of poll nearer.             *)
LEMMA StepsFall ==
  ASSUME IInv, IndexWithin, IInv', Loop, pc # "poll"
  PROVE  StepsToPoll' < StepsToPoll
<1> DEFINE C == Cardinality(Fds)
<1>0. /\ i \in Nat /\ nfds \in Nat /\ nfds >= 1 /\ nfds <= MostEntries
      /\ MostEntries = C + 1 /\ C \in Nat /\ Free \in Nat /\ Free <= C
      /\ ~ PassOver => i < nfds
      /\ pc \in {"accept", "login"} => i = 0
  BY LoopNumbers, FreeFacts
<1>1. /\ MostEntries' = MostEntries
      /\ open' = open => Free' = Free
  BY DEF MostEntries, Free
<1>2. pc = "scan" => /\ i <= MostEntries
                     /\ StepsToPoll = (MostEntries + 2) + (MostEntries - i)
                                        + (IF i = 0 THEN 2 * C + 1 ELSE 0)
  BY DEF StepsToPoll, IndexWithin
<1>3. pc' = "scan" => StepsToPoll' = (MostEntries + 2) + (MostEntries - i')
                                       + (IF i' = 0 THEN 2 * C + 1 ELSE 0)
  BY <1>1 DEF StepsToPoll
<1>4. pc' \in {"poll", "ended"} => StepsToPoll' = 0
  BY DEF StepsToPoll
<1>5. /\ pc = "accept" => StepsToPoll = (MostEntries + 2) + MostEntries + 2 * Free
      /\ pc = "login" => StepsToPoll = (MostEntries + 2) + MostEntries + 2 * Free + 1
      /\ pc = "compress" => StepsToPoll = 1 + (nfds - i) /\ i <= nfds
  BY DEF StepsToPoll, IndexWithin
<1>6. /\ pc' = "accept" => StepsToPoll' = (MostEntries + 2) + MostEntries + 2 * Free'
      /\ pc' = "login" => StepsToPoll' = (MostEntries + 2) + MostEntries + 2 * Free' + 1
      /\ pc' = "compress" => StepsToPoll' = 1 + (nfds' - i')
  BY <1>1 DEF StepsToPoll
<1> HIDE DEF C
<1>7. CASE EndPass \/ Unexpected
  <2>1. /\ pc = "scan" /\ i' = 0 /\ nfds' = nfds
        /\ pc' = "compress" \/ pc' \in {"poll", "ended"}
    BY <1>7 DEF EndPass, Unexpected
  <2> QED BY <1>0, <1>2, <1>4, <1>6, <2>1
<1>8. CASE Skip \/ Serve
  <2>1. /\ pc = "scan" /\ i < nfds /\ i' = i + 1
        /\ pc' = "scan" \/ pc' \in {"poll", "ended"}
    BY <1>0, <1>8 DEF Skip, Serve, CloseEntry
  <2> QED BY <1>0, <1>2, <1>3, <1>4, <2>1
<1>9. CASE Listening
  <2>1. pc = "scan" /\ pc' = "accept" /\ i' = i /\ open' = open
    BY <1>9 DEF Listening, array, kernel
  <2>2. i = 0
    BY <2>1 DEF IInv, PassShape
  <2>3. StepsToPoll = (MostEntries + 2) + MostEntries + 2 * C + 1
    BY <1>0, <1>2, <2>1, <2>2
  <2> QED BY <1>0, <1>1, <1>6, <2>1, <2>3
<1>10. CASE Accept
  <2>1. pc = "accept" /\ pc' = "login" /\ Free' = Free - 1
    BY <1>10, FreeFacts DEF Accept
  <2> QED BY <1>0, <1>5, <1>6, <2>1
<1>11. CASE AcceptFails
  <2>1. pc = "accept" /\ pc' = "scan" /\ i' = 1
    BY <1>0, <1>11 DEF AcceptFails
  <2> QED BY <1>0, <1>3, <1>5, <2>1
<1>12. CASE Login
  <2>1. pc = "login" /\ pc' \in {"accept", "ended"} /\ open' = open
    BY <1>12 DEF Login
  <2> QED BY <1>0, <1>1, <1>4, <1>5, <1>6, <2>1
<1>13. CASE Compress
  <2>1. /\ pc = "compress"
        /\ \/ i < nfds /\ nfds' = nfds - 1 /\ i' = i /\ pc' = "compress"
           \/ i < nfds /\ nfds' = nfds /\ i' = i + 1 /\ pc' = "compress"
           \/ pc' \in {"poll", "ended"}
    BY <1>13 DEF Compress, NextIndex
  <2> QED BY <1>0, <1>4, <1>5, <1>6, <2>1
<1>14. ~ Poll
  BY DEF Poll
<1> QED BY <1>7, <1>8, <1>9, <1>10, <1>11, <1>12, <1>13, <1>14 DEF Loop

(* What is safe in RequestsRead and HangUpsClosed, for any number of       *)
(* descriptors: whoever connects, sends or hangs up meanwhile, the loop    *)
(* calls poll again after at most four steps per descriptor and five more. *)
(* The accept loop closes nothing, so that it ends when the descriptors    *)
(* do, and the pass reads the entries poll was given and no others.        *)
THEOREM PassesEnd == Spec => []StepsToPollBounded /\ PassAdvances
<1>1. Init => IndexWithin
  BY DEF Init, IndexWithin
<1>2. /\ IInv /\ IndexWithin /\ IInv' /\ [Next]_vars
      => [pc \notin {"poll", "ended"} => StepsToPoll' < StepsToPoll]_<<pc, array, newfd>>
  <2> SUFFICES ASSUME IInv, IndexWithin, IInv', [Next]_vars,
                      ~ UNCHANGED <<pc, array, newfd>>, pc \notin {"poll", "ended"}
               PROVE  StepsToPoll' < StepsToPoll
    OBVIOUS
  <2>1. ~ UNCHANGED vars /\ ~ PollEnds /\ ~ Connect
    BY DEF vars, PollEnds, Connect
  <2>2. ~ \E f \in Fds : HangUp(f) \/ \E p \in Packets : PeerSend(f, p)
    BY DEF HangUp, PeerSend
  <2>3. Loop
    BY <2>1, <2>2 DEF Next
  <2> QED BY <2>3, StepsFall
<1> QED BY <1>1, <1>2, InitIInv, NextIInv, IndexStep, StepsBound, PTL
        DEF Spec, PassAdvances
=============================================================================
