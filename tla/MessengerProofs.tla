-------------------------- MODULE MessengerProofs --------------------------
(***************************************************************************)
(* Theorems about Messenger, for blocks and messages of any length: the    *)
(* messenger never reads behind the block, and a message whose copy nobody *)
(* disturbed is printed whole and alone.                                   *)
(***************************************************************************)
EXTENDS Messenger, TLAPS

Readers == {"top", "print", "measure", "erase"}

(* The shape of the variables that are not the messenger's, with where a   *)
(* copy can be.                                                            *)
CopyShape ==
  /\ block \in [Cells -> Messages \cup {Title, NULL}]
  /\ copying \in [Writers -> Messages \cup {NULL}]
  /\ at \in [Writers -> Cells]
  /\ \A w \in Writers : copying[w] # NULL => at[w] <= LastCell(w)
  /\ fault \in {"none", "client", "messenger"}
  /\ clean \in BOOLEAN
  /\ alone \in Messages \cup {NULL}

ReadShape ==
  /\ reader \in Readers
  /\ pos \in Cells /\ size \in 0 .. BlockSize - 1
  /\ out \in Seq(Messages \cup {Title})

(* No copy puts a character into the last cell. *)
Terminated == block[BlockSize] = NULL

ShapeInv == CopyShape /\ ReadShape /\ Terminated

(* A message is shorter than the block. *)
LEMMA LengthFacts ==
  /\ BlockSize \in Nat /\ BlockSize >= 2
  /\ Cells = 1 .. BlockSize /\ 1 \in Cells /\ BlockSize \in Cells
  /\ \A m \in Messages \cup {Title} :
       m # NULL /\ Length[m] \in Nat /\ 1 <= Length[m] /\ Length[m] <= BlockSize - 1
<1>1. /\ BlockSize \in Nat
      /\ \A m \in Messages \cup {Title} : m # NULL /\ Length[m] \in 1 .. BlockSize - 1
  BY ConstantsAssumption
<1>2. Title \in Messages \cup {Title}
  OBVIOUS
<1>3. BlockSize >= 2
  BY <1>1, <1>2
<1> QED BY <1>1, <1>3 DEF Cells

LEMMA InitShape == Init => ShapeInv
<1> SUFFICES ASSUME Init PROVE ShapeInv
  OBVIOUS
<1>1. CopyShape
  BY LengthFacts DEF Init, CopyShape, Holds, Writers
<1>2. ReadShape
  BY LengthFacts DEF Init, ReadShape, Readers
<1>3. Terminated
  BY LengthFacts DEF Init, Terminated, Holds
<1> QED BY <1>1, <1>2, <1>3 DEF ShapeInv

LEMMA CopyKeepsShape ==
  ASSUME ShapeInv, NEW w \in Writers,
         (\E m \in Messages : StartCopy(w, m)) \/ AttachFails(w) \/ CopyCell(w)
  PROVE  ShapeInv'
<1>1. CopyShape /\ ReadShape /\ Terminated
  BY DEF ShapeInv
<1>2. ASSUME NEW m \in Messages, StartCopy(w, m) PROVE ShapeInv'
  <2>1. \A v \in Writers : copying'[v] # NULL => at'[v] <= LastCell(v)'
    <3> SUFFICES ASSUME NEW v \in Writers, copying'[v] # NULL
                 PROVE  at'[v] <= LastCell(v)'
      OBVIOUS
    <3>1. CASE v = w
      <4>1. copying'[v] = m /\ at'[v] = 1
        BY <1>1, <1>2, <3>1 DEF StartCopy, CopyShape
      <4> QED BY <4>1, LengthFacts DEF LastCell
    <3>2. CASE v # w
      <4>1. copying'[v] = copying[v] /\ at'[v] = at[v]
        BY <1>1, <1>2, <3>2 DEF StartCopy, CopyShape
      <4> QED BY <1>1, <4>1 DEF LastCell, CopyShape
    <3> QED BY <3>1, <3>2
  <2>2. /\ copying' \in [Writers -> Messages \cup {NULL}] /\ at' \in [Writers -> Cells]
        /\ clean' \in BOOLEAN /\ alone' = NULL
        /\ UNCHANGED <<block, reader, pos, size, out, fault>>
    BY <1>1, <1>2, LengthFacts DEF StartCopy, CopyShape, messenger, Empty
  <2> QED BY <1>1, <2>1, <2>2 DEF ShapeInv, CopyShape, ReadShape, Terminated
<1>3. CASE AttachFails(w)
  BY <1>1, <1>3 DEF AttachFails, client, messenger, ShapeInv, CopyShape, ReadShape,
                    Terminated, LastCell
<1>4. CASE CopyCell(w)
  <2> DEFINE m == copying[w]
  <2>1. /\ m \in Messages /\ m # NULL /\ at[w] \in Cells /\ at[w] <= LastCell(w)
        /\ block' = [block EXCEPT ![at[w]] = Holds(m)[at[w]]]
        /\ at' = [at EXCEPT ![w] = IF at[w] = LastCell(w) THEN 1 ELSE at[w] + 1]
        /\ \/ /\ at[w] = LastCell(w)
              /\ copying' = [copying EXCEPT ![w] = NULL]
              /\ alone' = IF clean THEN m ELSE NULL
           \/ at[w] # LastCell(w) /\ UNCHANGED <<copying, alone>>
        /\ UNCHANGED <<reader, pos, size, out, fault, clean>>
    BY <1>1, <1>4 DEF CopyCell, CopyShape, messenger
  <2>2. LastCell(w) \in Nat /\ LastCell(w) <= BlockSize
    BY <2>1, LengthFacts DEF LastCell
  <2>3. Holds(m)[at[w]] \in Messages \cup {Title, NULL}
        /\ (at[w] = BlockSize => Holds(m)[at[w]] = NULL)
    BY <2>1, LengthFacts DEF Holds
  <2>4. block' \in [Cells -> Messages \cup {Title, NULL}] /\ Terminated'
    BY <1>1, <2>1, <2>3, LengthFacts DEF CopyShape, Terminated
  <2>5. at' \in [Writers -> Cells]
    BY <1>1, <2>1, <2>2, LengthFacts DEF CopyShape
  <2>6. copying' \in [Writers -> Messages \cup {NULL}] /\ alone' \in Messages \cup {NULL}
    BY <1>1, <2>1 DEF CopyShape
  <2>7. \A v \in Writers : copying'[v] # NULL => at'[v] <= LastCell(v)'
    <3> SUFFICES ASSUME NEW v \in Writers, copying'[v] # NULL
                 PROVE  at'[v] <= LastCell(v)'
      OBVIOUS
    <3>1. CASE v = w
      <4>1. at[w] # LastCell(w) /\ copying'[w] = m /\ at'[w] = at[w] + 1
        BY <1>1, <2>1, <3>1 DEF CopyShape
      <4>2. LastCell(w)' = LastCell(w)
        BY <4>1 DEF LastCell
      <4> QED BY <2>1, <2>2, <3>1, <4>1, <4>2, LengthFacts
    <3>2. CASE v # w
      <4>1. copying'[v] = copying[v] /\ at'[v] = at[v]
        BY <1>1, <2>1, <3>2 DEF CopyShape
      <4> QED BY <1>1, <4>1 DEF LastCell, CopyShape
    <3> QED BY <3>1, <3>2
  <2> QED BY <1>1, <2>1, <2>4, <2>5, <2>6, <2>7 DEF ShapeInv, CopyShape, ReadShape
<1> QED BY <1>2, <1>3, <1>4

(* The messenger stops at a terminator: there is one in the last cell.     *)
LEMMA PassKeepsShape ==
  ASSUME ShapeInv, Pass \/ LoopEnds
  PROVE  ShapeInv'
<1>1. CopyShape /\ ReadShape /\ Terminated
  BY DEF ShapeInv
<1>2. ASSUME block[pos] # NULL PROVE pos + 1 \in Cells
  BY <1>1, <1>2, LengthFacts DEF ReadShape, Terminated
<1>3. ASSUME UNCHANGED <<block, client, fault, alone>>, clean' \in BOOLEAN, ReadShape'
      PROVE  ShapeInv'
  BY <1>1, <1>3 DEF ShapeInv, CopyShape, Terminated, client, LastCell
<1>4. CASE Look
  <2>1. /\ reader' = "print" /\ pos' = 1 /\ out' = <<>> /\ clean' = FALSE
        /\ UNCHANGED <<block, client, size, fault, alone>>
    BY <1>4 DEF Look, Goto
  <2>2. <<>> \in Seq(Messages \cup {Title})
    OBVIOUS
  <2>3. ReadShape'
    BY <1>1, <2>1, <2>2, LengthFacts DEF ReadShape, Readers
  <2> QED BY <1>3, <2>1, <2>3
<1>5. CASE PrintCell
  <2>1. pos \in Cells /\ pos + 1 \in Cells /\ block[pos] \in Messages \cup {Title}
    BY <1>1, <1>2, <1>5 DEF PrintCell, ReadShape, CopyShape
  <2>2. out' \in Seq(Messages \cup {Title})
    BY <1>1, <1>5, <2>1 DEF PrintCell, ReadShape
  <2>3. ReadShape'
    BY <1>1, <1>5, <2>1, <2>2 DEF PrintCell, Goto, ReadShape, Readers
  <2> QED BY <1>1, <1>3, <1>5, <2>3 DEF PrintCell, CopyShape
<1>6. CASE PrintEnds
  BY <1>1, <1>3, <1>6, LengthFacts DEF PrintEnds, Goto, ReadShape, CopyShape, Readers
<1>7. CASE Measure
  <2>1. ReadShape'
    BY <1>1, <1>2, <1>7, LengthFacts DEF Measure, Goto, ReadShape, Readers
  <2> QED BY <1>1, <1>3, <1>7, <2>1 DEF Measure, CopyShape
<1>8. CASE Erase
  <2>1. ReadShape'
    BY <1>1, <1>8, LengthFacts DEF Erase, Goto, ReadShape, Readers
  <2>2. block' \in [Cells -> Messages \cup {Title, NULL}] /\ Terminated'
    BY <1>1, <1>8, LengthFacts DEF Erase, EraseOne, ReadShape, CopyShape, Terminated
  <2> QED BY <1>1, <1>8, <2>1, <2>2 DEF Erase, ShapeInv, CopyShape, client, LastCell
<1>9. CASE LoopEnds
  BY <1>1, <1>9 DEF LoopEnds, ShapeInv, CopyShape, ReadShape, Terminated, client,
                    messenger, LastCell
<1> QED BY <1>4, <1>5, <1>6, <1>7, <1>8, <1>9 DEF Pass

LEMMA ShapeStep == ShapeInv /\ [Next]_vars => ShapeInv'
<1>1. ASSUME ShapeInv, UNCHANGED vars PROVE ShapeInv'
  BY <1>1 DEF vars, client, messenger, ShapeInv, CopyShape, ReadShape, Terminated, LastCell
<1> QED BY <1>1, CopyKeepsShape, PassKeepsShape DEF Next

(* Whatever two threads of the client write while the messenger prints,    *)
(* measures and erases, it never reads or erases behind the block.         *)
THEOREM Typing == Spec => []TypeOK
<1>1. ShapeInv => TypeOK
  BY DEF ShapeInv, CopyShape, ReadShape, Readers, TypeOK
<1> QED BY <1>1, InitShape, ShapeStep, PTL DEF Spec
-----------------------------------------------------------------------------
(* A copy that has the block to itself: the messenger sleeps, the cells it *)
(* has passed hold its message, and those before a message that is sent    *)
(* are still empty.                                                        *)
CleanCopy ==
  \A w \in Writers : clean /\ copying[w] # NULL =>
    /\ reader = "top"
    /\ \A v \in Writers \ {w} : copying[v] = NULL
    /\ \A c \in Cells : c < at[w] => block[c] = Holds(copying[w])[c]
    /\ w = "send" => \A c \in Cells : c >= at[w] => block[c] = NULL

Copies(n, m) == [c \in 1 .. n |-> m]

(* From then on the messenger goes over exactly that message.              *)
PassOver(m) ==
  /\ \A w \in Writers : copying[w] = NULL
  /\ reader = "top" => block = Holds(m) \/ block[1] = NULL
  /\ reader = "print" =>
       block = Holds(m) /\ pos <= Length[m] + 1 /\ out = Copies(pos - 1, m)
  /\ reader = "measure" =>
       block = Holds(m) /\ pos <= Length[m] + 1 /\ out = Copies(Length[m], m)
  /\ reader = "erase" =>
       /\ size = Length[m]
       /\ \A c \in Cells : block[c] = IF c < pos THEN NULL ELSE Holds(m)[c]

WholeInv == CleanCopy /\ (alone # NULL => PassOver(alone))

LEMMA InitWhole == Init => WholeInv
BY DEF Init, WholeInv, CleanCopy

LEMMA OneMore ==
  ASSUME NEW n \in Nat, NEW m
  PROVE  Append(Copies(n, m), m) = Copies(n + 1, m)
<1>1. Copies(n, m) \in Seq({m}) /\ Len(Copies(n, m)) = n
  BY DEF Copies
<1>2. /\ Append(Copies(n, m), m) \in Seq({m})
      /\ Len(Append(Copies(n, m), m)) = n + 1
      /\ DOMAIN Append(Copies(n, m), m) = 1 .. n + 1
      /\ \A i \in 1 .. n + 1 : Append(Copies(n, m), m)[i] = m
  BY <1>1 DEF Copies
<1> QED BY <1>2 DEF Copies

LEMMA CopyKeepsWhole ==
  ASSUME ShapeInv, WholeInv, NEW w \in Writers,
         (\E m \in Messages : StartCopy(w, m)) \/ AttachFails(w) \/ CopyCell(w)
  PROVE  WholeInv'
<1>0. CopyShape /\ ReadShape /\ Terminated /\ Writers = {"send", "recv"}
  BY DEF ShapeInv, Writers
<1>1. ASSUME NEW m \in Messages, StartCopy(w, m) PROVE WholeInv'
  <2>1. /\ copying[w] = NULL /\ copying' = [copying EXCEPT ![w] = m]
        /\ at'[w] = 1 /\ alone' = NULL
        /\ clean' => /\ reader = "top"
                     /\ \A v \in Writers : copying[v] = NULL
                     /\ w = "send" => \A c \in Cells : block[c] = NULL
        /\ UNCHANGED <<block, reader>>
    BY <1>0, <1>1 DEF StartCopy, CopyShape, messenger, Empty
  <2>2. CleanCopy'
    <3> SUFFICES ASSUME NEW v \in Writers, clean', copying'[v] # NULL
                 PROVE  /\ reader' = "top"
                        /\ \A u \in Writers \ {v} : copying'[u] = NULL
                        /\ \A c \in Cells : c < at'[v] => block'[c] = Holds(copying'[v])[c]
                        /\ v = "send" => \A c \in Cells : c >= at'[v] => block'[c] = NULL
      BY DEF CleanCopy, Holds
    <3>1. v = w
      BY <1>0, <2>1 DEF CopyShape
    <3> QED BY <1>0, <2>1, <3>1, LengthFacts DEF CopyShape
  <2> QED BY <2>1, <2>2 DEF WholeInv
<1>2. CASE AttachFails(w)
  BY <1>2 DEF AttachFails, client, messenger, WholeInv, CleanCopy, PassOver, Holds
<1>3. CASE CopyCell(w)
  <2> DEFINE m == copying[w]
  <2>1. /\ m \in Messages /\ m # NULL /\ at[w] \in Cells /\ at[w] <= LastCell(w)
        /\ block' = [block EXCEPT ![at[w]] = Holds(m)[at[w]]]
        /\ at' = [at EXCEPT ![w] = IF at[w] = LastCell(w) THEN 1 ELSE at[w] + 1]
        /\ \/ /\ at[w] = LastCell(w)
              /\ copying' = [copying EXCEPT ![w] = NULL]
              /\ alone' = IF clean THEN m ELSE NULL
           \/ at[w] # LastCell(w) /\ UNCHANGED <<copying, alone>>
        /\ UNCHANGED <<reader, pos, size, out, fault, clean>>
    BY <1>0, <1>3 DEF CopyCell, CopyShape, messenger
  <2>2. alone # NULL => FALSE
    BY <2>1 DEF WholeInv, PassOver
  <2>3. CASE at[w] # LastCell(w)
    <3>1. copying' = copying /\ alone' = NULL /\ at'[w] = at[w] + 1
      BY <1>0, <2>1, <2>2, <2>3 DEF CopyShape
    <3>2. CleanCopy'
      <4> SUFFICES ASSUME NEW v \in Writers, clean, copying[v] # NULL
                   PROVE  /\ reader = "top"
                          /\ \A u \in Writers \ {v} : copying[u] = NULL
                          /\ \A c \in Cells : c < at'[v] => block'[c] = Holds(copying[v])[c]
                          /\ v = "send" => \A c \in Cells : c >= at'[v] => block'[c] = NULL
        BY <2>1, <3>1 DEF CleanCopy, Holds
      <4>1. v = w
        BY <2>1 DEF WholeInv, CleanCopy
      <4>2. /\ reader = "top" /\ \A u \in Writers \ {w} : copying[u] = NULL
            /\ \A c \in Cells : c < at[w] => block[c] = Holds(m)[c]
            /\ w = "send" => \A c \in Cells : c >= at[w] => block[c] = NULL
        BY <2>1, <4>1 DEF WholeInv, CleanCopy
      <4>3. \A c \in Cells : c < at[w] + 1 => block'[c] = Holds(m)[c]
        <5> TAKE c \in Cells
        <5>1. CASE c < at[w]
          BY <1>0, <2>1, <4>2, <5>1, LengthFacts DEF CopyShape
        <5>2. CASE c = at[w]
          BY <1>0, <2>1, <5>2 DEF CopyShape
        <5> QED BY <2>1, <5>1, <5>2, LengthFacts
      <4>4. w = "send" => \A c \in Cells : c >= at[w] + 1 => block'[c] = NULL
        BY <1>0, <2>1, <4>2, LengthFacts DEF CopyShape
      <4> QED BY <3>1, <4>1, <4>2, <4>3, <4>4
    <3> QED BY <3>1, <3>2 DEF WholeInv
  <2>4. CASE at[w] = LastCell(w)
    <3>1. copying' = [copying EXCEPT ![w] = NULL] /\ alone' = IF clean THEN m ELSE NULL
      BY <2>1, <2>4
    <3>2. ~ clean => CleanCopy' /\ alone' = NULL
      BY <2>1, <3>1 DEF CleanCopy
    <3>3. ASSUME clean PROVE WholeInv'
      <4>2. /\ reader = "top" /\ \A u \in Writers \ {w} : copying[u] = NULL
            /\ \A c \in Cells : c < at[w] => block[c] = Holds(m)[c]
            /\ w = "send" => \A c \in Cells : c >= at[w] => block[c] = NULL
        BY <2>1, <3>3 DEF WholeInv, CleanCopy
      <4>3. \A u \in Writers : copying'[u] = NULL
        BY <1>0, <3>1, <4>2 DEF CopyShape
      <4>4. block' = Holds(m)
        <5>1. ASSUME NEW c \in Cells PROVE block'[c] = Holds(m)[c]
          <6>1. CASE c < at[w]
            BY <1>0, <2>1, <4>2, <6>1, LengthFacts DEF CopyShape
          <6>2. CASE c = at[w]
            BY <1>0, <2>1, <6>2 DEF CopyShape
          <6>3. CASE c > at[w]
            <7>1. w = "send"
              BY <1>0, <2>1, <2>4, <6>3, LengthFacts DEF LastCell
            <7>2. block'[c] = NULL
              BY <1>0, <2>1, <4>2, <6>3, <7>1, LengthFacts DEF CopyShape
            <7>3. Holds(m)[c] = NULL
              BY <2>1, <2>4, <6>3, <7>1, LengthFacts DEF LastCell, Holds
            <7> QED BY <7>2, <7>3
          <6> QED BY <2>1, <6>1, <6>2, <6>3, LengthFacts
        <5>2. block' \in [Cells -> Messages \cup {Title, NULL}]
          BY CopyKeepsShape DEF ShapeInv, CopyShape
        <5> QED BY <5>1, <5>2 DEF Holds
      <4>5. CleanCopy'
        BY <4>3 DEF CleanCopy
      <4>6. alone' = m /\ reader' = "top"
        BY <2>1, <3>1, <3>3, <4>2
      <4>7. PassOver(alone)'
        BY <4>3, <4>4, <4>6 DEF PassOver, Holds
      <4> QED BY <4>5, <4>7 DEF WholeInv
    <3> QED BY <3>2, <3>3 DEF WholeInv
  <2> QED BY <2>3, <2>4
<1> QED BY <1>1, <1>2, <1>3

(* The terminator of a block that holds m lies right behind m.             *)
LEMMA HoldsFacts ==
  ASSUME NEW m \in Messages, NEW c \in Cells
  PROVE  /\ Holds(m)[c] = NULL <=> c > Length[m]
         /\ Holds(m)[c] # NULL => Holds(m)[c] = m
BY LengthFacts DEF Holds

LEMMA PassKeepsWhole ==
  ASSUME ShapeInv, WholeInv, Pass \/ LoopEnds
  PROVE  WholeInv'
<1>0. CopyShape /\ ReadShape /\ CopyShape' /\ ReadShape'
  BY PassKeepsShape DEF ShapeInv
<1>c. CASE LoopEnds
  BY <1>c DEF LoopEnds, client, messenger, WholeInv, CleanCopy, PassOver, Holds
<1>p. CASE Pass
<2>1. /\ UNCHANGED <<copying, at, alone>>
      /\ clean' => clean /\ reader # "top"
  BY <1>p DEF Pass, Look, PrintCell, PrintEnds, Measure, Erase, Goto, client
<2>2. CleanCopy'
  <3> SUFFICES ASSUME NEW w \in Writers, clean', copying'[w] # NULL PROVE FALSE
    BY DEF CleanCopy
  <3> QED BY <2>1 DEF WholeInv, CleanCopy
<2>3. ASSUME NEW m \in Messages, PassOver(m), alone = m PROVE PassOver(alone)'
  <3>0. /\ \A w \in Writers : copying'[w] = NULL
        /\ alone' = m /\ m # NULL /\ Length[m] \in Nat /\ Length[m] >= 1
        /\ Length[m] <= BlockSize - 1 /\ BlockSize \in Nat
    BY <2>1, <2>3, LengthFacts DEF PassOver
  <3>1. CASE Look
    <4>1. /\ block = Holds(m) /\ block' = Holds(m)
          /\ reader' = "print" /\ pos' = 1 /\ out' = <<>>
      BY <2>3, <3>1 DEF Look, Goto, PassOver
    <4>2. out' = Copies(pos' - 1, m)
      BY <4>1 DEF Copies
    <4> QED BY <3>0, <4>1, <4>2 DEF PassOver, Holds
  <3>2. CASE PrintCell
    <4>1. /\ block = Holds(m) /\ block' = Holds(m) /\ block[pos] # NULL
          /\ pos <= Length[m] + 1 /\ out = Copies(pos - 1, m)
          /\ reader' = "print" /\ pos' = pos + 1 /\ out' = Append(out, block[pos])
      BY <2>3, <3>2 DEF PrintCell, Goto, PassOver
    <4>2. block[pos] = m /\ pos <= Length[m] /\ pos \in Nat /\ pos >= 1
      BY <1>0, <3>0, <4>1, HoldsFacts DEF ReadShape, Cells
    <4>3. Append(Copies(pos - 1, m), m) = Copies((pos - 1) + 1, m)
      BY <4>2, OneMore
    <4>4. out' = Copies(pos' - 1, m)
      BY <4>1, <4>2, <4>3
    <4> QED BY <3>0, <4>1, <4>2, <4>4 DEF PassOver, Holds
  <3>3. CASE PrintEnds
    <4>1. /\ block = Holds(m) /\ block' = Holds(m) /\ block[pos] = NULL
          /\ pos <= Length[m] + 1 /\ out = Copies(pos - 1, m)
          /\ reader' = "measure" /\ pos' = 1 /\ out' = out
      BY <2>3, <3>3 DEF PrintEnds, Goto, PassOver, client
    <4>2. pos = Length[m] + 1
      BY <1>0, <3>0, <4>1, HoldsFacts DEF ReadShape, Cells
    <4>3. out' = Copies(Length[m], m)
      BY <3>0, <4>1, <4>2
    <4> QED BY <3>0, <4>1, <4>3 DEF PassOver, Holds
  <3>4. CASE Measure
    <4>1. /\ block = Holds(m) /\ block' = Holds(m) /\ pos <= Length[m] + 1
          /\ out = Copies(Length[m], m) /\ out' = out /\ pos \in Cells
          /\ \/ block[pos] # NULL /\ reader' = "measure" /\ pos' = pos + 1
             \/ block[pos] = NULL /\ reader' = "erase" /\ pos' = 1 /\ size' = pos - 1
      BY <1>0, <2>3, <3>4 DEF Measure, Goto, PassOver, client, ReadShape
    <4>2. block[pos] = NULL <=> pos = Length[m] + 1
      BY <3>0, <4>1, HoldsFacts DEF Cells
    <4>3. CASE block[pos] # NULL
      BY <3>0, <4>1, <4>2, <4>3 DEF PassOver, Holds, Cells
    <4>4. CASE block[pos] = NULL
      <5>1. size' = Length[m] /\ pos' = 1 /\ reader' = "erase"
        BY <3>0, <4>1, <4>2, <4>4
      <5>2. \A c \in Cells : ~ (c < 1)
        BY DEF Cells
      <5> QED BY <3>0, <4>1, <5>1, <5>2 DEF PassOver, Holds
    <4> QED BY <4>3, <4>4
  <3>5. CASE Erase
    <4>1. /\ size = Length[m] /\ size' = size /\ reader = "erase" /\ pos \in Cells
          /\ \A c \in Cells : block[c] = IF c < pos THEN NULL ELSE Holds(m)[c]
          /\ \/ /\ pos <= size /\ reader' = "erase" /\ pos' = pos + 1
                /\ block' = [block EXCEPT ![pos] = NULL]
             \/ pos > size /\ reader' = "top" /\ block' = block
      BY <1>0, <2>3, <3>5 DEF Erase, EraseOne, Goto, PassOver, ReadShape
    <4>2. CASE pos <= size
      <5>0. block' = [block EXCEPT ![pos] = NULL] /\ block \in [Cells -> Messages \cup {Title, NULL}]
        BY <1>0, <3>0, <4>1, <4>2 DEF Cells, CopyShape
      <5>1. \A c \in Cells : block'[c] = IF c < pos + 1 THEN NULL ELSE Holds(m)[c]
        <6> TAKE c \in Cells
        <6>1. CASE c < pos  BY <4>1, <5>0, <6>1 DEF Cells
        <6>2. CASE c = pos  BY <4>1, <5>0, <6>2 DEF Cells
        <6>3. CASE c > pos  BY <4>1, <5>0, <6>3 DEF Cells
        <6> QED BY <4>1, <6>1, <6>2, <6>3 DEF Cells
      <5>2. reader' = "erase" /\ pos' = pos + 1
        BY <3>0, <4>1, <4>2 DEF Cells
      <5> QED BY <3>0, <4>1, <5>1, <5>2 DEF PassOver, Holds
    <4>3. CASE ~ (pos <= size)
      <5>1. reader' = "top" /\ block' = block /\ 1 < pos
        BY <3>0, <4>1, <4>3 DEF Cells
      <5>2. block'[1] = NULL
        BY <4>1, <5>1, LengthFacts
      <5> QED BY <3>0, <5>1, <5>2 DEF PassOver
    <4> QED BY <4>2, <4>3
  <3> QED BY <1>p, <3>1, <3>2, <3>3, <3>4, <3>5 DEF Pass
<2>4. alone' # NULL => PassOver(alone)'
  BY <1>0, <2>1, <2>3 DEF WholeInv, CopyShape
<2> QED BY <2>2, <2>4 DEF WholeInv
<1> QED BY <1>c, <1>p

LEMMA WholeStep == ShapeInv /\ WholeInv /\ [Next]_vars => WholeInv'
<1>1. ASSUME WholeInv, UNCHANGED vars PROVE WholeInv'
  BY <1>1 DEF vars, client, messenger, WholeInv, CleanCopy, PassOver, Holds
<1> QED BY <1>1, CopyKeepsWhole, PassKeepsWhole DEF Next

(* A message that was copied into the block while the messenger slept and  *)
(* nobody else wrote, and before the next copy begins, is printed whole    *)
(* and with nothing behind it; a message that is sent needs an empty block *)
(* for that, since its strncpy writes no terminator.                       *)
THEOREM Whole == Spec => []WholeWhenAlone
<1>1. WholeInv => WholeWhenAlone
  BY DEF WholeInv, PassOver, Copies, WholeWhenAlone
<1> QED BY <1>1, InitShape, InitWhole, ShapeStep, WholeStep, PTL DEF Spec
-----------------------------------------------------------------------------
(* What is left of a pass, at most: three times over the block.            *)
PassLeft ==
  CASE reader = "top" -> 0
    [] reader = "erase" -> BlockSize + 1 - pos
    [] reader = "measure" -> (BlockSize + 1) + (BlockSize + 1 - pos)
    [] reader = "print" -> 2 * (BlockSize + 1) + (BlockSize + 1 - pos)

(* Until a pass erases it, the character that began the pass stands in the *)
(* first cell, or another one the client wrote over it.                    *)
FirstStands ==
  /\ reader \in {"print", "measure"} => block[1] # NULL
  /\ reader = "erase" => size >= 1
  /\ reader = "erase" /\ pos = 1 => block[1] # NULL

PassBounded == PassLeft \in 0 .. 3 * (BlockSize + 1)

PassAdvances == [][reader # "top" => PassLeft' < PassLeft]_messenger

FirstErased == [][reader = "erase" /\ pos = 1 => block'[1] = NULL]_messenger

LEMMA InitFirst == Init => FirstStands
BY DEF Init, FirstStands

LEMMA CopyKeepsFirst ==
  ASSUME ShapeInv, FirstStands, NEW w \in Writers,
         (\E m \in Messages : StartCopy(w, m)) \/ AttachFails(w) \/ CopyCell(w)
  PROVE  FirstStands' /\ UNCHANGED messenger
<1>0. CopyShape /\ ReadShape
  BY DEF ShapeInv
<1>1. CASE (\E m \in Messages : StartCopy(w, m)) \/ AttachFails(w)
  BY <1>1 DEF StartCopy, AttachFails, client, messenger, FirstStands
<1>2. CASE CopyCell(w)
  <2> DEFINE m == copying[w]
  <2>1. /\ m \in Messages /\ at[w] \in Cells
        /\ block' = [block EXCEPT ![at[w]] = Holds(m)[at[w]]]
        /\ UNCHANGED messenger
    BY <1>0, <1>2 DEF CopyCell, CopyShape
  <2>2. Holds(m)[1] # NULL
    BY <2>1, LengthFacts DEF Holds
  <2>3. block[1] # NULL => block'[1] # NULL
    BY <1>0, <2>1, <2>2, LengthFacts DEF CopyShape
  <2> QED BY <2>1, <2>3 DEF FirstStands, messenger
<1> QED BY <1>1, <1>2

LEMMA PassKeepsFirst ==
  ASSUME ShapeInv, FirstStands, Pass \/ LoopEnds
  PROVE  FirstStands'
<1>0. CopyShape /\ ReadShape /\ pos \in Nat /\ pos >= 1
  BY LengthFacts DEF ShapeInv, ReadShape
<1>1. CASE Look
  BY <1>1 DEF Look, Goto, FirstStands
<1>2. CASE PrintCell \/ PrintEnds
  BY <1>2 DEF PrintCell, PrintEnds, Goto, FirstStands
<1>3. CASE Measure
  <2>1. block[1] # NULL /\ block' = block
    BY <1>3 DEF Measure, Goto, FirstStands
  <2>2. reader' = "erase" => size' >= 1
    BY <1>0, <1>3, <2>1 DEF Measure, Goto
  <2> QED BY <2>1, <2>2 DEF FirstStands
<1>4. CASE Erase
  BY <1>0, <1>4 DEF Erase, Goto, FirstStands
<1>5. CASE LoopEnds
  BY <1>5 DEF LoopEnds, client, messenger, FirstStands
<1> QED BY <1>1, <1>2, <1>3, <1>4, <1>5 DEF Pass

LEMMA FirstStep == ShapeInv /\ FirstStands /\ [Next]_vars => FirstStands'
<1>1. ASSUME FirstStands, UNCHANGED vars PROVE FirstStands'
  BY <1>1 DEF vars, client, messenger, FirstStands
<1> QED BY <1>1, CopyKeepsFirst, PassKeepsFirst DEF Next

LEMMA LeftBounded == ShapeInv => PassBounded
<1> SUFFICES ASSUME ShapeInv PROVE PassBounded
  OBVIOUS
<1> DEFINE left == BlockSize + 1 - pos
<1>1. /\ left \in Int /\ 0 <= left /\ left <= BlockSize + 1
      /\ BlockSize \in Nat /\ reader \in Readers
  BY LengthFacts DEF ShapeInv, ReadShape
<1>2. PassLeft \in {0, left, (BlockSize + 1) + left, 2 * (BlockSize + 1) + left}
  BY <1>1 DEF PassLeft, Readers
<1> HIDE DEF left
<1> QED BY <1>1, <1>2 DEF PassBounded

LEMMA PassShortens ==
  ASSUME ShapeInv, ShapeInv', Pass, reader # "top"
  PROVE  PassLeft' < PassLeft
<1>0. /\ BlockSize \in Nat /\ pos \in Nat /\ 1 <= pos /\ pos <= BlockSize
      /\ pos' \in Nat /\ 1 <= pos' /\ pos' <= BlockSize
  BY LengthFacts DEF ShapeInv, ReadShape
<1>1. CASE PrintCell
  <2>1. reader = "print" /\ reader' = "print" /\ pos' = pos + 1
    BY <1>1 DEF PrintCell, Goto
  <2> QED BY <1>0, <2>1 DEF PassLeft
<1>2. CASE PrintEnds
  <2>1. reader = "print" /\ reader' = "measure"
    BY <1>2 DEF PrintEnds, Goto
  <2> QED BY <1>0, <2>1 DEF PassLeft
<1>3. CASE Measure
  <2>1. /\ reader = "measure"
        /\ \/ reader' = "measure" /\ pos' = pos + 1
           \/ reader' = "erase"
    BY <1>3 DEF Measure, Goto
  <2> QED BY <1>0, <2>1 DEF PassLeft
<1>4. CASE Erase
  <2>1. /\ reader = "erase"
        /\ \/ reader' = "erase" /\ pos' = pos + 1
           \/ reader' = "top"
    BY <1>4 DEF Erase, Goto
  <2> QED BY <1>0, <2>1 DEF PassLeft
<1>5. ~ Look
  BY DEF Look, Goto
<1> QED BY <1>1, <1>2, <1>3, <1>4, <1>5 DEF Pass

LEMMA FirstGoes ==
  ASSUME ShapeInv, FirstStands, Pass, reader = "erase", pos = 1
  PROVE  block'[1] = NULL
<1>1. Erase
  BY DEF Pass, Look, PrintCell, PrintEnds, Measure, Goto
<1>2. 1 <= size /\ size \in Nat
  BY LengthFacts DEF FirstStands, ShapeInv, ReadShape
<1>3. block' = [block EXCEPT ![1] = NULL]
  BY <1>1, <1>2 DEF Erase, EraseOne
<1> QED BY <1>3, LengthFacts DEF ShapeInv, CopyShape

(* What is safe in Drained, for blocks of any size: whatever the client    *)
(* writes into it meanwhile, a pass that found a character ends after at   *)
(* most three times over the block, and empties the first cell on its way. *)
THEOREM PassesEnd ==
  Spec => [](PassBounded /\ FirstStands) /\ PassAdvances /\ FirstErased
<1>1. ShapeInv /\ FirstStands /\ ShapeInv' /\ [Next]_vars =>
        /\ [reader # "top" => PassLeft' < PassLeft]_messenger
        /\ [reader = "erase" /\ pos = 1 => block'[1] = NULL]_messenger
  <2> SUFFICES ASSUME ShapeInv, FirstStands, ShapeInv', [Next]_vars, ~ UNCHANGED messenger
               PROVE  /\ reader # "top" => PassLeft' < PassLeft
                      /\ reader = "erase" /\ pos = 1 => block'[1] = NULL
    OBVIOUS
  <2>1. Pass
    <3>1. ~ UNCHANGED vars /\ ~ LoopEnds
      BY DEF vars, LoopEnds
    <3> QED BY <3>1, CopyKeepsFirst DEF Next
  <2> QED BY <2>1, PassShortens, FirstGoes
<1> QED BY <1>1, InitShape, ShapeStep, InitFirst, FirstStep, LeftBounded, PTL
        DEF Spec, PassAdvances, FirstErased
=============================================================================
