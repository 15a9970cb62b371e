--------------------------- MODULE DatagramProofs ---------------------------
(***************************************************************************)
(* Proofs about the UDP server.  DatagramReceive and DatagramServer: a     *)
(* relayed datagram is in one place, and a server is given back once.      *)
(* DatagramSend, in the last part: answers are true, and the structure of  *)
(* a send is freed too early in one case only.                             *)
(*                                                                         *)
(* The argument of the first is about the byte stream behind data_pipe:    *)
(* what is written and not read is a run of messages in order, of which    *)
(* only the first can lack its front.                                      *)
(***************************************************************************)
EXTENDS DatagramServer, DatagramSend, SequenceTheorems, TLAPS

\* What is on its way to the readers, oldest first.
Queue == pipe \o sending

Cell == Nat \X Nat

\* Cell a was written before cell b.
Before(a, b) == a[1] <= b[1] /\ (a[1] = b[1] => a[2] < b[2])

\* Cells of datagrams 1 .. n.
CellsOf(q, n) ==
    /\ q \in Seq(Cell)
    /\ \A i \in 1 .. Len(q) : q[i][1] \in 1 .. n /\ q[i][2] \in 1 .. Size[q[i][1]]

Ordered(q) == \A i, j \in 1 .. Len(q) : i < j => Before(q[i], q[j])

Holds(q, d, k) == \E j \in 1 .. Len(q) : q[j] = <<d, k>>

\* Every message is whole, or the first one and only its front is gone.
Complete(q) ==
    \A i \in 1 .. Len(q) : \A k \in 1 .. Size[q[i][1]] :
        Holds(q, q[i][1], k) \/ (q[1][1] = q[i][1] /\ k < q[1][2])

Run(q, n) == CellsOf(q, n) /\ Ordered(q) /\ Complete(q)

\* r is what remains of q when the first c cells are read.
RestOf(r, q, c) ==
    /\ r \in Seq(Cell) /\ Len(r) = Len(q) - c
    /\ \A i \in 1 .. Len(q) - c : i + c \in 1 .. Len(q) /\ r[i] = q[i + c]

\* r is q with the cells of datagram d behind it.
WithMessage(r, q, d) ==
    /\ r \in Seq(Cell) /\ Len(r) = Len(q) + Size[d]
    /\ \A i \in 1 .. Len(q) : r[i] = q[i] /\ i \in 1 .. Len(r)
    /\ \A i \in 1 .. Size[d] : r[Len(q) + i] = <<d, i>> /\ Len(q) + i \in 1 .. Len(r)
    /\ \A j \in 1 .. Len(r) : j \in 1 .. Len(q) \/ \E i \in 1 .. Size[d] : j = Len(q) + i

\* Datagrams with their header in q.
Starts(q) == {d \in Datagrams : Holds(q, d, 1)}

\* Datagrams with a cell among the first c of q.
DatagramsIn(q, c) == {q[i][1] : i \in 1 .. c}

\* Where the datagrams are that were received.
Places ==
    /\ \A v, w \in Workers : v # w => Range(events[v]) \cap Range(events[w]) = {}
    /\ \A w \in Workers : IsInjective(events[w])
    /\ Starts(Queue) \cap Emitted = {}
    /\ Emitted \cap skipped = {} /\ skipped \cap Starts(Queue) = {}
    /\ Emitted \cup skipped \subseteq 1 .. arrived
    /\ ~wild => {d \in 1 .. arrived : Size[d] > 0} = Starts(Queue) \cup Emitted \cup skipped

\* A message that lacks its front was read in part.
FrontWasRead == Queue # <<>> /\ Queue[1][2] # 1 => split # {}

RelayOK ==
    /\ arrived \in 0 .. Len(Size)
    /\ pipe \in Seq(Cell) /\ sending \in Seq(Cell)
    /\ events \in [Workers -> Seq(Datagrams)]
    /\ short \subseteq Datagrams /\ skipped \subseteq Datagrams
    /\ split \subseteq Datagrams /\ wild \in BOOLEAN

RelayInv ==
    /\ RelayOK /\ Run(Queue, arrived) /\ Places
    /\ FrontWasRead /\ (wild => split # {})

\* The socket of the worker: close() comes before the callbacks it causes.
SocketInv ==
    /\ ServerTypeOK /\ ClosedOnce
    /\ reactor \in {"closing", "freed"} => closed

IInv == RelayInv /\ SocketInv

-----------------------------------------------------------------------------
(* Runs of messages. *)

\* The cells of a run, and how two of them compare.
LEMMA RunFacts ==
    ASSUME NEW n \in 0 .. Len(Size), NEW q, Run(q, n)
    PROVE  /\ q \in Seq(Cell) /\ Len(q) \in Nat /\ DOMAIN q = 1 .. Len(q)
           /\ \A i \in 1 .. Len(q) :
                 /\ q[i] = <<q[i][1], q[i][2]>>
                 /\ q[i][1] \in Nat /\ q[i][1] \in 1 .. n /\ q[i][1] \in Datagrams
                 /\ q[i][2] \in Nat /\ q[i][2] \in 1 .. Size[q[i][1]]
                 /\ Size[q[i][1]] \in Nat
<1>1. q \in Seq(Cell) /\ Len(q) \in Nat /\ DOMAIN q = 1 .. Len(q)
  BY DEF Run, CellsOf
<1>2. \A d \in Datagrams : Size[d] \in Nat
  BY SizesAssumption, ElementOfSeq DEF Datagrams
<1>3. 1 .. n \subseteq Datagrams
  BY SizesAssumption DEF Datagrams
<1>4. \A i \in 1 .. Len(q) : q[i] = <<q[i][1], q[i][2]>>
  <2>1. \A i \in 1 .. Len(q) : q[i] \in Cell
    BY <1>1, ElementOfSeq
  <2> QED
    BY <2>1 DEF Cell
<1>5. \A i \in 1 .. Len(q) :
         /\ q[i][1] \in Nat /\ q[i][1] \in 1 .. n /\ q[i][1] \in Datagrams
         /\ q[i][2] \in Nat /\ q[i][2] \in 1 .. Size[q[i][1]]
         /\ Size[q[i][1]] \in Nat
  BY <1>2, <1>3 DEF Run, CellsOf
<1> QED
  BY <1>1, <1>4, <1>5

\* Of two cells of a run, the later one belongs to the same datagram or to a
\* later one.
LEMMA RunOrder ==
    ASSUME NEW n \in 0 .. Len(Size), NEW q, Run(q, n),
           NEW i \in 1 .. Len(q), NEW j \in 1 .. Len(q),
           NEW d, NEW k, q[i] = <<d, k>>, NEW e, NEW m, q[j] = <<e, m>>
    PROVE  /\ d \in Nat /\ k \in Nat /\ e \in Nat /\ m \in Nat
           /\ i < j => d <= e /\ (d = e => k < m)
           /\ i <= j => d <= e /\ (d = e => k <= m)
           /\ d < e \/ (d = e /\ k < m) => i < j
           /\ d = e /\ k = m => i = j
<1>1. d \in Nat /\ k \in Nat /\ e \in Nat /\ m \in Nat /\ i \in Nat /\ j \in Nat
  BY RunFacts
<1>2. i < j => d <= e /\ (d = e => k < m)
  BY DEF Run, Ordered, Before
<1>3. j < i => e <= d /\ (e = d => m < k)
  BY DEF Run, Ordered, Before
<1>4. i = j => d = e /\ k = m
  OBVIOUS
<1> QED
  BY <1>1, <1>2, <1>3, <1>4

\* The cells of a message from the y-th cell on are there, but for its front.
LEMMA MessageFollows ==
    ASSUME NEW n \in 0 .. Len(Size), NEW q, Run(q, n),
           NEW y \in 1 .. Len(q), NEW z \in 1 .. Len(q), 1 < y, y <= z,
           NEW k \in 1 .. Size[q[z][1]]
    PROVE  \/ q[y][1] = q[z][1] /\ k < q[y][2]
           \/ \E j \in 1 .. Len(q) : y <= j /\ q[j] = <<q[z][1], k>>
<1> SUFFICES ASSUME ~(q[y][1] = q[z][1] /\ k < q[y][2])
             PROVE  \E j \in 1 .. Len(q) : y <= j /\ q[j] = <<q[z][1], k>>
  OBVIOUS
<1>0. PICK x \in 1 .. Len(q) : x = 1 /\ x < y
  BY RunFacts
<1>1. PICK d, h : q[z] = <<d, h>>
  BY RunFacts
<1>2. PICK e, m : q[y] = <<e, m>>
  BY RunFacts
<1>3. PICK f, l : q[x] = <<f, l>>
  BY RunFacts
<1>4. q[z][1] = d /\ q[y][1] = e /\ q[y][2] = m /\ q[1][1] = f /\ q[1][2] = l
  BY <1>0, <1>1, <1>2, <1>3
<1>5. k \in 1 .. Size[d] /\ k \in Nat
  <2>1. Size[d] \in Nat
    BY <1>1, RunFacts
  <2> QED
    BY <1>4, <2>1
<1>6. e <= d /\ d \in Nat /\ e \in Nat /\ m \in Nat
  BY <1>1, <1>2, RunOrder
<1>7. f <= e /\ (f = e => l < m) /\ f \in Nat /\ l \in Nat
  BY <1>0, <1>2, <1>3, RunOrder
<1>8. ~(e = d /\ k < m)
  BY <1>4
<1>9. ~(f = d /\ k < l)
  BY <1>5, <1>6, <1>7, <1>8
<1>10. Holds(q, d, k)
  BY <1>4, <1>5, <1>9, Zenon DEF Run, Complete
<1>11. PICK j \in 1 .. Len(q) : q[j] = <<d, k>>
  BY <1>10 DEF Holds
<1>12. j < y => d <= e /\ (d = e => k < m)
  BY <1>2, <1>11, RunOrder
<1>13. y <= j
  BY <1>5, <1>6, <1>8, <1>12
<1> QED
  BY <1>4, <1>11, <1>13

\* What is behind the first c cells.
LEMMA SubSeqIsRest ==
    ASSUME NEW q \in Seq(Cell), NEW c \in 1 .. Len(q)
    PROVE  RestOf(SubSeq(q, c + 1, Len(q)), q, c)
<1>1. \A i \in c + 1 .. Len(q) : q[i] \in Cell
  BY ElementOfSeq
<1>2. /\ SubSeq(q, c + 1, Len(q)) \in Seq(Cell)
      /\ Len(SubSeq(q, c + 1, Len(q))) = Len(q) - c
      /\ \A i \in 1 .. Len(q) - c : SubSeq(q, c + 1, Len(q))[i] = q[i + c]
  BY <1>1
<1>3. \A i \in 1 .. Len(q) - c : i + c \in 1 .. Len(q)
  OBVIOUS
<1> QED
  BY <1>2, <1>3 DEF RestOf

\* What a reader leaves is a run (rp_reactor_data_receive frees what it read).
LEMMA RestOfRun ==
    ASSUME NEW n \in 0 .. Len(Size), NEW q, Run(q, n), NEW c \in 1 .. Len(q),
           NEW r, RestOf(r, q, c)
    PROVE  Run(r, n)
<1>1. /\ q \in Seq(Cell) /\ Len(q) \in Nat
      /\ \A i \in 1 .. Len(q) :
            /\ q[i][1] \in 1 .. n /\ q[i][2] \in 1 .. Size[q[i][1]]
            /\ Size[q[i][1]] \in Nat
  BY RunFacts
<1>2. CellsOf(r, n)
  BY <1>1 DEF CellsOf, RestOf
<1>3. Ordered(r)
  <2> SUFFICES ASSUME NEW i \in 1 .. Len(r), NEW j \in 1 .. Len(r), i < j
               PROVE  Before(r[i], r[j])
    BY DEF Ordered
  <2>1. i \in 1 .. Len(q) - c /\ j \in 1 .. Len(q) - c /\ i + c < j + c
    BY <1>1 DEF RestOf
  <2>2. PICK x, y \in 1 .. Len(q) : x = i + c /\ y = j + c /\ r[i] = q[x] /\ r[j] = q[y]
    BY <2>1, Zenon DEF RestOf
  <2>3. Before(q[x], q[y])
    BY <2>1, <2>2 DEF Run, Ordered
  <2> QED
    BY <2>2, <2>3
<1>4. Complete(r)
  <2> SUFFICES ASSUME NEW i \in 1 .. Len(r), NEW k \in 1 .. Size[r[i][1]],
                      ~(r[1][1] = r[i][1] /\ k < r[1][2])
               PROVE  Holds(r, r[i][1], k)
    BY DEF Complete
  <2>1. PICK y, z \in 1 .. Len(q) :
           /\ y = c + 1 /\ z = i + c /\ 1 < y /\ y <= z
           /\ r[1] = q[y] /\ r[i] = q[z]
    <3>1. i \in 1 .. Len(q) - c /\ 1 \in 1 .. Len(q) - c
      BY <1>1 DEF RestOf
    <3>2. /\ r[1] = q[1 + c] /\ r[i] = q[i + c] /\ 1 + c \in 1 .. Len(q)
          /\ i + c \in 1 .. Len(q)
      BY <3>1, Zenon DEF RestOf
    <3>3. 1 + c = c + 1 /\ 1 < 1 + c /\ 1 + c <= i + c
      BY <1>1, <3>1
    <3> QED
      BY <3>2, <3>3
  <2>2. PICK j \in 1 .. Len(q) : y <= j /\ q[j] = <<q[z][1], k>>
    <3>1. k \in 1 .. Size[q[z][1]] /\ ~(q[y][1] = q[z][1] /\ k < q[y][2])
      BY <2>1, Zenon
    <3> QED
      BY <2>1, <3>1, MessageFollows, Zenon
  <2>3. j - c \in 1 .. Len(r) /\ (j - c) + c = j /\ j - c \in 1 .. Len(q) - c
    BY <1>1, <2>1, <2>2 DEF RestOf
  <2>4. r[j - c] = q[j]
    BY <2>3 DEF RestOf
  <2> QED
    BY <2>1, <2>2, <2>3, <2>4 DEF Holds
<1> QED
  BY <1>2, <1>3, <1>4 DEF Run

\* A read ended inside a message if it left the message without its front.
LEMMA EndedInside ==
    ASSUME NEW n \in 0 .. Len(Size), NEW q, Run(q, n), NEW c \in 1 .. Len(q),
           c + 1 \in 1 .. Len(q), q[c + 1][2] # 1
    PROVE  q[c][2] < Size[q[c][1]]
<1>1. PICK d, k : q[c + 1] = <<d, k>>
  BY RunFacts
<1>2. PICK f, l : q[1] = <<f, l>>
  BY RunFacts
<1>3. PICK e, m : q[c] = <<e, m>>
  BY RunFacts
<1>4. /\ 1 \in 1 .. Len(q) /\ Len(q) \in Nat /\ 1 < c + 1 /\ c < c + 1
      /\ d \in Nat /\ k \in 1 .. Size[d] /\ Size[d] \in Nat /\ k - 1 \in 1 .. Size[d]
  BY <1>1, RunFacts
<1>5. f <= d /\ (f = d => l < k) /\ l \in Nat /\ f \in Nat
  BY <1>1, <1>2, <1>4, RunOrder
<1>6. PICK j \in 1 .. Len(q) : q[j] = <<d, k - 1>>
  <2>1. ~(f = d /\ k - 1 < l)
    BY <1>4, <1>5
  <2>2. q[c + 1][1] = d /\ q[1][1] = f /\ q[1][2] = l
    BY <1>1, <1>2
  <2> QED
    BY <1>4, <2>1, <2>2 DEF Run, Complete, Holds
<1>7. j < c + 1
  <2>1. k - 1 < k
    BY <1>4
  <2> QED
    BY <1>1, <1>6, <2>1, RunOrder
<1>8. d <= e /\ (d = e => k - 1 <= m) /\ e \in Nat /\ m \in Nat
  <2>1. j <= c
    BY <1>7
  <2> QED
    BY <1>3, <1>6, <2>1, RunOrder
<1>9. e <= d /\ (e = d => m < k)
  <2>1. PICK y \in 1 .. Len(q) : y = c + 1 /\ c < y
    BY <1>4
  <2> QED
    BY <1>1, <1>3, <2>1, RunOrder
<1>10. e = d /\ m < Size[d]
  BY <1>4, <1>8, <1>9
<1> QED
  BY <1>3, <1>10

\* The messages that begin in the front of a run are those that have a cell in
\* it, if the run begins with a header; the others begin in the rest.
LEMMA StartsOfRest ==
    ASSUME NEW n \in 0 .. Len(Size), NEW q, Run(q, n), NEW c \in 1 .. Len(q),
           NEW r, RestOf(r, q, c), NEW here, here = DatagramsIn(q, c)
    PROVE  /\ Starts(r) \subseteq Starts(q) /\ Starts(r) \cap here = {}
           /\ q[1][2] = 1 => /\ q[1][1] \in here
                            /\ here \subseteq Starts(q)
                            /\ Starts(q) = Starts(r) \cup here
<1>1. Len(q) \in Nat /\ c \in Nat /\ \A i \in 1 .. c : i \in 1 .. Len(q)
  BY RunFacts
<1> USE DEF DatagramsIn
<1>2. Starts(r) \subseteq Starts(q)
  <2> SUFFICES ASSUME NEW d \in Datagrams, NEW i \in 1 .. Len(r), r[i] = <<d, 1>>
               PROVE  \E j \in 1 .. Len(q) : q[j] = <<d, 1>>
    BY DEF Starts, Holds
  <2>1. i \in 1 .. Len(q) - c
    BY DEF RestOf
  <2> QED
    BY <2>1 DEF RestOf
<1>3. ASSUME NEW d \in Starts(r), d \in here
      PROVE  FALSE
  <2>1. PICK i \in 1 .. Len(r) : r[i] = <<d, 1>>
    BY DEF Starts, Holds
  <2>2. PICK z \in 1 .. Len(q) : z = i + c /\ q[z] = <<d, 1>> /\ c < z
    <3>1. i \in 1 .. Len(q) - c
      BY <2>1 DEF RestOf
    <3>2. i + c \in 1 .. Len(q) /\ r[i] = q[i + c]
      BY <3>1 DEF RestOf
    <3>3. c < i + c
      BY <1>1, <3>1
    <3> QED
      BY <2>1, <3>2, <3>3
  <2>3. PICK x \in 1 .. Len(q) : x <= c /\ q[x][1] = d
    BY <1>1, <1>3
  <2>4. PICK k : q[x] = <<d, k>>
    BY <2>3, RunFacts
  <2>5. k \in 1 .. Size[d] /\ Size[d] \in Nat
    <3>1. q[x][2] = k
      BY <2>4
    <3> QED
      BY <2>3, <3>1, RunFacts
  <2>6. x < z
    BY <1>1, <2>2, <2>3
  <2>7. k < 1
    <3>1. PICK e, m : q[z] = <<e, m>> /\ e = d /\ m = 1
      BY <2>2
    <3>2. d = e => k < m
      BY <2>4, <2>6, <3>1, RunOrder
    <3> QED
      BY <3>1, <3>2
  <2> QED
    BY <2>5, <2>7
<1>4. ASSUME q[1][2] = 1, NEW x \in 1 .. c
      PROVE  q[x][1] \in Starts(q)
  <2>1. /\ x \in 1 .. Len(q) /\ q[x][1] \in Datagrams
        /\ 1 \in 1 .. Size[q[x][1]]
    <3>1. /\ x \in 1 .. Len(q) /\ q[x][1] \in Datagrams
          /\ q[x][2] \in 1 .. Size[q[x][1]] /\ Size[q[x][1]] \in Nat
      BY <1>1, RunFacts
    <3> QED
      BY <3>1
  <2>2. Holds(q, q[x][1], 1) \/ (q[1][1] = q[x][1] /\ 1 < q[1][2])
    BY <2>1, Zenon DEF Run, Complete
  <2>3. Holds(q, q[x][1], 1)
    BY <1>4, <2>2
  <2> QED
    BY <2>1, <2>3 DEF Starts
<1>5. ASSUME NEW d \in Starts(q)
      PROVE  d \in Starts(r) \cup here
  <2>1. PICK j \in 1 .. Len(q) : q[j] = <<d, 1>>
    BY DEF Starts, Holds
  <2>2. CASE j \in 1 .. c
    BY <2>1, <2>2
  <2>3. CASE j \notin 1 .. c
    <3>1. PICK i \in 1 .. Len(q) - c : i + c = j
      <4>1. j - c \in 1 .. Len(q) - c /\ (j - c) + c = j
        BY <1>1, <2>3
      <4> QED
        BY <4>1
    <3>2. r[i] = <<d, 1>> /\ i \in 1 .. Len(r)
      BY <2>1, <3>1 DEF RestOf
    <3> QED
      BY <3>2 DEF Starts, Holds
  <2> QED
    BY <2>2, <2>3
<1>6. q[1][1] \in here
  BY <1>1
<1> QED
  BY <1>2, <1>3, <1>4, <1>5, <1>6

\* rp_reactor_data_send: a message is written behind the others.
LEMMA ConcatIsWithMessage ==
    ASSUME NEW q \in Seq(Cell), NEW d \in Datagrams
    PROVE  Message(d) \in Seq(Cell) /\ WithMessage(q \o Message(d), q, d)
<1>1. PICK m \in Nat : m = Size[d]
  BY SizesAssumption, ElementOfSeq DEF Datagrams
<1>2. PICK L \in Nat : L = Len(q)
  OBVIOUS
<1>3. PICK t : t = Message(d)
  OBVIOUS
<1>4. t \in Seq(Cell) /\ Len(t) = m /\ \A i \in 1 .. m : t[i] = <<d, i>>
  <2>1. t = [i \in 1 .. m |-> <<d, i>>]
    BY <1>1, <1>3 DEF Message
  <2>2. d \in Nat
    BY SizesAssumption DEF Datagrams
  <2>3. t \in [1 .. m -> Cell]
    BY <1>1, <2>1, <2>2 DEF Cell
  <2>4. t \in Seq(Cell)
    BY <1>1, <2>3, SeqDef, Zenon
  <2> QED
    BY <1>1, <2>1, <2>4
<1>5. PICK r : r = q \o t
  OBVIOUS
<1>6. /\ r \in Seq(Cell) /\ Len(r) = L + m
      /\ \A i \in 1 .. L + m : r[i] = IF i <= L THEN q[i] ELSE t[i - L]
  BY <1>2, <1>4, <1>5, ConcatProperties
<1>7. \A i \in 1 .. L : i \in 1 .. L + m /\ i <= L
  OBVIOUS
<1>8. \A i \in 1 .. m : L + i \in 1 .. L + m /\ ~(L + i <= L) /\ (L + i) - L = i
  OBVIOUS
<1>9. \A j \in 1 .. L + m : j \in 1 .. L \/ \E i \in 1 .. m : j = L + i
  <2> TAKE j \in 1 .. L + m
  <2>1. j \in 1 .. L \/ (j - L \in 1 .. m /\ j = L + (j - L))
    OBVIOUS
  <2> QED
    BY <2>1
<1>10. \A i \in 1 .. L : r[i] = q[i]
  BY <1>6, <1>7
<1>11. \A i \in 1 .. m : r[L + i] = <<d, i>>
  <2> TAKE i \in 1 .. m
  <2>1. r[L + i] = t[(L + i) - L]
    BY <1>6, <1>8
  <2> QED
    BY <1>4, <1>8, <2>1
<1>12. WithMessage(r, q, d)
  <2>1. /\ r \in Seq(Cell) /\ Len(r) = L + m
        /\ \A i \in 1 .. L : r[i] = q[i] /\ i \in 1 .. Len(r)
        /\ \A i \in 1 .. m : r[L + i] = <<d, i>> /\ L + i \in 1 .. Len(r)
        /\ \A j \in 1 .. Len(r) : j \in 1 .. L \/ \E i \in 1 .. m : j = L + i
    BY <1>6, <1>7, <1>8, <1>9, <1>10, <1>11
  <2> QED
    BY <1>1, <1>2, <2>1, Zenon DEF WithMessage
<1> QED
  BY <1>3, <1>4, <1>5, <1>12

\* A message added behind the run of all earlier ones.
LEMMA OneMoreMessage ==
    ASSUME NEW n \in 0 .. Len(Size), NEW q, Run(q, n),
           NEW e \in Datagrams, e = n + 1, NEW r, WithMessage(r, q, e)
    PROVE  /\ Run(r, e)
           /\ Starts(r) = Starts(q) \cup {d \in {e} : Size[d] > 0}
           /\ r # <<>> => r[1] = (IF q = <<>> THEN <<e, 1>> ELSE q[1])
<1>1. e \in Nat /\ n \in Nat
  BY SizesAssumption
<1>2. PICK m \in Nat : m = Size[e]
  BY SizesAssumption, ElementOfSeq DEF Datagrams
<1>3. PICK L \in Nat : L = Len(q)
  BY RunFacts
<1>4. /\ r \in Seq(Cell) /\ Len(r) = L + m
      /\ \A i \in 1 .. L : r[i] = q[i] /\ i \in 1 .. Len(r)
      /\ \A i \in 1 .. m : r[L + i] = <<e, i>> /\ L + i \in 1 .. Len(r)
      /\ \A j \in 1 .. Len(r) : j \in 1 .. L \/ \E i \in 1 .. m : j = L + i
  BY <1>2, <1>3, Zenon DEF WithMessage
<1>5. \A i \in 1 .. L : /\ q[i][1] \in 1 .. n /\ q[i][1] \in Datagrams
                       /\ q[i][1] \in 1 .. e /\ q[i][1] # e
                       /\ q[i][2] \in 1 .. Size[q[i][1]]
  <2>1. \A i \in 1 .. L : /\ q[i][1] \in 1 .. n /\ q[i][1] \in Datagrams
                         /\ q[i][2] \in 1 .. Size[q[i][1]]
    BY <1>3, RunFacts
  <2>2. \A d \in 1 .. n : d \in 1 .. e /\ d # e
    BY <1>1
  <2> QED
    BY <2>1, <2>2
<1>6. CellsOf(r, e)
  <2> SUFFICES ASSUME NEW j \in 1 .. Len(r)
               PROVE  r[j][1] \in 1 .. e /\ r[j][2] \in 1 .. Size[r[j][1]]
    BY <1>4 DEF CellsOf
  <2>1. CASE j \in 1 .. L
    BY <1>4, <1>5, <2>1, Zenon
  <2>2. ASSUME NEW i \in 1 .. m, j = L + i
        PROVE  r[j][1] \in 1 .. e /\ r[j][2] \in 1 .. Size[r[j][1]]
    <3>1. r[j] = <<e, i>>
      BY <1>4, <2>2, Zenon
    <3>2. e \in 1 .. e
      BY <1>1
    <3> QED
      BY <1>2, <3>1, <3>2
  <2> QED
    BY <1>4, <2>1, <2>2, Zenon
<1>7. Ordered(r)
  <2> SUFFICES ASSUME NEW i \in 1 .. Len(r), NEW j \in 1 .. Len(r), i < j
               PROVE  Before(r[i], r[j])
    BY DEF Ordered
  <2>1. CASE j \in 1 .. L
    <3>1. i \in 1 .. L
      BY <2>1
    <3>2. Before(q[i], q[j])
      BY <1>3, <2>1, <3>1 DEF Run, Ordered
    <3>3. r[i] = q[i] /\ r[j] = q[j]
      BY <1>4, <2>1, <3>1, Zenon
    <3> QED
      BY <3>2, <3>3, Zenon
  <2>2. ASSUME NEW b \in 1 .. m, j = L + b
        PROVE  Before(r[i], r[j])
    <3>1. r[j] = <<e, b>>
      BY <1>4, <2>2, Zenon
    <3>2. CASE i \in 1 .. L
      <4>1. r[i][1] \in 1 .. n
        BY <1>4, <1>5, <3>2, Zenon
      <4> QED
        BY <1>1, <3>1, <4>1 DEF Before
    <3>3. ASSUME NEW a \in 1 .. m, i = L + a
          PROVE  Before(r[i], r[j])
      <4>1. r[i] = <<e, a>>
        BY <1>4, <3>3, Zenon
      <4>2. a < b
        BY <2>2, <3>3
      <4> QED
        BY <1>1, <3>1, <4>1, <4>2 DEF Before
    <3> QED
      BY <1>4, <3>2, <3>3, Zenon
  <2> QED
    BY <1>4, <2>1, <2>2, Zenon
<1>8. L # 0 => r[1] = q[1]
  BY <1>4
<1>9. Complete(r)
  <2> SUFFICES ASSUME NEW j \in 1 .. Len(r), NEW k \in 1 .. Size[r[j][1]]
               PROVE  Holds(r, r[j][1], k) \/ (r[1][1] = r[j][1] /\ k < r[1][2])
    BY DEF Complete
  <2>1. CASE j \in 1 .. L
    <3>1. r[j] = q[j] /\ k \in 1 .. Size[q[j][1]]
      BY <1>4, <2>1, Zenon
    <3>2. r[1] = q[1]
      BY <1>8, <2>1
    <3>3. Holds(q, q[j][1], k) \/ (q[1][1] = q[j][1] /\ k < q[1][2])
      BY <1>3, <2>1, <3>1 DEF Run, Complete
    <3>4. Holds(q, q[j][1], k) => Holds(r, q[j][1], k)
      BY <1>3, <1>4, Zenon DEF Holds
    <3> QED
      BY <3>1, <3>2, <3>3, <3>4, Zenon
  <2>2. ASSUME NEW b \in 1 .. m, j = L + b
        PROVE  Holds(r, r[j][1], k)
    <3>1. r[j][1] = e
      <4>1. r[j] = <<e, b>>
        BY <1>4, <2>2, Zenon
      <4> QED
        BY <4>1
    <3>2. k \in 1 .. m
      BY <1>2, <3>1, Zenon
    <3> QED
      BY <1>4, <3>1, <3>2, Zenon DEF Holds
  <2> QED
    BY <1>4, <2>1, <2>2, Zenon
<1>10. Starts(r) = Starts(q) \cup {d \in {e} : Size[d] > 0}
  <2>1. ASSUME NEW d \in Starts(r)
        PROVE  d \in Starts(q) \/ (d = e /\ Size[d] > 0)
    <3>1. PICK j \in 1 .. Len(r) : r[j] = <<d, 1>> /\ d \in Datagrams
      BY DEF Starts, Holds
    <3>2. CASE j \in 1 .. L
      BY <1>3, <1>4, <3>1, <3>2, Zenon DEF Starts, Holds
    <3>3. ASSUME NEW b \in 1 .. m, j = L + b
          PROVE  d = e /\ Size[d] > 0
      <4>1. <<d, 1>> = <<e, b>>
        BY <1>4, <3>1, <3>3, Zenon
      <4> QED
        BY <1>2, <4>1
    <3> QED
      BY <1>4, <3>2, <3>3, Zenon
  <2>2. Starts(q) \subseteq Starts(r)
    BY <1>3, <1>4, Zenon DEF Starts, Holds
  <2>3. Size[e] > 0 => e \in Starts(r)
    <3> SUFFICES ASSUME Size[e] > 0
                 PROVE  Holds(r, e, 1)
      BY DEF Starts
    <3>1. 1 \in 1 .. m
      BY <1>2
    <3> QED
      BY <1>4, <3>1, Zenon DEF Holds
  <2> QED
    BY <2>1, <2>2, <2>3
<1>11. r # <<>> => r[1] = (IF q = <<>> THEN <<e, 1>> ELSE q[1])
  <2>1. CASE q = <<>>
    <3> SUFFICES ASSUME r # <<>>
                 PROVE  r[1] = <<e, 1>>
      BY <2>1
    <3>1. L = 0
      BY <1>3, <2>1
    <3>2. 1 \in 1 .. m /\ L + 1 = 1
      BY <1>4, <3>1, EmptySeq
    <3> QED
      BY <1>4, <3>2
  <2>2. CASE q # <<>>
    <3>1. L # 0
      BY <1>3, <2>2, RunFacts, EmptySeq
    <3> QED
      BY <1>8, <2>2, <3>1
  <2> QED
    BY <2>1, <2>2
<1> QED
  BY <1>6, <1>7, <1>9, <1>10, <1>11 DEF Run

-----------------------------------------------------------------------------
(* The byte stream and the events of the workers. *)

\* What the kernel takes keeps its place.
LEMMA MovedCell ==
    ASSUME NEW s \in Seq(Cell), NEW t \in Seq(Cell), t # <<>>
    PROVE  /\ Append(s, Head(t)) \in Seq(Cell) /\ Tail(t) \in Seq(Cell)
           /\ Append(s, Head(t)) \o Tail(t) = s \o t
<1>1. PICK x \in Cell : x = Head(t)
  BY HeadTailProperties
<1>2. PICK b \in Seq(Cell) : b = Tail(t)
  BY HeadTailProperties
<1>3. PICK m \in Nat : m = Len(t) /\ m # 0
  BY EmptySeq
<1>4. Len(b) = m - 1 /\ \A i \in 1 .. m - 1 : b[i] = t[i + 1]
  BY <1>2, <1>3, HeadTailProperties
<1>5. x = t[1]
  BY <1>1
<1>6. <<x>> \in Seq(Cell) /\ Len(<<x>>) = 1 /\ <<x>>[1] = x
  OBVIOUS
<1>7. PICK r : r = <<x>> \o b
  OBVIOUS
<1>8. /\ r \in Seq(Cell) /\ Len(r) = m
      /\ \A i \in 1 .. m : r[i] = IF i <= 1 THEN <<x>>[i] ELSE b[i - 1]
  <2>1. 1 + (m - 1) = m
    OBVIOUS
  <2> QED
    BY <1>4, <1>6, <1>7, <2>1, ConcatProperties
<1>9. ASSUME NEW i \in 1 .. m
      PROVE  r[i] = t[i]
  <2>1. CASE i = 1
    BY <1>5, <1>6, <1>8, <2>1
  <2>2. CASE i # 1
    <3>1. ~(i <= 1) /\ i - 1 \in 1 .. m - 1 /\ (i - 1) + 1 = i
      BY <2>2
    <3>2. r[i] = b[i - 1]
      BY <1>8, <3>1
    <3>3. b[i - 1] = t[(i - 1) + 1]
      BY <1>4, <3>1
    <3> QED
      BY <3>1, <3>2, <3>3
  <2> QED
    BY <2>1, <2>2
<1>10. r = t
  BY <1>3, <1>8, <1>9, SeqEqual
<1>11. Append(s, x) = s \o <<x>> /\ Append(s, x) \in Seq(Cell)
  BY AppendIsConcat, AppendProperties
<1>12. (s \o <<x>>) \o b = s \o (<<x>> \o b)
  BY <1>6, ConcatAssociative
<1> QED
  BY <1>1, <1>2, <1>7, <1>10, <1>11, <1>12

\* The elements of a concatenation.
LEMMA ConcatElements ==
    ASSUME NEW s \in Seq(Cell), NEW t \in Seq(Cell),
           NEW L \in Nat, NEW m \in Nat, L = Len(s), m = Len(t)
    PROVE  /\ s \o t \in Seq(Cell) /\ Len(s \o t) = L + m
           /\ \A i \in 1 .. L : (s \o t)[i] = s[i]
           /\ \A i \in 1 .. m : (s \o t)[L + i] = t[i]
<1>1. PICK q : q = s \o t
  OBVIOUS
<1>2. /\ q \in Seq(Cell) /\ Len(q) = L + m
      /\ \A i \in 1 .. L + m : q[i] = IF i <= L THEN s[i] ELSE t[i - L]
  BY <1>1, ConcatProperties
<1>3. ASSUME NEW i \in 1 .. L
      PROVE  q[i] = s[i]
  <2>1. i \in 1 .. L + m /\ i <= L
    OBVIOUS
  <2> QED
    BY <1>2, <2>1
<1>4. ASSUME NEW i \in 1 .. m
      PROVE  q[L + i] = t[i]
  <2>1. L + i \in 1 .. L + m /\ ~(L + i <= L) /\ (L + i) - L = i
    OBVIOUS
  <2>2. q[L + i] = t[(L + i) - L]
    BY <1>2, <2>1
  <2> QED
    BY <2>1, <2>2
<1> QED
  BY <1>1, <1>2, <1>3, <1>4

\* A read of the socket takes the front of what is on its way.
LEMMA ReadFront ==
    ASSUME NEW s \in Seq(Cell), NEW t \in Seq(Cell), NEW c \in 1 .. Len(s)
    PROVE  /\ SubSeq(s, c + 1, Len(s)) \in Seq(Cell)
           /\ RestOf(SubSeq(s, c + 1, Len(s)) \o t, s \o t, c)
           /\ c \in 1 .. Len(s \o t) /\ \A i \in 1 .. c : (s \o t)[i] = s[i]
<1>1. PICK u : u = SubSeq(s, c + 1, Len(s))
  OBVIOUS
<1>2. PICK L, m \in Nat : L = Len(s) /\ m = Len(t)
  OBVIOUS
<1>3. c \in 1 .. L
  BY <1>2
<1>4. PICK h \in Nat : h = L - c /\ h + c = L
  <2>1. L - c \in Nat /\ (L - c) + c = L
    BY <1>3
  <2> QED
    BY <2>1
<1>5. RestOf(u, s, c)
  BY <1>1, SubSeqIsRest
<1>6. u \in Seq(Cell) /\ Len(u) = h /\ \A i \in 1 .. h : u[i] = s[i + c]
  BY <1>2, <1>4, <1>5, Zenon DEF RestOf
<1>7. PICK q : q = s \o t
  OBVIOUS
<1>8. /\ q \in Seq(Cell) /\ Len(q) = L + m
      /\ \A i \in 1 .. L : q[i] = s[i]
      /\ \A i \in 1 .. m : q[L + i] = t[i]
  <2>1. /\ s \o t \in Seq(Cell) /\ Len(s \o t) = L + m
        /\ \A i \in 1 .. L : (s \o t)[i] = s[i]
        /\ \A i \in 1 .. m : (s \o t)[L + i] = t[i]
    BY <1>2, ConcatElements
  <2> QED
    BY <1>7, <2>1, Zenon
<1>9. PICK r : r = u \o t
  OBVIOUS
<1>10. /\ r \in Seq(Cell) /\ Len(r) = h + m
       /\ \A i \in 1 .. h : r[i] = u[i]
       /\ \A i \in 1 .. m : r[h + i] = t[i]
  <2>1. /\ u \o t \in Seq(Cell) /\ Len(u \o t) = h + m
        /\ \A i \in 1 .. h : (u \o t)[i] = u[i]
        /\ \A i \in 1 .. m : (u \o t)[h + i] = t[i]
    <3>1. u \in Seq(Cell) /\ h = Len(u) /\ m = Len(t)
      BY <1>2, <1>6
    <3> QED
      BY <3>1, ConcatElements
  <2> QED
    BY <1>9, <2>1, Zenon
<1>11. ASSUME NEW i \in 1 .. (L + m) - c
       PROVE  i + c \in 1 .. L + m /\ r[i] = q[i + c]
  <2>1. i + c \in 1 .. L + m
    BY <1>3
  <2>2. CASE i \in 1 .. h
    <3>1. i + c \in 1 .. L
      BY <1>3, <1>4, <2>2
    <3> QED
      BY <1>6, <1>8, <1>10, <2>1, <2>2, <3>1, Zenon
  <2>3. CASE i \notin 1 .. h
    <3>1. i - h \in 1 .. m /\ h + (i - h) = i /\ L + (i - h) = i + c
      BY <1>3, <1>4, <2>3
    <3>2. r[h + (i - h)] = t[i - h] /\ q[L + (i - h)] = t[i - h]
      BY <1>8, <1>10, <3>1, Zenon
    <3> QED
      BY <2>1, <3>1, <3>2
  <2> QED
    BY <2>2, <2>3
<1>12. RestOf(r, q, c)
  <2>1. h + m = (L + m) - c
    BY <1>3, <1>4
  <2> QED
    BY <1>8, <1>10, <1>11, <2>1, Zenon DEF RestOf
<1>13. c \in 1 .. Len(q) /\ \A i \in 1 .. c : q[i] = s[i]
  <2>1. c \in 1 .. L + m /\ \A i \in 1 .. c : i \in 1 .. L
    BY <1>3
  <2> QED
    BY <1>8, <2>1
<1> QED
  BY <1>1, <1>6, <1>7, <1>9, <1>12, <1>13

\* A worker emits "recv" for one more datagram (data_actor_recv_cb).
LEMMA OneMore ==
    ASSUME NEW S, NEW s \in Seq(S), NEW d \in S
    PROVE  /\ Append(s, d) \in Seq(S)
           /\ Range(Append(s, d)) = Range(s) \cup {d}
           /\ IsInjective(s) /\ d \notin Range(s) => IsInjective(Append(s, d))
<1>1. PICK n \in Nat : n = Len(s)
  OBVIOUS
<1>2. PICK t : t = Append(s, d)
  OBVIOUS
<1>3. /\ t \in Seq(S) /\ DOMAIN s = 1 .. n /\ DOMAIN t = 1 .. n + 1
      /\ \A i \in 1 .. n : t[i] = s[i] /\ i \in 1 .. n + 1
      /\ t[n + 1] = d /\ n + 1 \in 1 .. n + 1
  BY <1>1, <1>2, AppendProperties, LenProperties
<1>4. \A i \in 1 .. n + 1 : i \in 1 .. n \/ i = n + 1
  OBVIOUS
<1>5. Range(t) = Range(s) \cup {d}
  BY <1>3, <1>4 DEF Range
<1>6. ASSUME IsInjective(s), d \notin Range(s)
      PROVE  IsInjective(t)
  BY <1>3, <1>4, <1>6 DEF IsInjective, Range
<1> QED
  BY <1>2, <1>3, <1>5, <1>6

-----------------------------------------------------------------------------
(* The relay. *)

LEMMA RelayInit == Init => RelayInv
<1> SUFFICES ASSUME Init
             PROVE  RelayInv
  OBVIOUS
<1>1. Queue = <<>> /\ Len(Queue) = 0
  BY DEF Init, Queue
<1>2. RelayOK
  <2>1. 0 \in 0 .. Len(Size)
    BY SizesAssumption
  <2>2. <<>> \in Seq(Cell) /\ events \in [Workers -> Seq(Datagrams)]
    BY DEF Init
  <2> QED
    BY <2>1, <2>2 DEF Init, RelayOK
<1>3. Run(Queue, arrived)
  <2>1. Queue \in Seq(Cell)
    BY <1>1
  <2> QED
    BY <1>1, <2>1 DEF Run, CellsOf, Ordered, Complete
<1>4. Starts(Queue) = {}
  BY <1>1 DEF Starts, Holds
<1>5. Emitted = {} /\ \A w \in Workers : Range(events[w]) = {} /\ IsInjective(events[w])
  BY DEF Init, Emitted, Range, IsInjective
<1>6. Places
  BY <1>4, <1>5 DEF Places, Init
<1> QED
  BY <1>1, <1>2, <1>3, <1>6 DEF RelayInv, FrontWasRead, Init

\* What is received goes behind what is on its way.
LEMMA ActorRecvInv ==
    ASSUME RelayInv, ActorRecv
    PROVE  RelayInv'
<1> USE DEF RelayInv
<1>1. PICK d \in Datagrams : d = arrived + 1 /\ d \in 0 .. Len(Size)
  BY SizesAssumption DEF ActorRecv, RelayOK, Datagrams
<1>2. /\ arrived' = d /\ sending' = sending \o Message(d)
      /\ UNCHANGED <<pipe, events, short, skipped, split, wild>>
  BY <1>1 DEF ActorRecv
<1>3. arrived \in 0 .. Len(Size) /\ pipe \in Seq(Cell) /\ sending \in Seq(Cell)
  BY DEF RelayOK
<1>4. PICK q \in Seq(Cell) : q = Queue
  BY <1>3, ConcatProperties DEF Queue
<1>5. Message(d) \in Seq(Cell) /\ WithMessage(q \o Message(d), q, d)
  BY ConcatIsWithMessage
<1>6. Queue' = q \o Message(d) /\ sending' \in Seq(Cell)
  BY <1>2, <1>3, <1>4, <1>5, ConcatAssociative, ConcatProperties DEF Queue
<1>7. PICK r : r = Queue' /\ WithMessage(r, q, d)
  BY <1>5, <1>6
<1>8. /\ Run(r, d)
      /\ Starts(r) = Starts(q) \cup {x \in {d} : Size[x] > 0}
      /\ r # <<>> => r[1] = (IF q = <<>> THEN <<d, 1>> ELSE q[1])
  BY <1>1, <1>3, <1>4, <1>7, OneMoreMessage
<1>9. RelayOK'
  BY <1>1, <1>2, <1>3, <1>6 DEF RelayOK
<1>10. Run(Queue', arrived')
  BY <1>2, <1>7, <1>8
<1>11. FrontWasRead' /\ (wild => split # {})'
  <2>1. r # <<>> /\ r[1][2] # 1 => split # {}
    <3>1. CASE q = <<>>
      BY <1>8, <3>1
    <3>2. CASE q # <<>>
      BY <1>4, <1>8, <3>2 DEF FrontWasRead
    <3> QED
      BY <3>1, <3>2
  <2> QED
    BY <1>2, <1>7, <2>1 DEF FrontWasRead
<1>12. Places'
  <2>1. Emitted' = Emitted
    BY <1>2 DEF Emitted
  <2>2. Starts(Queue)' = Starts(q) \cup {x \in {d} : Size[x] > 0}
    BY <1>7, <1>8 DEF Starts, Holds
  <2>3. d \notin 1 .. arrived /\ 1 .. d = 1 .. arrived \cup {d}
    BY <1>1, <1>3
  <2>4. {x \in 1 .. d : Size[x] > 0}
           = {x \in 1 .. arrived : Size[x] > 0} \cup {x \in {d} : Size[x] > 0}
    BY <2>3
  <2>5. /\ Emitted \cup skipped \subseteq 1 .. arrived
        /\ Starts(q) \cap Emitted = {} /\ skipped \cap Starts(q) = {}
        /\ Emitted \cap skipped = {}
        /\ ~wild => {x \in 1 .. arrived : Size[x] > 0} = Starts(q) \cup Emitted \cup skipped
    BY <1>4 DEF Places
  <2>6. /\ (Starts(Queue) \cap Emitted = {})' /\ (Emitted \cap skipped = {})'
        /\ (skipped \cap Starts(Queue) = {})'
        /\ (Emitted \cup skipped \subseteq 1 .. arrived)'
    BY <1>2, <2>1, <2>2, <2>3, <2>5
  <2>7. (~wild => {x \in 1 .. arrived : Size[x] > 0}
                     = Starts(Queue) \cup Emitted \cup skipped)'
    BY <1>2, <2>1, <2>2, <2>4, <2>5
  <2> QED
    BY <1>2, <2>6, <2>7 DEF Places
<1> QED
  BY <1>9, <1>10, <1>11, <1>12

\* What is on its way stays where it is.
LEMMA SameQueue ==
    ASSUME RelayInv, Queue' = Queue, pipe' \in Seq(Cell), sending' \in Seq(Cell),
           UNCHANGED <<arrived, events, short, skipped, split, wild>>
    PROVE  RelayInv'
<1>1. PICK q : q = Queue /\ q = Queue'
  OBVIOUS
<1>2. RelayOK'
  BY DEF RelayInv, RelayOK
<1>3. Run(Queue', arrived')
  BY DEF RelayInv
<1>4. Emitted' = Emitted /\ Starts(Queue)' = Starts(Queue)
  BY <1>1 DEF Emitted, Starts, Holds
<1>5. Places'
  BY <1>4 DEF RelayInv, Places
<1>6. FrontWasRead'
  BY DEF RelayInv, FrontWasRead
<1> QED
  BY <1>2, <1>3, <1>5, <1>6 DEF RelayInv

LEMMA KernelWriteInv ==
    ASSUME RelayInv, KernelWrite
    PROVE  RelayInv'
<1>1. pipe \in Seq(Cell) /\ sending \in Seq(Cell) /\ sending # <<>>
  BY DEF RelayInv, RelayOK, KernelWrite
<1>2. pipe' = Append(pipe, Head(sending)) /\ sending' = Tail(sending)
  BY DEF KernelWrite
<1>3. Queue' = Queue /\ pipe' \in Seq(Cell) /\ sending' \in Seq(Cell)
  BY <1>1, <1>2, MovedCell DEF Queue
<1> QED
  BY <1>3, SameQueue DEF KernelWrite

\* A worker reads: the front of what is on its way is gone.
LEMMA DataReceiveInv ==
    ASSUME RelayInv, NEW w \in Workers, DataReceive(w)
    PROVE  RelayInv'
<1> USE DEF RelayInv
<1>1. pipe \in Seq(Cell) /\ sending \in Seq(Cell) /\ arrived \in 0 .. Len(Size)
  BY DEF RelayOK
<1>2. PICK n \in 1 .. Len(pipe) : n = ReadLen
  <2>1. Len(pipe) \in Nat \ {0}
    BY <1>1, EmptySeq DEF DataReceive
  <2> QED
    BY <2>1, SizesAssumption DEF ReadLen
<1>3. PICK here : here = {pipe[i][1] : i \in 1 .. n}
  OBVIOUS
<1>4. /\ pipe' = SubSeq(pipe, n + 1, Len(pipe)) /\ split' = split \cup EndsIn(n)
      /\ UNCHANGED <<arrived, sending>>
  BY <1>2, Zenon DEF DataReceive
<1>5. PICK q : q = Queue
  OBVIOUS
<1>6. PICK r : r = Queue'
  OBVIOUS
<1>7. /\ pipe' \in Seq(Cell) /\ RestOf(r, q, n)
      /\ n \in 1 .. Len(q) /\ \A i \in 1 .. n : q[i] = pipe[i]
  BY <1>1, <1>4, <1>5, <1>6, ReadFront DEF Queue
<1>8. Run(q, arrived) /\ Run(r, arrived)
  BY <1>1, <1>5, <1>7, RestOfRun
<1>9. Len(q) \in Nat /\ 1 \in 1 .. n /\ q[1] = pipe[1] /\ q[n] = pipe[n]
  BY <1>7, <1>8, <1>1, RunFacts
<1>10. PICK d \in Datagrams : d = q[1][1] /\ d \in 1 .. arrived
  <2>1. 1 \in 1 .. Len(q)
    BY <1>7, <1>9
  <2> QED
    BY <1>1, <1>8, <2>1, RunFacts
<1>11. here = {q[i][1] : i \in 1 .. n} /\ here \subseteq 1 .. arrived
  <2>1. \A i \in 1 .. n : i \in 1 .. Len(q) /\ q[i] = pipe[i]
    BY <1>7, <1>9
  <2>2. \A i \in 1 .. n : q[i][1] \in 1 .. arrived
    BY <1>1, <1>8, <2>1, RunFacts
  <2>3. here = {q[i][1] : i \in 1 .. n}
    BY <1>3, <2>1
  <2> QED
    BY <2>2, <2>3
<1>12. /\ Starts(r) \subseteq Starts(q) /\ Starts(r) \cap here = {}
       /\ q[1][2] = 1 => /\ d \in here
                        /\ here \subseteq Starts(q)
                        /\ Starts(q) = Starts(r) \cup here
  <2>1. /\ Starts(r) \subseteq Starts(q) /\ Starts(r) \cap here = {}
        /\ q[1][2] = 1 => /\ q[1][1] \in here
                         /\ here \subseteq Starts(q)
                         /\ Starts(q) = Starts(r) \cup here
    <3>1. /\ arrived \in 0 .. Len(Size) /\ Run(q, arrived)
          /\ n \in 1 .. Len(q) /\ RestOf(r, q, n)
      BY <1>1, <1>7, <1>8, Zenon
    <3>2. here = DatagramsIn(q, n)
      BY <1>11, Zenon DEF DatagramsIn
    <3> HIDE DEF RelayInv
    <3> QED
      BY <3>1, <3>2, StartsOfRest, Zenon
  <2> QED
    BY <1>10, <2>1, Zenon
<1>13. split' \subseteq Datagrams /\ (r # <<>> /\ r[1][2] # 1 => split' # {})
  <2>1. n \in 1 .. Len(q) /\ q[n][1] \in Datagrams
    BY <1>1, <1>7, <1>8, RunFacts
  <2>2. EndsIn(n) \subseteq Datagrams
    BY <1>9, <2>1 DEF EndsIn
  <2>3. ASSUME r # <<>>, r[1][2] # 1
        PROVE  EndsIn(n) # {}
    <3>1. Len(r) = Len(q) - n /\ r \in Seq(Cell)
      BY <1>7 DEF RestOf
    <3>2. 1 \in 1 .. Len(q) - n
      BY <1>9, <2>1, <2>3, <3>1, EmptySeq
    <3>3. r[1] = q[1 + n] /\ 1 + n \in 1 .. Len(q)
      BY <1>7, <3>2 DEF RestOf
    <3>4. n + 1 \in 1 .. Len(q) /\ q[n + 1][2] # 1
      BY <2>1, <2>3, <3>3
    <3>5. q[n][2] < Size[q[n][1]]
      BY <1>1, <1>8, <2>1, <3>4, EndedInside
    <3> QED
      BY <1>9, <3>5 DEF EndsIn
  <2> QED
    BY <1>4, <2>2, <2>3 DEF RelayOK
<1>14. FrontWasRead'
  BY <1>6, <1>13 DEF FrontWasRead
<1>15. Starts(Queue)' = Starts(r)
  BY <1>6 DEF Starts, Holds
<1>16. /\ \A v, x \in Workers : v # x => Range(events[v]) \cap Range(events[x]) = {}
       /\ \A v \in Workers : IsInjective(events[v])
       /\ Starts(q) \cap Emitted = {} /\ Emitted \cap skipped = {}
       /\ skipped \cap Starts(q) = {} /\ Emitted \cup skipped \subseteq 1 .. arrived
       /\ ~wild => {x \in 1 .. arrived : Size[x] > 0} = Starts(q) \cup Emitted \cup skipped
  BY <1>5 DEF Places
<1>17. CASE pipe[1][2] = 1
  <2>1. /\ events' = [events EXCEPT ![w] = Append(@, d)]
        /\ short' \subseteq Datagrams /\ skipped' = skipped \cup (here \ {d})
        /\ wild' = wild /\ ~wild
    <3>1. pipe[1][1] = d /\ short \subseteq Datagrams
      BY <1>9, <1>10 DEF RelayOK
    <3> QED
      BY <1>2, <1>3, <1>17, <3>1 DEF DataReceive, Emit
  <2>2. /\ d \in here /\ here \subseteq Starts(q) /\ Starts(q) = Starts(r) \cup here
    BY <1>9, <1>12, <1>17
  <2>3. events \in [Workers -> Seq(Datagrams)]
    BY DEF RelayOK
  <2>4. d \notin Emitted /\ \A v \in Workers : d \notin Range(events[v])
    BY <1>16, <2>2 DEF Emitted
  <2>5. /\ Append(events[w], d) \in Seq(Datagrams)
        /\ Range(Append(events[w], d)) = Range(events[w]) \cup {d}
        /\ IsInjective(Append(events[w], d))
    BY <1>16, <2>3, <2>4, OneMore
  <2>6. /\ events' \in [Workers -> Seq(Datagrams)]
        /\ Range(events'[w]) = Range(events[w]) \cup {d} /\ IsInjective(events'[w])
        /\ \A v \in Workers : v # w => events'[v] = events[v]
    BY <2>1, <2>3, <2>5
  <2>7. \A v, x \in Workers : v # x => Range(events'[v]) \cap Range(events'[x]) = {}
    <3> SUFFICES ASSUME NEW v \in Workers, NEW x \in Workers, v # x
                 PROVE  Range(events'[v]) \cap Range(events'[x]) = {}
      OBVIOUS
    <3>1. Range(events[v]) \cap Range(events[x]) = {}
      BY <1>16, Zenon
    <3>2. d \notin Range(events[v]) /\ d \notin Range(events[x])
      BY <2>4, Zenon
    <3>3. CASE v = w
      <4>1. Range(events'[v]) = Range(events[v]) \cup {d} /\ events'[x] = events[x]
        BY <2>6, <3>3, Zenon
      <4> QED
        BY <3>1, <3>2, <4>1
    <3>4. CASE x = w
      <4>1. Range(events'[x]) = Range(events[x]) \cup {d} /\ events'[v] = events[v]
        BY <2>6, <3>4, Zenon
      <4> QED
        BY <3>1, <3>2, <4>1
    <3>5. CASE v # w /\ x # w
      BY <2>6, <3>1, <3>5, Zenon
    <3> QED
      BY <3>3, <3>4, <3>5
  <2>8. \A v \in Workers : IsInjective(events'[v])
    BY <1>16, <2>6
  <2>9. Emitted' = Emitted \cup {d}
    BY <2>6 DEF Emitted
  <2>10. /\ Starts(r) \cap (Emitted \cup {d}) = {}
         /\ (Emitted \cup {d}) \cap (skipped \cup (here \ {d})) = {}
         /\ (skipped \cup (here \ {d})) \cap Starts(r) = {}
         /\ (Emitted \cup {d}) \cup (skipped \cup (here \ {d})) \subseteq 1 .. arrived
         /\ {x \in 1 .. arrived : Size[x] > 0}
               = Starts(r) \cup (Emitted \cup {d}) \cup (skipped \cup (here \ {d}))
    <3>1. d \in here /\ here \subseteq Starts(q)
      BY <2>2
    <3>2. Starts(r) \cap here = {}
      BY <1>12
    <3>3. {x \in 1 .. arrived : Size[x] > 0} = Starts(q) \cup Emitted \cup skipped
      BY <1>16, <2>1
    <3> QED
      BY <1>11, <1>16, <2>2, <3>1, <3>2, <3>3
  <2>11. Places'
    BY <1>4, <1>15, <2>1, <2>7, <2>8, <2>9, <2>10 DEF Places
  <2>12. RelayOK'
    <3>1. skipped' \subseteq Datagrams /\ 1 .. arrived \subseteq Datagrams
      <4>1. Len(Size) \in Nat
        BY SizesAssumption
      <4>2. 1 .. arrived \subseteq Datagrams
        BY <1>1, <4>1 DEF Datagrams
      <4>3. here \subseteq Datagrams /\ skipped \subseteq Datagrams
        BY <1>11, <4>2, Zenon DEF RelayOK
      <4> QED
        BY <2>1, <4>2, <4>3
    <3> QED
      BY <1>1, <1>4, <1>7, <1>13, <2>1, <2>6, <3>1 DEF RelayOK
  <2>13. (wild => split # {})'
    BY <2>1
  <2> QED
    BY <1>4, <1>6, <1>8, <1>14, <2>11, <2>12, <2>13
<1>18. CASE pipe[1][2] # 1
  <2>1. wild' = TRUE /\ UNCHANGED <<events, short, skipped>>
    BY <1>18 DEF DataReceive
  <2>2. split # {}
    <3>1. q # <<>>
      BY <1>7, <1>8, <1>1, RunFacts, EmptySeq
    <3> QED
      BY <1>5, <1>9, <1>18, <3>1 DEF FrontWasRead
  <2>3. split' # {}
    BY <1>4, <2>2
  <2>4. Emitted' = Emitted
    BY <2>1 DEF Emitted
  <2>5. Places'
    BY <1>4, <1>12, <1>15, <1>16, <2>1, <2>4 DEF Places
  <2>6. RelayOK'
    BY <1>1, <1>4, <1>7, <1>13, <2>1 DEF RelayOK
  <2> QED
    BY <1>4, <1>6, <1>8, <1>14, <2>3, <2>5, <2>6
<1> QED
  BY <1>17, <1>18

\* What the invariant says of the byte stream is what EachOnce says of it.
LEMMA RelayIsSound ==
    ASSUME RelayInv
    PROVE  EachOnce
<1> USE DEF RelayInv
<1>1. pipe \in Seq(Cell) /\ sending \in Seq(Cell) /\ arrived \in 0 .. Len(Size)
  BY DEF RelayOK
<1>2. PICK q : q = Queue
  OBVIOUS
<1>3. Run(q, arrived)
  BY <1>2
<1>4. Range(sending \o pipe) = Range(q) /\ Range(pipe \o sending) = Range(q)
  <2>1. Range(sending \o pipe) = Range(sending) \cup Range(pipe)
    BY <1>1, RangeConcatenation, Zenon
  <2>2. Range(pipe \o sending) = Range(pipe) \cup Range(sending)
    BY <1>1, RangeConcatenation, Zenon
  <2>3. Range(q) = Range(pipe \o sending)
    BY <1>2, Zenon DEF Queue
  <2> QED
    BY <2>1, <2>2, <2>3
<1>5. /\ q \in Seq(Cell) /\ Len(q) \in Nat /\ DOMAIN q = 1 .. Len(q)
      /\ \A i \in 1 .. Len(q) :
            /\ q[i] = <<q[i][1], q[i][2]>>
            /\ q[i][1] \in 1 .. arrived /\ q[i][1] \in Datagrams
            /\ q[i][2] \in 1 .. Size[q[i][1]]
            /\ Size[q[i][1]] \in Nat
  BY <1>1, <1>3, RunFacts
<1>6. Range(q) \subseteq UNION {Range(Message(d)) : d \in 1 .. arrived}
  <2> SUFFICES ASSUME NEW i \in 1 .. Len(q)
               PROVE  \E d \in 1 .. arrived : q[i] \in Range(Message(d))
    BY <1>5 DEF Range
  <2>1. PICK d, k : q[i] = <<d, k>> /\ d \in 1 .. arrived /\ k \in 1 .. Size[d]
    BY <1>5
  <2>2. Message(d)[k] = <<d, k>> /\ k \in DOMAIN Message(d)
    BY <2>1 DEF Message
  <2>3. q[i] \in Range(Message(d))
    BY <2>1, <2>2, Zenon DEF Range
  <2> QED
    BY <2>1, <2>3
<1>7. ASSUME NEW c \in Range(q), c[2] < Size[c[1]]
      PROVE  <<c[1], c[2] + 1>> \in Range(q)
  <2>1. PICK i \in 1 .. Len(q) : q[i] = c
    BY <1>5 DEF Range
  <2>2. PICK d, k : q[i] = <<d, k>> /\ c[1] = d /\ c[2] = k
    BY <1>5, <2>1
  <2>3. PICK e, l : q[1] = <<e, l>> /\ 1 \in 1 .. Len(q)
    BY <1>5
  <2>4. /\ k \in Nat /\ l \in Nat /\ 1 <= i /\ (e = d => l <= k)
        /\ Size[d] \in Nat /\ 1 <= k
    <3>1. 1 <= i
      OBVIOUS
    <3>2. k \in Nat /\ l \in Nat /\ (e = d => l <= k)
      BY <1>1, <1>3, <2>2, <2>3, <3>1, RunOrder
    <3>3. Size[d] \in Nat /\ 1 <= k
      BY <1>5, <2>2
    <3> QED
      BY <3>1, <3>2, <3>3
  <2>5. PICK m : m = k + 1 /\ m \in 1 .. Size[d] /\ ~(e = d /\ m < l)
    BY <1>7, <2>2, <2>4
  <2>6. q[i][1] = d /\ q[1][1] = e /\ q[1][2] = l
    BY <2>2, <2>3
  <2>7. Holds(q, d, m)
    <3>1. m \in 1 .. Size[q[i][1]]
      BY <2>5, <2>6, Zenon
    <3>2. Holds(q, q[i][1], m) \/ (q[1][1] = q[i][1] /\ m < q[1][2])
      BY <1>3, <3>1, Zenon DEF Run, Complete
    <3> QED
      BY <2>5, <2>6, <3>2, Zenon
  <2> QED
    BY <1>5, <2>2, <2>5, <2>7 DEF Holds, Range
<1>8. TypeOK
  <2>1. /\ Range(sending \o pipe)
             \subseteq UNION {Range(Message(d)) : d \in 1 .. arrived}
        /\ \A c \in Range(pipe \o sending) : c[2] < Size[c[1]] =>
              <<c[1], c[2] + 1>> \in Range(pipe \o sending)
    BY <1>4, <1>6, <1>7, Zenon
  <2> QED
    BY <2>1, Zenon DEF TypeOK, RelayOK
<1>9. InTransit = Starts(Queue)
  <2>1. InTransit = {c[1] : c \in {x \in Range(q) : x[2] = 1}}
    BY <1>4 DEF InTransit
  <2>2. ASSUME NEW d \in Starts(q)
        PROVE  \E x \in Range(q) : x[2] = 1 /\ d = x[1]
    <3>1. PICK i \in 1 .. Len(q) : q[i] = <<d, 1>>
      BY DEF Starts, Holds
    <3>2. q[i] \in Range(q) /\ q[i][1] = d /\ q[i][2] = 1
      BY <1>5, <3>1 DEF Range
    <3> QED
      BY <3>2, Zenon
  <2>3. ASSUME NEW x \in Range(q), x[2] = 1
        PROVE  x[1] \in Starts(q)
    <3>1. PICK i \in 1 .. Len(q) : q[i] = x
      BY <1>5 DEF Range
    <3>2. q[i] = <<x[1], 1>> /\ x[1] \in Datagrams
      BY <1>5, <2>3, <3>1
    <3> QED
      BY <3>2 DEF Starts, Holds
  <2> QED
    BY <1>2, <2>1, <2>2, <2>3
<1> QED
  BY <1>8, <1>9 DEF Places, EachOnce

-----------------------------------------------------------------------------
(* The socket of a worker. *)

\* The requests and promises of the sends, and their number.
LEMMA SendFacts ==
    ASSUME ServerTypeOK
    PROVE  \E n \in Nat :
             /\ n = Len(sends) /\ DOMAIN sends = 1 .. n
             /\ sends \in [1 .. n -> Request]
             /\ promise \in [1 .. n -> {"pending", "fulfilled", "rejected"}]
<1>1. sends \in Seq(Request) /\ Len(sends) \in Nat /\ DOMAIN sends = 1 .. Len(sends)
  BY DEF ServerTypeOK
<1>2. sends \in [1 .. Len(sends) -> Request]
  BY <1>1, SeqDef
<1> QED
  BY <1>1, <1>2 DEF ServerTypeOK

\* Changing the states of sends that are made keeps the types.
LEMMA StatesChange ==
    ASSUME ServerTypeOK, sends' \in [DOMAIN sends -> Request],
           promise' \in [DOMAIN sends -> {"pending", "fulfilled", "rejected"}]
    PROVE  /\ sends' \in Seq(Request) /\ DOMAIN sends' = DOMAIN sends
           /\ promise' \in [DOMAIN sends' -> {"pending", "fulfilled", "rejected"}]
<1>1. PICK n \in Nat : DOMAIN sends = 1 .. n
  BY SendFacts
<1>2. sends' \in [1 .. n -> Request] /\ DOMAIN sends' = 1 .. n
  BY <1>1
<1>3. sends' \in Seq(Request)
  BY <1>2, SeqDef
<1> QED
  BY <1>1, <1>2, <1>3

LEMMA SocketInit == ServerInit => SocketInv
<1> SUFFICES ASSUME ServerInit
             PROVE  SocketInv
  OBVIOUS
<1>1. sends = <<>> /\ promise = <<>> /\ DOMAIN sends = {}
  BY DEF ServerInit
<1>2. sends \in Seq(Request)
  BY <1>1
<1>3. promise \in [DOMAIN sends -> {"pending", "fulfilled", "rejected"}]
  BY <1>1
<1>4. 0 \in 0 .. NReceived
  BY ServerBounds
<1>5. ServerTypeOK
  BY <1>2, <1>3, <1>4 DEF ServerInit, ServerTypeOK
<1> QED
  BY <1>1, <1>5 DEF ServerInit, SocketInv, ClosedOnce

\* What leaves the socket alone.
LEMMA SocketStays ==
    ASSUME SocketInv, UNCHANGED <<mode, own>>
    PROVE  SocketInv'
BY DEF SocketInv, ServerTypeOK, ClosedOnce, own

\* send()
LEMMA ServerSendInv ==
    ASSUME SocketInv, UNCHANGED mode, ServerSend
    PROVE  SocketInv'
<1>1. CASE Fault
  BY <1>1 DEF SocketInv, ServerTypeOK, ClosedOnce, ServerSend, Fault
<1>2. CASE reactor = "open" /\ \E r \in {"queued", "refused"} : sends' = Append(sends, r)
           /\ promise' = Append(promise, "pending")
           /\ UNCHANGED <<reactor, received, refs, fault>>
  <2>1. PICK r \in Request : sends' = Append(sends, r)
    BY <1>2 DEF Request
  <2>2. PICK n \in Nat :
             /\ n = Len(sends) /\ DOMAIN sends = 1 .. n
             /\ sends \in [1 .. n -> Request]
             /\ promise \in [1 .. n -> {"pending", "fulfilled", "rejected"}]
    BY SendFacts DEF SocketInv
  <2>3. sends' \in Seq(Request) /\ DOMAIN sends' = 1 .. n + 1
    <3>1. sends \in Seq(Request)
      BY DEF SocketInv, ServerTypeOK
    <3> QED
      BY <2>1, <2>2, <3>1, AppendProperties, LenProperties
  <2>4. promise' \in [1 .. n + 1 -> {"pending", "fulfilled", "rejected"}]
    <3>1. promise \in Seq({"pending", "fulfilled", "rejected"})
      BY <2>2, SeqDef
    <3>2. Len(promise) = n
      BY <2>2, <3>1
    <3>3. PICK t : t = promise' /\ t \in Seq({"pending", "fulfilled", "rejected"})
                   /\ Len(t) = n + 1
      BY <1>2, <3>1, <3>2, AppendProperties
    <3> QED
      BY <3>3
  <2>5. ServerTypeOK'
    BY <1>2, <2>3, <2>4 DEF SocketInv, ServerTypeOK, ServerSend
  <2> QED
    BY <1>2, <2>5 DEF SocketInv, ClosedOnce, ServerSend
<1> QED
  BY <1>1, <1>2 DEF ServerSend

\* close()
LEMMA ServerCloseInv ==
    ASSUME SocketInv, UNCHANGED mode, ServerClose
    PROVE  SocketInv'
BY DEF SocketInv, ServerTypeOK, ClosedOnce, ServerClose, Fault

\* A datagram for the socket.
LEMMA WorkerRecvInv ==
    ASSUME SocketInv, UNCHANGED mode, WorkerRecv
    PROVE  SocketInv'
<1>1. received' \in 0 .. NReceived
  BY ServerBounds DEF SocketInv, ServerTypeOK, WorkerRecv
<1> QED
  BY <1>1 DEF SocketInv, ServerTypeOK, ClosedOnce, WorkerRecv

\* The kernel takes a send, or the handle that closes cancels all.
LEMMA QueueMovesInv ==
    ASSUME SocketInv, UNCHANGED mode, QueueMoves
    PROVE  SocketInv'
<1>1. sends \in [DOMAIN sends -> Request]
  BY SendFacts DEF SocketInv
<1>2. sends' \in [DOMAIN sends -> Request]
  <2>1. CASE \E s \in DOMAIN sends, r \in {"ok", "failed"} : sends' = [sends EXCEPT ![s] = r]
    BY <1>1, <2>1 DEF Request
  <2>2. CASE sends' = [s \in DOMAIN sends |->
                          IF sends[s] = "queued" THEN "cancelled" ELSE sends[s]]
    BY <1>1, <2>2 DEF Request
  <2> QED
    BY <2>1, <2>2 DEF QueueMoves
<1>3. /\ sends' \in Seq(Request)
      /\ promise' \in [DOMAIN sends' -> {"pending", "fulfilled", "rejected"}]
  BY <1>2, StatesChange DEF SocketInv, ServerTypeOK, QueueMoves
<1>4. ServerTypeOK'
  BY <1>3 DEF SocketInv, ServerTypeOK, QueueMoves
<1>5. reactor # "freed"
  BY DEF QueueMoves
<1> QED
  BY <1>4, <1>5 DEF SocketInv, ClosedOnce, QueueMoves

\* The callback of a send.
LEMMA UdpSendCbInv ==
    ASSUME SocketInv, UNCHANGED mode, UdpSendCb
    PROVE  SocketInv'
<1>1. /\ sends \in [DOMAIN sends -> Request]
      /\ promise \in [DOMAIN sends -> {"pending", "fulfilled", "rejected"}]
  BY SendFacts DEF SocketInv
<1>2. PICK s \in DOMAIN sends :
         /\ sends' = [sends EXCEPT ![s] = "answered"]
         /\ promise' = [promise EXCEPT ![s] =
                           IF sends[s] = "ok" THEN "fulfilled" ELSE "rejected"]
  BY DEF UdpSendCb
<1>3. /\ sends' \in [DOMAIN sends -> Request]
      /\ promise' \in [DOMAIN sends -> {"pending", "fulfilled", "rejected"}]
  BY <1>1, <1>2 DEF Request
<1>4. /\ sends' \in Seq(Request) /\ DOMAIN sends' = DOMAIN sends
      /\ promise' \in [DOMAIN sends' -> {"pending", "fulfilled", "rejected"}]
  BY <1>3, StatesChange DEF SocketInv
<1>5. ServerTypeOK'
  BY <1>4 DEF SocketInv, ServerTypeOK, UdpSendCb
<1>6. ASSUME reactor = "freed", NEW t \in DOMAIN sends
      PROVE  sends'[t] \in {"answered", "refused"}
  <2>1. sends[t] \in {"answered", "refused"}
    BY <1>6 DEF SocketInv, ClosedOnce
  <2> QED
    BY <1>1, <1>2, <2>1
<1> QED
  BY <1>4, <1>5, <1>6 DEF SocketInv, ClosedOnce, UdpSendCb

\* The close callback: every send was answered before.
LEMMA UdpCloseCbInv ==
    ASSUME SocketInv, UNCHANGED mode, UdpCloseCb
    PROVE  SocketInv'
<1>1. sends \in [DOMAIN sends -> Request]
  BY SendFacts DEF SocketInv
<1>2. ASSUME NEW s \in DOMAIN sends
      PROVE  sends[s] \in {"answered", "refused"}
  <2>1. sends[s] \in Range(sends) /\ sends[s] \in Request
    BY <1>1 DEF Range
  <2> QED
    BY <2>1 DEF UdpCloseCb, Due, Request
<1>3. refs = 1 /\ refs' = 0 /\ closed
  BY DEF SocketInv, ClosedOnce, UdpCloseCb
<1> QED
  BY <1>2, <1>3 DEF SocketInv, ServerTypeOK, ClosedOnce, UdpCloseCb

-----------------------------------------------------------------------------
(* The server. *)

LEMMA ServerInitInv == ServerInit => IInv
BY RelayInit, SocketInit DEF ServerInit, IInv

LEMMA NextInv == IInv /\ [ServerNext]_<<vars, mode, own>> => IInv'
<1> SUFFICES ASSUME RelayInv, SocketInv, [ServerNext]_<<vars, mode, own>>
             PROVE  RelayInv' /\ SocketInv'
  BY DEF IInv
<1>1. ASSUME UNCHANGED vars
      PROVE  RelayInv'
  <2>1. pipe \in Seq(Cell) /\ sending \in Seq(Cell)
    BY DEF RelayInv, RelayOK
  <2>2. Queue' = Queue /\ pipe' \in Seq(Cell) /\ sending' \in Seq(Cell)
    BY <1>1, <2>1 DEF vars, Queue
  <2> QED
    BY <1>1, <2>2, SameQueue DEF vars
<1>2. CASE UNCHANGED <<vars, mode, own>>
  BY <1>1, <1>2, SocketStays
<1>3. CASE UNCHANGED mode /\ Next /\ UNCHANGED own
  <2>1. RelayInv'
    <3>1. CASE ActorRecv
      BY <3>1, ActorRecvInv
    <3>2. CASE KernelWrite
      BY <3>2, KernelWriteInv
    <3>3. CASE \E w \in Workers : DataReceive(w)
      BY <3>3, DataReceiveInv
    <3> QED
      BY <1>3, <3>1, <3>2, <3>3 DEF Next
  <2> QED
    BY <1>3, <2>1, SocketStays
<1>4. CASE UNCHANGED mode /\ ServerStep /\ UNCHANGED vars
  <2>1. SocketInv'
    <3>1. CASE ServerSend
      BY <1>4, <3>1, ServerSendInv
    <3>2. CASE ServerClose
      BY <1>4, <3>2, ServerCloseInv
    <3>3. CASE WorkerRecv
      BY <1>4, <3>3, WorkerRecvInv
    <3>4. CASE QueueMoves
      BY <1>4, <3>4, QueueMovesInv
    <3>5. CASE UdpSendCb
      BY <1>4, <3>5, UdpSendCbInv
    <3>6. CASE UdpCloseCb
      BY <1>4, <3>6, UdpCloseCbInv
    <3> QED
      BY <1>4, <3>1, <3>2, <3>3, <3>4, <3>5, <3>6 DEF ServerStep
  <2> QED
    BY <1>1, <1>4, <2>1
<1> QED
  BY <1>2, <1>3, <1>4 DEF ServerNext

\* Every state of a server, relayed or with a socket of its own, satisfies the
\* inductive invariant (server/udp.c, rp_reactor_data_receive).
THEOREM Invariance == ServerSpec => []IInv
<1>1. ServerInit => IInv
  BY ServerInitInv
<1>2. IInv /\ [ServerNext]_<<vars, mode, own>> => IInv'
  BY NextInv
<1> QED
  BY <1>1, <1>2, PTL DEF ServerSpec

\* Whatever the number of workers, the sizes of the datagrams and the buffer
\* with which data_pipe is read, a datagram the actor relayed is on its way,
\* emitted once by one worker, or lost behind another in one read; and no
\* worker takes data for a header unless a read ended inside a message.
THEOREM DatagramInOnePlace == ServerSpec => []EachOnce
<1>1. IInv => EachOnce
  BY RelayIsSound DEF IInv
<1> QED
  BY <1>1, Invariance, PTL

\* The reactor gives the server object back once, after close() and after the
\* callbacks of all sends that libuv took (udp_close_cb, udp_send_cb).
THEOREM GivenBackOnce == ServerSpec => []ClosedOnce
<1>1. IInv => ClosedOnce
  BY DEF IInv, SocketInv
<1> QED
  BY <1>1, Invariance, PTL

-----------------------------------------------------------------------------
(***************************************************************************)
(* send() through the actor (DatagramSend).                                *)
(***************************************************************************)

Made == DOMAIN owner
Handle == {"passed", "result"} \X Sends
HandleState == {"none", "open", "closing", "closed"}

\* Sends whose answer PHP code has, or will have when the loop closes.
Read == {s \in Made : result[s] \in {"closing", "closed"}}

SendTypes ==
    /\ owner \in Seq(Senders) /\ Made \subseteq Sends
    /\ phase \in [Senders -> {"timers", "wait", "poll"}]
    /\ outbox \in [Senders -> Seq(Sends)] /\ written \in [Senders -> Seq(Sends)]
    /\ closing \in [Senders -> Seq(Handle)]
    /\ passed \in [Sends -> HandleState] /\ result \in [Sends -> HandleState]
    /\ answer \in [Sends -> {"none", "pending", "fulfilled", "rejected"}]
    /\ value \in [Sends -> Outcomes] /\ status \in [Sends -> Outcomes]
    /\ outcome \in [Sends -> Outcomes] /\ actor \in BOOLEAN
    /\ wire \in Seq(Sends) /\ sent \in Seq(Sends)

\* A message is on its way to the actor once, and not while it is queued.
MessageOnce ==
    /\ Range(wire) \subseteq Made /\ Range(sent) \subseteq Made
    /\ IsInjective(wire) /\ IsInjective(sent) /\ Range(wire) \cap Range(sent) = {}
    /\ \A w \in Senders : Range(outbox[w]) \cap (Range(wire) \cup Range(sent)) = {}

\* The passed end is open until write2_cb closes it.
OpenUntilWritten ==
    \A w \in Senders :
        /\ Range(outbox[w]) \cup Range(written[w]) \subseteq
              {s \in Made : owner[s] = w /\ passed[s] = "open"}
        /\ Range(outbox[w]) \cap Range(written[w]) = {}
        /\ IsInjective(outbox[w]) /\ IsInjective(written[w])

\* What a loop has to close: each handle that is closing, once.
ClosingOnce ==
    \A w \in Senders :
        /\ IsInjective(closing[w])
        /\ \A s \in Sends :
              /\ <<"passed", s>> \in Range(closing[w]) <=>
                    s \in Made /\ owner[s] = w /\ passed[s] = "closing"
              /\ <<"result", s>> \in Range(closing[w]) <=>
                    s \in Made /\ owner[s] = w /\ result[s] = "closing"

\* What the poll found is there when it is read: a status, or the loss of the
\* message.
ReadyHasCause ==
    /\ ready \subseteq {s \in Made : result[s] = "open"}
    /\ \A s \in ready : status[s] # "none" \/ s \in refused \/ ~actor

\* Answers.
AnswersOK ==
    /\ \A s \in Sends : status[s] # "none" => status[s] = outcome[s]
    /\ \A s \in Made :
          /\ answer[s] = "fulfilled" => value[s] = outcome[s] /\ value[s] # "none"
          /\ answer[s] = "rejected" => s \in refused \/ ~actor

\* Only an answer that was read before the passed end was closed leaves that
\* end behind in a structure that is freed.
FreedOK ==
    /\ freed \subseteq {s \in Made : result[s] = "closed"}
    /\ \A s \in Read : passed[s] = "closed" \/ s \in tight
    /\ faulty \subseteq tight

SendInv ==
    /\ SendTypes /\ MessageOnce /\ OpenUntilWritten /\ ClosingOnce
    /\ ReadyHasCause /\ AnswersOK /\ FreedOK

-----------------------------------------------------------------------------
(* Sequences. *)

LEMMA OneLess ==
    ASSUME NEW S, NEW s \in Seq(S), s # <<>>
    PROVE  /\ Head(s) \in S /\ Tail(s) \in Seq(S)
           /\ Range(s) = Range(Tail(s)) \cup {Head(s)}
           /\ IsInjective(s) => IsInjective(Tail(s)) /\ Head(s) \notin Range(Tail(s))
<1>1. PICK n \in Nat : n + 1 = Len(s)
  <2>1. Len(s) \in Nat /\ Len(s) # 0
    BY EmptySeq
  <2> QED
    BY <2>1
<1>2. PICK t, h : t = Tail(s) /\ h = Head(s)
  OBVIOUS
<1>3. /\ h \in S /\ t \in Seq(S) /\ Len(t) = n /\ h = s[1]
      /\ \A i \in 1 .. n : t[i] = s[i + 1]
  BY <1>1, <1>2, HeadTailProperties
<1>4. DOMAIN s = 1 .. n + 1 /\ DOMAIN t = 1 .. n
  BY <1>1, <1>3, LenProperties
<1>5. /\ 1 \in 1 .. n + 1
      /\ \A i \in 1 .. n : i + 1 \in 1 .. n + 1 /\ i + 1 # 1
      /\ \A i, j \in 1 .. n : i + 1 = j + 1 => i = j
      /\ \A i \in 1 .. n + 1 : i = 1 \/ \E j \in 1 .. n : i = j + 1
  <2>1. \A i \in 1 .. n + 1 : i = 1 \/ (i - 1 \in 1 .. n /\ i = (i - 1) + 1)
    OBVIOUS
  <2> QED
    BY <2>1
<1>6. Range(s) = Range(t) \cup {h}
  <2>1. Range(s) = {s[i] : i \in 1 .. n + 1} /\ Range(t) = {t[i] : i \in 1 .. n}
    BY <1>4 DEF Range
  <2>2. ASSUME NEW i \in 1 .. n + 1
        PROVE  s[i] \in Range(t) \cup {h}
    <3>1. CASE i = 1
      BY <1>3, <3>1
    <3>2. CASE i # 1
      <4>1. PICK j \in 1 .. n : i = j + 1
        BY <1>5, <3>2
      <4> QED
        BY <1>3, <2>1, <4>1
    <3> QED
      BY <3>1, <3>2
  <2>3. \A i \in 1 .. n : t[i] \in Range(s)
    BY <1>3, <1>5, <2>1
  <2>4. h \in Range(s)
    BY <1>3, <1>5, <2>1
  <2> QED
    BY <2>1, <2>2, <2>3, <2>4
<1>7. ASSUME IsInjective(s)
      PROVE  IsInjective(t) /\ h \notin Range(t)
  <2>1. \A i, j \in 1 .. n + 1 : s[i] = s[j] => i = j
    BY <1>4, <1>7 DEF IsInjective
  <2>2. \A i, j \in 1 .. n : t[i] = t[j] => i = j
    BY <1>3, <1>5, <2>1
  <2>3. ASSUME NEW i \in 1 .. n, t[i] = h
        PROVE  FALSE
    <3>1. s[i + 1] = s[1]
      BY <1>3, <2>3
    <3>2. i + 1 = 1
      BY <1>5, <2>1, <3>1
    <3> QED
      BY <3>2
  <2> QED
    BY <1>4, <2>2, <2>3 DEF IsInjective, Range
<1> QED
  BY <1>2, <1>3, <1>6, <1>7

LEMMA Joined ==
    ASSUME NEW S, NEW s \in Seq(S), NEW t \in Seq(S)
    PROVE  /\ s \o t \in Seq(S)
           /\ Range(s \o t) = Range(s) \cup Range(t)
           /\ IsInjective(s) /\ IsInjective(t) /\ Range(s) \cap Range(t) = {}
                 => IsInjective(s \o t)
<1>1. PICK n \in Nat, m \in Nat : n = Len(s) /\ m = Len(t)
  OBVIOUS
<1>2. PICK u : u = s \o t
  OBVIOUS
<1>3. /\ u \in Seq(S) /\ DOMAIN s = 1 .. n /\ DOMAIN t = 1 .. m /\ DOMAIN u = 1 .. n + m
      /\ \A i \in 1 .. n + m : u[i] = IF i <= n THEN s[i] ELSE t[i - n]
  BY <1>1, <1>2, ConcatProperties, LenProperties
<1>4. /\ \A i \in 1 .. n : i \in 1 .. n + m /\ i <= n
      /\ \A i \in 1 .. m : n + i \in 1 .. n + m /\ ~(n + i <= n) /\ (n + i) - n = i
      /\ \A i \in 1 .. n + m : (i <= n => i \in 1 .. n)
                               /\ (~(i <= n) => i - n \in 1 .. m /\ n + (i - n) = i)
  OBVIOUS
<1>5. /\ \A i \in 1 .. n : u[i] = s[i]
      /\ \A i \in 1 .. m : u[n + i] = t[i]
  BY <1>3, <1>4
<1>6. Range(u) = Range(s) \cup Range(t)
  <2>1. ASSUME NEW x \in Range(u)
        PROVE  x \in Range(s) \cup Range(t)
    BY <1>3, <1>4 DEF Range
  <2>2. ASSUME NEW x \in Range(s) \cup Range(t)
        PROVE  x \in Range(u)
    <3>1. \A i \in 1 .. n + m : u[i] \in Range(u)
      BY <1>3 DEF Range
    <3>2. CASE x \in Range(s)
      BY <1>3, <1>4, <1>5, <3>1, <3>2 DEF Range
    <3>3. CASE x \in Range(t)
      BY <1>3, <1>4, <1>5, <3>1, <3>3 DEF Range
    <3> QED
      BY <2>2, <3>2, <3>3
  <2> QED
    BY <2>1, <2>2
<1>7. ASSUME IsInjective(s), IsInjective(t), Range(s) \cap Range(t) = {}
      PROVE  IsInjective(u)
  <2> SUFFICES ASSUME NEW i \in 1 .. n + m, NEW j \in 1 .. n + m, u[i] = u[j]
               PROVE  i = j
    BY <1>3 DEF IsInjective
  <2>1. \A a \in 1 .. n, b \in 1 .. m : s[a] # t[b]
    BY <1>3, <1>7 DEF Range
  <2>2. CASE i <= n /\ j <= n
    BY <1>3, <1>4, <1>7, <2>2 DEF IsInjective
  <2>3. CASE ~(i <= n) /\ ~(j <= n)
    <3>1. i - n \in 1 .. m /\ j - n \in 1 .. m /\ t[i - n] = t[j - n]
      BY <1>3, <1>4, <2>3
    <3>2. i - n = j - n
      BY <1>3, <1>7, <3>1 DEF IsInjective
    <3> QED
      BY <3>2
  <2>4. CASE i <= n /\ ~(j <= n)
    BY <1>3, <1>4, <2>1, <2>4
  <2>5. CASE ~(i <= n) /\ j <= n
    BY <1>3, <1>4, <2>1, <2>5
  <2> QED
    BY <2>2, <2>3, <2>4, <2>5
<1> QED
  BY <1>2, <1>3, <1>6, <1>7

\* What write2_cb puts in front of the closing handles.
LEMMA ClosedInTurn ==
    ASSUME NEW q \in Seq(Sends), NEW r, r = Reverse([i \in 1 .. Len(q) |-> <<"passed", q[i]>>])
    PROVE  /\ r \in Seq(Handle)
           /\ \A s \in Sends : <<"passed", s>> \in Range(r) <=> s \in Range(q)
           /\ \A s \in Sends : <<"result", s>> \notin Range(r)
           /\ IsInjective(q) => IsInjective(r)
<1>1. PICK n \in Nat : n = Len(q)
  OBVIOUS
<1>2. PICK p : p = [i \in 1 .. n |-> <<"passed", q[i]>>]
  OBVIOUS
<1>3. p \in Seq(Handle) /\ Len(p) = n
  <2>1. \A i \in 1 .. n : q[i] \in Sends
    BY <1>1, ElementOfSeq
  <2>2. \A i \in 1 .. n : <<"passed", q[i]>> \in Handle
    BY <2>1 DEF Handle
  <2>3. p \in [1 .. n -> Handle]
    BY <1>2, <2>2
  <2> QED
    BY <1>1, <2>3
<1>4. r = [i \in 1 .. n |-> p[(n - i) + 1]]
  BY <1>1, <1>2, <1>3 DEF Reverse
<1>5. \A i \in 1 .. n : (n - i) + 1 \in 1 .. n /\ (n - ((n - i) + 1)) + 1 = i
  OBVIOUS
<1>6. \A i \in 1 .. n : r[i] = <<"passed", q[(n - i) + 1]>>
  BY <1>2, <1>4, <1>5
<1>7. DOMAIN r = 1 .. n /\ DOMAIN q = 1 .. n
  BY <1>1, <1>4, LenProperties
<1>8. r \in Seq(Handle)
  <2>1. \A i \in 1 .. n : p[(n - i) + 1] \in Handle
    BY <1>3, <1>5, ElementOfSeq
  <2>2. r \in [1 .. n -> Handle]
    BY <1>4, <2>1
  <2> QED
    BY <2>2
<1>9. ASSUME NEW s \in Sends
      PROVE  /\ <<"passed", s>> \in Range(r) <=> s \in Range(q)
             /\ <<"result", s>> \notin Range(r)
  <2>1. s \in Range(q) => <<"passed", s>> \in Range(r)
    <3> SUFFICES ASSUME s \in Range(q)
                 PROVE  <<"passed", s>> \in Range(r)
      OBVIOUS
    <3>1. PICK i \in 1 .. n : q[i] = s
      BY <1>7 DEF Range
    <3>2. PICK j \in 1 .. n : (n - j) + 1 = i
      BY <1>5
    <3>3. r[j] = <<"passed", s>>
      BY <1>6, <3>1, <3>2
    <3> QED
      BY <1>7, <3>3 DEF Range
  <2>2. <<"passed", s>> \in Range(r) => s \in Range(q)
    <3> SUFFICES ASSUME <<"passed", s>> \in Range(r)
                 PROVE  s \in Range(q)
      OBVIOUS
    <3>1. PICK i \in 1 .. n : r[i] = <<"passed", s>>
      BY <1>7 DEF Range
    <3>2. PICK j \in 1 .. n : j = (n - i) + 1
      BY <1>5
    <3>3. q[j] = s
      BY <1>6, <3>1, <3>2
    <3> QED
      BY <1>7, <3>3 DEF Range
  <2>3. <<"result", s>> \notin Range(r)
    BY <1>6, <1>7 DEF Range
  <2> QED
    BY <2>1, <2>2, <2>3
<1>10. ASSUME IsInjective(q)
       PROVE  IsInjective(r)
  <2>1. \A i, j \in 1 .. n : (n - i) + 1 = (n - j) + 1 => i = j
    OBVIOUS
  <2>2. \A i, j \in 1 .. n : q[i] = q[j] => i = j
    BY <1>7, <1>10 DEF IsInjective
  <2>3. ASSUME NEW i \in 1 .. n, NEW j \in 1 .. n, r[i] = r[j]
        PROVE  i = j
    <3>1. PICK a \in 1 .. n, b \in 1 .. n : a = (n - i) + 1 /\ b = (n - j) + 1
      BY <1>5
    <3>2. q[a] = q[b]
      BY <1>6, <2>3, <3>1
    <3>3. a = b
      BY <2>2, <3>2
    <3> QED
      BY <2>1, <3>1, <3>3
  <2> QED
    BY <1>7, <2>3 DEF IsInjective
<1> QED
  BY <1>8, <1>9, <1>10

-----------------------------------------------------------------------------
(* Every step keeps SendInv. *)

LEMMA SendInitInv == SendInit => SendInv
<1> SUFFICES ASSUME SendInit
             PROVE  SendInv
  OBVIOUS
<1>1. /\ owner = <<>> /\ wire = <<>> /\ sent = <<>> /\ Made = {}
      /\ Range(wire) = {} /\ Range(sent) = {} /\ IsInjective(wire) /\ IsInjective(sent)
  BY DEF SendInit, Made, Range, IsInjective
<1>2. ASSUME NEW w \in Senders
      PROVE  /\ outbox[w] = <<>> /\ written[w] = <<>> /\ closing[w] = <<>>
             /\ Range(outbox[w]) = {} /\ Range(written[w]) = {} /\ Range(closing[w]) = {}
             /\ IsInjective(outbox[w]) /\ IsInjective(written[w]) /\ IsInjective(closing[w])
  BY DEF SendInit, Range, IsInjective
<1>3. SendTypes
  <2>1. /\ owner \in Seq(Senders) /\ wire \in Seq(Sends) /\ sent \in Seq(Sends)
        /\ <<>> \in Seq(Sends) /\ <<>> \in Seq(Handle)
    BY <1>1
  <2> QED
    BY <1>1, <2>1 DEF SendInit, SendTypes, HandleState, Outcomes
<1>4. MessageOnce /\ OpenUntilWritten /\ ClosingOnce
  BY <1>1, <1>2 DEF MessageOnce, OpenUntilWritten, ClosingOnce
<1>5. ReadyHasCause /\ AnswersOK /\ FreedOK
  BY <1>1 DEF SendInit, ReadyHasCause, AnswersOK, FreedOK, Read
<1> QED
  BY <1>3, <1>4, <1>5 DEF SendInv

\* write2_cb closes passed ends that were open.
LEMMA Write2CbFacts ==
    ASSUME SendInv, NEW w \in Senders, NEW q \in Seq(Sends), IsInjective(q),
           Range(q) \subseteq {s \in Made : owner[s] = w /\ passed[s] = "open"},
           Write2Cb(w, q), owner' = owner, result' = result
    PROVE  /\ closing' \in [Senders -> Seq(Handle)] /\ ClosingOnce'
           /\ passed' \in [Sends -> HandleState]
           /\ \A s \in Sends : passed'[s] = IF s \in Range(q) THEN "closing" ELSE passed[s]
<1> USE DEF SendInv
<1>1. PICK r : r = Reverse([i \in 1 .. Len(q) |-> <<"passed", q[i]>>])
  OBVIOUS
<1>2. /\ r \in Seq(Handle) /\ IsInjective(r)
      /\ \A s \in Sends : <<"passed", s>> \in Range(r) <=> s \in Range(q)
      /\ \A s \in Sends : <<"result", s>> \notin Range(r)
  BY <1>1, ClosedInTurn
<1>3. /\ closing \in [Senders -> Seq(Handle)] /\ passed \in [Sends -> HandleState]
      /\ Made \subseteq Sends /\ Made' = Made
  BY DEF SendTypes, Made
<1>4. /\ closing' = [closing EXCEPT ![w] = r \o closing[w]]
      /\ passed' = [s \in Sends |-> IF s \in Range(q) THEN "closing" ELSE passed[s]]
  BY <1>1, <1>3 DEF Write2Cb
<1>5. /\ \A s \in Sends : passed'[s] = IF s \in Range(q) THEN "closing" ELSE passed[s]
      /\ passed' \in [Sends -> HandleState]
  BY <1>3, <1>4 DEF HandleState
<1>6. \A x \in Range(r) : x \notin Range(closing[w])
  <2>1. ASSUME NEW x \in Range(r)
        PROVE  x \notin Range(closing[w])
    <3>1. x \in Handle
      BY <1>2, RangeOfSeq DEF Range
    <3>2. PICK s \in Sends : x = <<"passed", s>> \/ x = <<"result", s>>
      BY <3>1 DEF Handle
    <3>3. x = <<"passed", s>> /\ s \in Range(q)
      BY <1>2, <2>1, <3>2
    <3> QED
      BY <3>3 DEF ClosingOnce
  <2> QED
    BY <2>1
<1>7. /\ r \o closing[w] \in Seq(Handle) /\ IsInjective(r \o closing[w])
      /\ Range(r \o closing[w]) = Range(r) \cup Range(closing[w])
  <2>1. closing[w] \in Seq(Handle) /\ IsInjective(closing[w])
    BY <1>3 DEF ClosingOnce
  <2>2. Range(r) \cap Range(closing[w]) = {}
    BY <1>6
  <2> QED
    BY <1>2, <2>1, <2>2, Joined
<1>8. closing' \in [Senders -> Seq(Handle)]
  BY <1>3, <1>4, <1>7
<1>9. ClosingOnce'
  <2> SUFFICES ASSUME NEW v \in Senders
               PROVE  /\ IsInjective(closing'[v])
                      /\ \A s \in Sends :
                            /\ <<"passed", s>> \in Range(closing'[v]) <=>
                                  s \in Made /\ owner[s] = v /\ passed'[s] = "closing"
                            /\ <<"result", s>> \in Range(closing'[v]) <=>
                                  s \in Made /\ owner[s] = v /\ result[s] = "closing"
    BY <1>3 DEF ClosingOnce
  <2>1. CASE v = w
    <3>1. closing'[v] = r \o closing[w]
      BY <1>3, <1>4, <2>1
    <3>2. IsInjective(closing'[v]) /\ Range(closing'[v]) = Range(r) \cup Range(closing[w])
      BY <1>7, <3>1
    <3>3. ASSUME NEW s \in Sends
          PROVE  /\ <<"passed", s>> \in Range(closing'[v]) <=>
                        s \in Made /\ owner[s] = v /\ passed'[s] = "closing"
                 /\ <<"result", s>> \in Range(closing'[v]) <=>
                        s \in Made /\ owner[s] = v /\ result[s] = "closing"
      BY <1>2, <1>5, <2>1, <3>2 DEF ClosingOnce
    <3> QED
      BY <3>2, <3>3
  <2>2. CASE v # w
    <3>1. closing'[v] = closing[v]
      BY <1>3, <1>4, <2>2
    <3>2. \A s \in Sends : s \in Made /\ owner[s] = v => passed'[s] = passed[s]
      BY <1>5, <2>2
    <3> QED
      BY <3>1, <3>2 DEF ClosingOnce
  <2> QED
    BY <2>1, <2>2
<1> QED
  BY <1>5, <1>8, <1>9

LEMMA SendMsgFacts ==
    ASSUME NEW s \in Sends, wire \in Seq(Sends), IsInjective(wire), s \notin Range(wire),
           SendMsg(s)
    PROVE  /\ wire' \in Seq(Sends) /\ IsInjective(wire')
           /\ Range(wire') \subseteq Range(wire) \cup {s} /\ refused \subseteq refused'
<1>1. CASE wire' = Append(wire, s) /\ refused' = refused
  <2>1. /\ Append(wire, s) \in Seq(Sends) /\ IsInjective(Append(wire, s))
        /\ Range(Append(wire, s)) = Range(wire) \cup {s}
    BY OneMore
  <2> QED
    BY <1>1, <2>1
<1>2. CASE refused' = refused \cup {s} /\ wire' = wire
  BY <1>2
<1> QED
  BY <1>1, <1>2 DEF SendMsg

LEMMA SendStep ==
    ASSUME SendInv, NEW w \in Senders, Send(w)
    PROVE  SendInv'
<1> USE DEF SendInv
<1>1. PICK s : s = Len(owner) + 1
  OBVIOUS
<1>2. /\ s \in Sends /\ owner' = Append(owner, w)
      /\ passed' = [passed EXCEPT ![s] = "open"] /\ result' = [result EXCEPT ![s] = "open"]
      /\ answer' = [answer EXCEPT ![s] = "pending"]
      /\ phase' = phase /\ ready' = ready /\ closing' = closing /\ freed' = freed
      /\ value' = value /\ actor' = actor /\ sent' = sent /\ outcome' = outcome
      /\ status' = status /\ tight' = tight /\ faulty' = faulty
  BY <1>1 DEF Send, actorVars
<1>3. \/ /\ outbox[w] = <<>> /\ SendMsg(s) /\ outbox' = outbox
         /\ written' = [written EXCEPT ![w] = Append(@, s)]
      \/ /\ outbox' = [outbox EXCEPT ![w] = Append(@, s)]
         /\ written' = written /\ wire' = wire /\ refused' = refused
  BY <1>1 DEF Send
<1>4. /\ Made' = Made \cup {s} /\ s \notin Made /\ owner' \in Seq(Senders)
      /\ owner'[s] = w /\ \A x \in Made : owner'[x] = owner[x]
  <2>1. PICK n \in Nat : n = Len(owner) /\ s = n + 1
    BY <1>1 DEF SendTypes
  <2>2. /\ owner' \in Seq(Senders) /\ Len(owner') = n + 1 /\ owner'[n + 1] = w
        /\ \A x \in 1 .. n : owner'[x] = owner[x]
    BY <1>2, <2>1, AppendProperties DEF SendTypes
  <2>3. Made = 1 .. n /\ Made' = 1 .. n + 1
    BY <2>1, <2>2, LenProperties DEF SendTypes, Made
  <2>4. 1 .. n + 1 = (1 .. n) \cup {n + 1} /\ n + 1 \notin 1 .. n
    BY <2>1
  <2> QED
    BY <2>1, <2>2, <2>3, <2>4
<1>5. /\ passed'[s] = "open" /\ result'[s] = "open" /\ answer'[s] = "pending"
      /\ \A x \in Sends : x # s =>
            passed'[x] = passed[x] /\ result'[x] = result[x] /\ answer'[x] = answer[x]
  BY <1>2 DEF SendTypes
<1>6. \A v \in Senders : s \notin Range(outbox[v]) /\ s \notin Range(written[v])
  BY <1>4 DEF OpenUntilWritten
<1>7. s \notin Range(wire) /\ s \notin Range(sent)
  BY <1>4 DEF MessageOnce
<1>8. Made \subseteq Sends /\ \A x \in Made : x # s
  BY <1>4 DEF SendTypes
<1>9. /\ outbox' \in [Senders -> Seq(Sends)] /\ written' \in [Senders -> Seq(Sends)]
      /\ \A v \in Senders : v # w => outbox'[v] = outbox[v] /\ written'[v] = written[v]
      /\ Range(outbox'[w]) \cup Range(written'[w]) \subseteq
            Range(outbox[w]) \cup Range(written[w]) \cup {s}
      /\ Range(outbox'[w]) \cap Range(written'[w]) = {}
      /\ IsInjective(outbox'[w]) /\ IsInjective(written'[w])
      /\ wire' \in Seq(Sends) /\ IsInjective(wire') /\ refused \subseteq refused'
      /\ Range(wire') \subseteq Range(wire) \cup {s}
      /\ (s \in Range(wire') => Range(outbox'[w]) = Range(outbox[w]))
      /\ \A x \in Range(outbox'[w]) : x \in Range(outbox[w]) \/ x = s
  <2>1. /\ outbox[w] \in Seq(Sends) /\ written[w] \in Seq(Sends)
        /\ outbox \in [Senders -> Seq(Sends)] /\ written \in [Senders -> Seq(Sends)]
        /\ IsInjective(outbox[w]) /\ IsInjective(written[w])
        /\ Range(outbox[w]) \cap Range(written[w]) = {}
    BY DEF SendTypes, OpenUntilWritten
  <2>2. CASE /\ outbox[w] = <<>> /\ SendMsg(s) /\ outbox' = outbox
             /\ written' = [written EXCEPT ![w] = Append(@, s)]
    <3>1. /\ wire' \in Seq(Sends) /\ IsInjective(wire')
          /\ Range(wire') \subseteq Range(wire) \cup {s} /\ refused \subseteq refused'
      BY <1>2, <1>7, <2>2, SendMsgFacts DEF SendTypes, MessageOnce
    <3>2. /\ Append(written[w], s) \in Seq(Sends) /\ IsInjective(Append(written[w], s))
          /\ Range(Append(written[w], s)) = Range(written[w]) \cup {s}
      BY <1>2, <1>6, <2>1, OneMore
    <3>3. /\ written'[w] = Append(written[w], s) /\ written' \in [Senders -> Seq(Sends)]
          /\ \A v \in Senders : v # w => written'[v] = written[v]
      BY <2>1, <2>2, <3>2
    <3>4. /\ IsInjective(written'[w])
          /\ Range(written'[w]) = Range(written[w]) \cup {s}
      BY <3>2, <3>3
    <3> QED
      BY <1>6, <2>1, <2>2, <3>1, <3>3, <3>4
  <2>3. CASE /\ outbox' = [outbox EXCEPT ![w] = Append(@, s)]
             /\ written' = written /\ wire' = wire /\ refused' = refused
    <3>1. wire \in Seq(Sends) /\ IsInjective(wire)
      BY DEF SendTypes, MessageOnce
    <3>2. /\ Append(outbox[w], s) \in Seq(Sends) /\ IsInjective(Append(outbox[w], s))
          /\ Range(Append(outbox[w], s)) = Range(outbox[w]) \cup {s}
      BY <1>2, <1>6, <2>1, OneMore
    <3>3. /\ outbox'[w] = Append(outbox[w], s) /\ outbox' \in [Senders -> Seq(Sends)]
          /\ \A v \in Senders : v # w => outbox'[v] = outbox[v]
      BY <2>1, <2>3, <3>2
    <3>4. /\ IsInjective(outbox'[w])
          /\ Range(outbox'[w]) = Range(outbox[w]) \cup {s}
      BY <3>2, <3>3
    <3> QED
      BY <1>6, <1>7, <2>1, <2>3, <3>1, <3>3, <3>4
  <2> QED
    BY <1>3, <2>2, <2>3
<1>10. SendTypes'
  <2>1. /\ passed' \in [Sends -> HandleState] /\ result' \in [Sends -> HandleState]
        /\ answer' \in [Sends -> {"none", "pending", "fulfilled", "rejected"}]
    BY <1>2 DEF SendTypes, HandleState
  <2>2. Made' \subseteq Sends
    BY <1>2, <1>4, <1>8
  <2> QED
    BY <1>2, <1>4, <1>9, <2>1, <2>2 DEF SendTypes
<1>11. MessageOnce'
  <2>1. ASSUME NEW v \in Senders
        PROVE  Range(outbox'[v]) \cap (Range(wire') \cup Range(sent')) = {}
    <3>1. Range(outbox[v]) \cap (Range(wire) \cup Range(sent)) = {}
      BY DEF MessageOnce
    <3> QED
      BY <1>2, <1>6, <1>7, <1>9, <3>1
  <2> QED
    BY <1>2, <1>4, <1>7, <1>9, <2>1 DEF MessageOnce
<1>12. OpenUntilWritten'
  <2> SUFFICES ASSUME NEW v \in Senders
               PROVE  /\ Range(outbox'[v]) \cup Range(written'[v]) \subseteq
                            {x \in Made' : owner'[x] = v /\ passed'[x] = "open"}
                      /\ Range(outbox'[v]) \cap Range(written'[v]) = {}
                      /\ IsInjective(outbox'[v]) /\ IsInjective(written'[v])
    BY DEF OpenUntilWritten
  <2>1. \A x \in Range(outbox[v]) \cup Range(written[v]) :
            x \in Made' /\ owner'[x] = v /\ passed'[x] = "open"
    BY <1>4, <1>5, <1>8 DEF OpenUntilWritten
  <2>2. s \in Made' /\ owner'[s] = w /\ passed'[s] = "open"
    BY <1>4, <1>5
  <2>3. CASE v = w
    BY <1>9, <2>1, <2>2, <2>3
  <2>4. CASE v # w
    BY <1>9, <2>1, <2>4 DEF OpenUntilWritten
  <2> QED
    BY <2>3, <2>4
<1>13. ClosingOnce'
  <2> SUFFICES ASSUME NEW v \in Senders
               PROVE  /\ IsInjective(closing[v])
                      /\ \A x \in Sends :
                            /\ <<"passed", x>> \in Range(closing[v]) <=>
                                  x \in Made' /\ owner'[x] = v /\ passed'[x] = "closing"
                            /\ <<"result", x>> \in Range(closing[v]) <=>
                                  x \in Made' /\ owner'[x] = v /\ result'[x] = "closing"
    BY <1>2 DEF ClosingOnce
  <2> QED
    BY <1>4, <1>5, <1>8 DEF ClosingOnce
<1>14. ReadyHasCause'
  <2>1. \A x \in ready : x \in Made' /\ result'[x] = "open"
    BY <1>4, <1>5, <1>8 DEF ReadyHasCause
  <2>2. \A x \in ready : status[x] # "none" \/ x \in refused' \/ ~actor
    BY <1>9 DEF ReadyHasCause
  <2> QED
    BY <1>2, <2>1, <2>2 DEF ReadyHasCause
<1>15. AnswersOK'
  <2>1. ASSUME NEW x \in Made'
        PROVE  /\ answer'[x] = "fulfilled" => value[x] = outcome[x] /\ value[x] # "none"
               /\ answer'[x] = "rejected" => x \in refused' \/ ~actor
    BY <1>4, <1>5, <1>8, <1>9, <2>1 DEF AnswersOK
  <2> QED
    BY <1>2, <2>1 DEF AnswersOK
<1>16. FreedOK'
  <2>1. \A x \in freed : x \in Made' /\ result'[x] = "closed"
    BY <1>4, <1>5, <1>8 DEF FreedOK
  <2>2. ASSUME NEW x \in Made', result'[x] \in {"closing", "closed"}
        PROVE  passed'[x] = "closed" \/ x \in tight
    BY <1>4, <1>5, <1>8, <2>2 DEF FreedOK, Read
  <2>3. faulty \subseteq tight
    BY DEF FreedOK
  <2> QED
    BY <1>2, <2>1, <2>2, <2>3 DEF FreedOK, Read
<1> QED
  BY <1>10, <1>11, <1>12, <1>13, <1>14, <1>15, <1>16

LEMMA RunPendingStep ==
    ASSUME SendInv, NEW w \in Senders, RunPending(w)
    PROVE  SendInv'
<1> USE DEF SendInv
<1>1. /\ phase' = [phase EXCEPT ![w] = "wait"] /\ Write2Cb(w, written[w])
      /\ written' = [written EXCEPT ![w] = <<>>]
      /\ owner' = owner /\ ready' = ready /\ outbox' = outbox /\ result' = result
      /\ freed' = freed /\ answer' = answer /\ value' = value /\ wire' = wire
      /\ actor' = actor /\ sent' = sent /\ outcome' = outcome /\ status' = status
      /\ refused' = refused /\ tight' = tight /\ faulty' = faulty /\ Made' = Made
  BY DEF RunPending, actorVars, Made
<1>2. PICK q \in Seq(Sends) : q = written[w]
  BY DEF SendTypes
<1>3. /\ IsInjective(q) /\ Range(q) \subseteq {s \in Made : owner[s] = w /\ passed[s] = "open"}
      /\ Range(outbox[w]) \cap Range(q) = {}
  BY <1>2 DEF OpenUntilWritten
<1>4. /\ closing' \in [Senders -> Seq(Handle)] /\ ClosingOnce'
      /\ passed' \in [Sends -> HandleState]
      /\ \A s \in Sends : passed'[s] = IF s \in Range(q) THEN "closing" ELSE passed[s]
  BY <1>1, <1>2, <1>3, Write2CbFacts
<1>5. /\ written' \in [Senders -> Seq(Sends)] /\ Range(written'[w]) = {}
      /\ IsInjective(written'[w])
      /\ \A v \in Senders : v # w => written'[v] = written[v]
  <2>1. written \in [Senders -> Seq(Sends)] /\ <<>> \in Seq(Sends)
    BY DEF SendTypes
  <2>2. written' \in [Senders -> Seq(Sends)] /\ written'[w] = <<>>
    BY <1>1, <2>1
  <2> QED
    BY <1>1, <2>1, <2>2 DEF Range, IsInjective
<1>6. SendTypes'
  <2>1. phase' \in [Senders -> {"timers", "wait", "poll"}]
    BY <1>1 DEF SendTypes
  <2> QED
    BY <1>1, <1>4, <1>5, <2>1 DEF SendTypes
<1>7. MessageOnce' /\ ReadyHasCause' /\ AnswersOK'
  BY <1>1 DEF MessageOnce, ReadyHasCause, AnswersOK
<1>8. OpenUntilWritten'
  <2> SUFFICES ASSUME NEW v \in Senders
               PROVE  /\ Range(outbox[v]) \cup Range(written'[v]) \subseteq
                            {x \in Made : owner[x] = v /\ passed'[x] = "open"}
                      /\ Range(outbox[v]) \cap Range(written'[v]) = {}
                      /\ IsInjective(outbox[v]) /\ IsInjective(written'[v])
    BY <1>1 DEF OpenUntilWritten
  <2>1. CASE v = w
    <3>1. \A x \in Range(outbox[w]) : x \in Made /\ owner[x] = w /\ passed[x] = "open"
      BY DEF OpenUntilWritten
    <3>2. \A x \in Range(outbox[w]) : passed'[x] = "open"
      BY <1>3, <1>4, <3>1 DEF SendTypes
    <3> QED
      BY <1>5, <2>1, <3>1, <3>2 DEF OpenUntilWritten
  <2>2. CASE v # w
    <3>1. \A x \in Made : owner[x] = v => passed'[x] = passed[x]
      BY <1>3, <1>4, <2>2 DEF SendTypes
    <3> QED
      BY <1>5, <2>2, <3>1 DEF OpenUntilWritten
  <2> QED
    BY <2>1, <2>2
<1>9. FreedOK'
  <2>1. \A s \in Made : passed[s] = "closed" => passed'[s] = "closed"
    BY <1>3, <1>4 DEF SendTypes
  <2> QED
    BY <1>1, <2>1 DEF FreedOK, Read
<1> QED
  BY <1>4, <1>6, <1>7, <1>8, <1>9

LEMMA FlushStep ==
    ASSUME SendInv, NEW w \in Senders, Flush(w)
    PROVE  SendInv'
<1> USE DEF SendInv
<1>1. PICK s : s = Head(outbox[w])
  OBVIOUS
<1>2. /\ outbox[w] # <<>> /\ SendMsg(s) /\ Write2Cb(w, <<s>>)
      /\ outbox' = [outbox EXCEPT ![w] = Tail(@)]
      /\ owner' = owner /\ phase' = phase /\ ready' = ready /\ written' = written
      /\ result' = result /\ freed' = freed /\ answer' = answer /\ value' = value
      /\ actor' = actor /\ sent' = sent /\ outcome' = outcome /\ status' = status
      /\ tight' = tight /\ faulty' = faulty /\ Made' = Made
  BY <1>1 DEF Flush, actorVars, Made
<1>3. PICK t : t = Tail(outbox[w])
  OBVIOUS
<1>4. /\ s \in Sends /\ t \in Seq(Sends) /\ Range(outbox[w]) = Range(t) \cup {s}
      /\ IsInjective(t) /\ s \notin Range(t)
  <2>1. outbox[w] \in Seq(Sends) /\ IsInjective(outbox[w])
    BY DEF SendTypes, OpenUntilWritten
  <2> QED
    BY <1>1, <1>2, <1>3, <2>1, OneLess
<1>5. /\ outbox' \in [Senders -> Seq(Sends)] /\ outbox'[w] = t
      /\ \A v \in Senders : v # w => outbox'[v] = outbox[v]
  BY <1>2, <1>3, <1>4 DEF SendTypes
<1>6. s \in Made /\ owner[s] = w /\ passed[s] = "open" /\ s \notin Range(written[w])
  BY <1>4 DEF OpenUntilWritten
<1>7. s \notin Range(wire) /\ s \notin Range(sent)
  BY <1>4 DEF MessageOnce
<1>8. /\ wire' \in Seq(Sends) /\ IsInjective(wire')
      /\ Range(wire') \subseteq Range(wire) \cup {s} /\ refused \subseteq refused'
  BY <1>2, <1>4, <1>7, SendMsgFacts DEF SendTypes, MessageOnce
<1>9. /\ <<s>> \in Seq(Sends) /\ Range(<<s>>) = {s} /\ IsInjective(<<s>>)
  BY <1>4 DEF Range, IsInjective
<1>10. /\ closing' \in [Senders -> Seq(Handle)] /\ ClosingOnce'
       /\ passed' \in [Sends -> HandleState]
       /\ \A x \in Sends : passed'[x] = IF x = s THEN "closing" ELSE passed[x]
  <2>1. Range(<<s>>) \subseteq {x \in Made : owner[x] = w /\ passed[x] = "open"}
    BY <1>6, <1>9
  <2>2. /\ closing' \in [Senders -> Seq(Handle)] /\ ClosingOnce'
        /\ passed' \in [Sends -> HandleState]
        /\ \A x \in Sends : passed'[x] = IF x \in Range(<<s>>) THEN "closing" ELSE passed[x]
    BY <1>2, <1>9, <2>1, Write2CbFacts
  <2> QED
    BY <1>9, <2>2
<1>11. SendTypes'
  BY <1>2, <1>5, <1>8, <1>10 DEF SendTypes
<1>12. MessageOnce'
  <2>1. ASSUME NEW v \in Senders
        PROVE  Range(outbox'[v]) \cap (Range(wire') \cup Range(sent)) = {}
    <3>1. Range(outbox[v]) \cap (Range(wire) \cup Range(sent)) = {}
      BY DEF MessageOnce
    <3>2. CASE v = w
      BY <1>4, <1>5, <1>8, <3>1, <3>2
    <3>3. CASE v # w
      <4>1. s \notin Range(outbox[v])
        BY <1>6, <3>3 DEF OpenUntilWritten
      <4> QED
        BY <1>5, <1>8, <3>1, <3>3, <4>1
    <3> QED
      BY <3>2, <3>3
  <2>2. Range(wire') \cap Range(sent) = {} /\ Range(wire') \subseteq Made
    BY <1>6, <1>7, <1>8 DEF MessageOnce
  <2> QED
    BY <1>2, <1>8, <2>1, <2>2 DEF MessageOnce
<1>13. OpenUntilWritten'
  <2> SUFFICES ASSUME NEW v \in Senders
               PROVE  /\ Range(outbox'[v]) \cup Range(written[v]) \subseteq
                            {x \in Made : owner[x] = v /\ passed'[x] = "open"}
                      /\ Range(outbox'[v]) \cap Range(written[v]) = {}
                      /\ IsInjective(outbox'[v]) /\ IsInjective(written[v])
    BY <1>2 DEF OpenUntilWritten
  <2>1. /\ \A x \in Range(outbox[v]) \cup Range(written[v]) :
               x \in Made /\ x \in Sends /\ owner[x] = v /\ passed[x] = "open"
        /\ Range(outbox[v]) \cap Range(written[v]) = {}
        /\ IsInjective(outbox[v]) /\ IsInjective(written[v])
    BY DEF OpenUntilWritten, SendTypes
  <2>2. CASE v = w
    BY <1>4, <1>5, <1>6, <1>10, <2>1, <2>2
  <2>3. CASE v # w
    <3>1. s \notin Range(outbox[v]) \cup Range(written[v])
      BY <1>6, <2>1, <2>3
    <3> QED
      BY <1>5, <1>10, <2>1, <2>3, <3>1
  <2> QED
    BY <2>2, <2>3
<1>14. ReadyHasCause'
  BY <1>2, <1>8 DEF ReadyHasCause
<1>15. AnswersOK'
  BY <1>2, <1>8 DEF AnswersOK
<1>16. FreedOK'
  <2>1. \A x \in Made : passed[x] = "closed" => passed'[x] = "closed"
    BY <1>6, <1>10 DEF SendTypes
  <2> QED
    BY <1>2, <2>1 DEF FreedOK, Read
<1> QED
  BY <1>10, <1>11, <1>12, <1>13, <1>14, <1>15, <1>16

LEMMA PollStep ==
    ASSUME SendInv, NEW w \in Senders, Poll(w)
    PROVE  SendInv'
<1> USE DEF SendInv
<1>1. /\ phase' = [phase EXCEPT ![w] = "poll"]
      /\ ready' = ready \cup {s \in Owned(w) : result[s] = "open" /\ Readable(s)}
      /\ owner' = owner /\ outbox' = outbox /\ written' = written /\ closing' = closing
      /\ passed' = passed /\ result' = result
      /\ freed' = freed /\ answer' = answer /\ value' = value /\ wire' = wire
      /\ actor' = actor /\ sent' = sent /\ outcome' = outcome /\ status' = status
      /\ refused' = refused /\ tight' = tight /\ faulty' = faulty /\ Made' = Made
  BY DEF Poll, actorVars, Made
<1>2. SendTypes'
  <2>1. phase' \in [Senders -> {"timers", "wait", "poll"}]
    BY <1>1 DEF SendTypes
  <2> QED
    BY <1>1, <2>1 DEF SendTypes
<1>3. ReadyHasCause'
  <2>1. ASSUME NEW s \in ready'
        PROVE  s \in Made /\ result[s] = "open" /\ (status[s] # "none" \/ s \in refused \/ ~actor)
    BY <1>1, <2>1 DEF ReadyHasCause, Readable, Owned, Made
  <2> QED
    BY <1>1, <2>1 DEF ReadyHasCause
<1>4. MessageOnce' /\ OpenUntilWritten' /\ ClosingOnce'
  BY <1>1 DEF MessageOnce, OpenUntilWritten, ClosingOnce
<1>5. AnswersOK' /\ FreedOK'
  BY <1>1 DEF AnswersOK, FreedOK, Read
<1> QED
  BY <1>2, <1>3, <1>4, <1>5

LEMMA ReadResultStep ==
    ASSUME SendInv, NEW s \in Sends, ReadResult(s)
    PROVE  SendInv'
<1> USE DEF SendInv
<1>1. /\ s \in ready /\ ready' = ready \ {s}
      /\ answer' = [answer EXCEPT ![s] =
                        IF status[s] = "none" THEN "rejected" ELSE "fulfilled"]
      /\ value' = [value EXCEPT ![s] = status[s]]
      /\ result' = [result EXCEPT ![s] = "closing"]
      /\ closing' = [closing EXCEPT ![owner[s]] = <<<<"result", s>>>> \o @]
      /\ tight' = IF passed[s] = "closed" THEN tight ELSE tight \cup {s}
      /\ owner' = owner /\ phase' = phase /\ outbox' = outbox /\ written' = written
      /\ passed' = passed /\ freed' = freed /\ wire' = wire
      /\ actor' = actor /\ sent' = sent /\ outcome' = outcome /\ status' = status
      /\ refused' = refused /\ faulty' = faulty /\ Made' = Made
  BY DEF ReadResult, actorVars, Made
<1>2. s \in Made /\ result[s] = "open" /\ (status[s] # "none" \/ s \in refused \/ ~actor)
  BY <1>1 DEF ReadyHasCause
<1>3. PICK w \in Senders : w = owner[s]
  BY <1>2 DEF SendTypes, Made
<1>4. /\ result' \in [Sends -> HandleState] /\ result'[s] = "closing"
      /\ answer' \in [Sends -> {"none", "pending", "fulfilled", "rejected"}]
      /\ value' \in [Sends -> Outcomes] /\ value'[s] = status[s]
      /\ answer'[s] = (IF status[s] = "none" THEN "rejected" ELSE "fulfilled")
      /\ \A x \in Sends : x # s =>
            result'[x] = result[x] /\ answer'[x] = answer[x] /\ value'[x] = value[x]
  BY <1>1 DEF SendTypes, HandleState
<1>5. PICK h \in Handle : h = <<"result", s>>
  BY DEF Handle
<1>6. PICK r : r = <<h>> \o closing[w]
  OBVIOUS
<1>7. r \in Seq(Handle) /\ IsInjective(r) /\ Range(r) = Range(closing[w]) \cup {h}
  <2>1. <<h>> \in Seq(Handle) /\ Range(<<h>>) = {h} /\ IsInjective(<<h>>)
    BY DEF Range, IsInjective
  <2>2. /\ closing[w] \in Seq(Handle) /\ IsInjective(closing[w])
        /\ <<"result", s>> \in Range(closing[w]) <=>
              s \in Made /\ owner[s] = w /\ result[s] = "closing"
    BY DEF SendTypes, ClosingOnce
  <2>3. h \notin Range(closing[w])
    BY <1>2, <1>5, <2>2
  <2>4. Range(<<h>>) \cap Range(closing[w]) = {}
    BY <2>1, <2>3
  <2>5. PICK a \in Seq(Handle), b \in Seq(Handle) : a = <<h>> /\ b = closing[w]
    BY <2>1, <2>2
  <2>6. /\ a \o b \in Seq(Handle) /\ IsInjective(a \o b)
        /\ Range(a \o b) = Range(a) \cup Range(b)
    <3>1. IsInjective(a) /\ IsInjective(b) /\ Range(a) \cap Range(b) = {}
      BY <2>1, <2>2, <2>4, <2>5
    <3> QED
      BY <3>1, Joined
  <2>7. r = a \o b /\ Range(a) = {h} /\ Range(b) = Range(closing[w])
    BY <1>6, <2>1, <2>5
  <2> QED
    BY <2>6, <2>7
<1>8. /\ closing' \in [Senders -> Seq(Handle)] /\ closing'[w] = r
      /\ \A v \in Senders : v # w => closing'[v] = closing[v]
  BY <1>1, <1>3, <1>5, <1>6, <1>7 DEF SendTypes
<1>9. SendTypes'
  BY <1>1, <1>4, <1>8 DEF SendTypes
<1>10. MessageOnce' /\ OpenUntilWritten'
  BY <1>1 DEF MessageOnce, OpenUntilWritten
<1>11. ClosingOnce'
  <2> SUFFICES ASSUME NEW v \in Senders
               PROVE  /\ IsInjective(closing'[v])
                      /\ \A x \in Sends :
                            /\ <<"passed", x>> \in Range(closing'[v]) <=>
                                  x \in Made /\ owner[x] = v /\ passed[x] = "closing"
                            /\ <<"result", x>> \in Range(closing'[v]) <=>
                                  x \in Made /\ owner[x] = v /\ result'[x] = "closing"
    BY <1>1 DEF ClosingOnce
  <2>1. CASE v = w
    <3>1. \A x \in Sends : <<"passed", x>> # h /\ (<<"result", x>> = h <=> x = s)
      BY <1>5
    <3> QED
      BY <1>2, <1>3, <1>4, <1>7, <1>8, <2>1, <3>1 DEF ClosingOnce
  <2>2. CASE v # w
    <3>1. closing'[v] = closing[v]
      BY <1>8, <2>2
    <3>2. \A x \in Sends : owner[x] = v => result'[x] = result[x]
      BY <1>3, <1>4, <2>2
    <3> QED
      BY <3>1, <3>2 DEF ClosingOnce
  <2> QED
    BY <2>1, <2>2
<1>12. ReadyHasCause'
  <2>1. \A x \in ready' : x \in Made /\ x \in Sends /\ x # s /\ x \in ready
    BY <1>1 DEF ReadyHasCause, SendTypes
  <2> QED
    BY <1>1, <1>4, <2>1 DEF ReadyHasCause
<1>13. AnswersOK'
  <2>1. ASSUME NEW x \in Made
        PROVE  /\ answer'[x] = "fulfilled" => value'[x] = outcome[x] /\ value'[x] # "none"
               /\ answer'[x] = "rejected" => x \in refused \/ ~actor
    <3>1. CASE x = s
      BY <1>2, <1>4, <3>1 DEF AnswersOK
    <3>2. CASE x # s
      BY <1>4, <3>2 DEF AnswersOK, SendTypes
    <3> QED
      BY <3>1, <3>2
  <2> QED
    BY <1>1, <2>1 DEF AnswersOK
<1>14. FreedOK'
  <2>1. \A x \in freed : x \in Made /\ result'[x] = "closed"
    BY <1>2, <1>4 DEF FreedOK, SendTypes
  <2>2. ASSUME NEW x \in Made, result'[x] \in {"closing", "closed"}
        PROVE  passed[x] = "closed" \/ x \in tight'
    <3>1. CASE x = s
      BY <1>1, <3>1
    <3>2. CASE x # s
      BY <1>1, <1>4, <2>2, <3>2 DEF FreedOK, Read, SendTypes
    <3> QED
      BY <3>1, <3>2
  <2>3. faulty \subseteq tight'
    BY <1>1 DEF FreedOK
  <2> QED
    BY <1>1, <2>1, <2>2, <2>3 DEF FreedOK, Read
<1> QED
  BY <1>9, <1>10, <1>11, <1>12, <1>13, <1>14

\* A structure that is used when it is freed: the handle is the passed end,
\* and the answer was read while it was not closed.
LEMMA UsedWhenFreed ==
    ASSUME SendInv, NEW w \in Senders, NEW i \in 1 .. Len(closing[w]),
           NEW x, x = closing[w][i][2],
           x \in freed \/ \E j \in 1 .. i - 1 : closing[w][j] = <<"result", x>>
    PROVE  x \in tight
<1> USE DEF SendInv
<1>1. PICK q \in Seq(Handle) : q = closing[w]
  BY DEF SendTypes
<1>2. q[i] \in Handle /\ q[i] \in Range(q) /\ DOMAIN q = 1 .. Len(q) /\ i \in 1 .. Len(q)
  BY <1>1, ElementOfSeq, LenProperties DEF Range
<1>3. x \in Sends /\ (q[i] = <<"passed", x>> \/ q[i] = <<"result", x>>)
  BY <1>1, <1>2 DEF Handle
<1>4. /\ IsInjective(q)
      /\ <<"passed", x>> \in Range(q) <=> x \in Made /\ owner[x] = w /\ passed[x] = "closing"
      /\ <<"result", x>> \in Range(q) <=> x \in Made /\ owner[x] = w /\ result[x] = "closing"
  BY <1>1, <1>3 DEF ClosingOnce
<1>5. CASE q[i] = <<"passed", x>>
  <2>1. x \in Made /\ owner[x] = w /\ passed[x] = "closing"
    BY <1>2, <1>5, <1>4
  <2>2. CASE x \in freed
    BY <2>1, <2>2 DEF FreedOK, Read
  <2>3. CASE \E j \in 1 .. i - 1 : closing[w][j] = <<"result", x>>
    <3>1. PICK j \in 1 .. i - 1 : q[j] = <<"result", x>>
      BY <1>1, <2>3
    <3>2. j \in 1 .. Len(q)
      BY <1>2
    <3>3. <<"result", x>> \in Range(q)
      BY <1>2, <3>1, <3>2 DEF Range
    <3>4. result[x] = "closing"
      BY <1>4, <3>3
    <3> QED
      BY <2>1, <3>4 DEF FreedOK, Read
  <2> QED
    BY <2>2, <2>3
<1>6. CASE q[i] = <<"result", x>>
  <2>1. result[x] = "closing"
    BY <1>2, <1>6, <1>4
  <2>2. x \notin freed
    BY <2>1 DEF FreedOK
  <2>3. PICK j \in 1 .. i - 1 : q[j] = <<"result", x>>
    BY <1>1, <2>2
  <2>4. j \in 1 .. Len(q) /\ j # i
    BY <1>2
  <2> QED
    BY <1>2, <1>6, <1>4, <2>3, <2>4 DEF IsInjective
<1> QED
  BY <1>3, <1>5, <1>6

LEMMA RunClosingStep ==
    ASSUME SendInv, NEW w \in Senders, RunClosing(w)
    PROVE  SendInv'
<1> USE DEF SendInv
<1>1. PICK q \in Seq(Handle) : q = closing[w]
  BY DEF SendTypes
<1>2. /\ ready \cap Owned(w) = {}
      /\ phase' = [phase EXCEPT ![w] = "timers"] /\ closing' = [closing EXCEPT ![w] = <<>>]
      /\ passed' = [s \in Sends |->
                       IF <<"passed", s>> \in Range(q) THEN "closed" ELSE passed[s]]
      /\ result' = [s \in Sends |->
                       IF <<"result", s>> \in Range(q) THEN "closed" ELSE result[s]]
      /\ freed' = freed \cup {s \in Sends : <<"result", s>> \in Range(q)}
      /\ owner' = owner /\ ready' = ready /\ outbox' = outbox /\ written' = written
      /\ answer' = answer /\ value' = value /\ wire' = wire
      /\ actor' = actor /\ sent' = sent /\ outcome' = outcome /\ status' = status
      /\ refused' = refused /\ tight' = tight /\ Made' = Made
  BY <1>1 DEF RunClosing, actorVars, Made
<1>3. faulty' \subseteq tight
  <2>1. faulty' \in {{}, {q[i][2] : i \in {k \in 1 .. Len(q) :
                            \/ q[k][2] \in freed
                            \/ \E j \in 1 .. k - 1 : q[j] = <<"result", q[k][2]>>}}}
    BY <1>1 DEF RunClosing
  <2>2. ASSUME NEW x \in faulty'
        PROVE  x \in tight
    <3>1. PICK i \in 1 .. Len(q) :
              /\ x = q[i][2]
              /\ x \in freed \/ \E j \in 1 .. i - 1 : q[j] = <<"result", x>>
      BY <2>1, <2>2
    <3> QED
      BY <1>1, <3>1, UsedWhenFreed
  <2> QED
    BY <2>2
<1>4. /\ Made \subseteq Sends
      /\ \A s \in Sends :
            /\ <<"passed", s>> \in Range(q) <=>
                  s \in Made /\ owner[s] = w /\ passed[s] = "closing"
            /\ <<"result", s>> \in Range(q) <=>
                  s \in Made /\ owner[s] = w /\ result[s] = "closing"
  BY <1>1 DEF SendTypes, ClosingOnce
<1>5. ASSUME NEW s \in Sends
      PROVE  /\ passed'[s] = IF s \in Made /\ owner[s] = w /\ passed[s] = "closing"
                             THEN "closed" ELSE passed[s]
             /\ result'[s] = IF s \in Made /\ owner[s] = w /\ result[s] = "closing"
                             THEN "closed" ELSE result[s]
  BY <1>2, <1>4
<1>6. /\ closing' \in [Senders -> Seq(Handle)] /\ Range(closing'[w]) = {}
      /\ IsInjective(closing'[w])
      /\ \A v \in Senders : v # w => closing'[v] = closing[v]
  <2>1. closing \in [Senders -> Seq(Handle)] /\ <<>> \in Seq(Handle)
    BY DEF SendTypes
  <2>2. closing' \in [Senders -> Seq(Handle)] /\ closing'[w] = <<>>
    BY <1>2, <2>1
  <2> QED
    BY <1>2, <2>1, <2>2 DEF Range, IsInjective
<1>7. SendTypes'
  <2>1. phase' \in [Senders -> {"timers", "wait", "poll"}]
    BY <1>2 DEF SendTypes
  <2>2. passed' \in [Sends -> HandleState] /\ result' \in [Sends -> HandleState]
    BY <1>2 DEF SendTypes, HandleState
  <2> QED
    BY <1>2, <1>6, <2>1, <2>2 DEF SendTypes
<1>8. MessageOnce' /\ AnswersOK'
  BY <1>2 DEF MessageOnce, AnswersOK
<1>9. OpenUntilWritten'
  <2>1. \A s \in Made : passed[s] = "open" => passed'[s] = "open"
    BY <1>4, <1>5
  <2>2. ASSUME NEW v \in Senders
        PROVE  /\ Range(outbox[v]) \cup Range(written[v]) \subseteq
                     {x \in Made : owner[x] = v /\ passed'[x] = "open"}
               /\ Range(outbox[v]) \cap Range(written[v]) = {}
               /\ IsInjective(outbox[v]) /\ IsInjective(written[v])
    BY <2>1 DEF OpenUntilWritten
  <2> QED
    BY <1>2, <2>2 DEF OpenUntilWritten
<1>10. ReadyHasCause'
  <2>1. \A s \in Made : result[s] = "open" => result'[s] = "open"
    BY <1>4, <1>5
  <2> QED
    BY <1>2, <2>1 DEF ReadyHasCause
<1>11. ClosingOnce'
  <2> SUFFICES ASSUME NEW v \in Senders
               PROVE  /\ IsInjective(closing'[v])
                      /\ \A x \in Sends :
                            /\ <<"passed", x>> \in Range(closing'[v]) <=>
                                  x \in Made /\ owner[x] = v /\ passed'[x] = "closing"
                            /\ <<"result", x>> \in Range(closing'[v]) <=>
                                  x \in Made /\ owner[x] = v /\ result'[x] = "closing"
    BY <1>2 DEF ClosingOnce
  <2>1. CASE v = w
    BY <1>5, <1>6, <2>1
  <2>2. CASE v # w
    BY <1>5, <1>6, <2>2 DEF ClosingOnce
  <2> QED
    BY <2>1, <2>2
<1>12. FreedOK'
  <2>1. \A s \in freed' : s \in Made /\ result'[s] = "closed"
    BY <1>2, <1>4, <1>5 DEF FreedOK
  <2>2. ASSUME NEW s \in Made, result'[s] \in {"closing", "closed"}
        PROVE  passed'[s] = "closed" \/ s \in tight
    BY <1>4, <1>5, <2>2 DEF FreedOK, Read
  <2> QED
    BY <1>2, <1>3, <2>1, <2>2 DEF FreedOK, Read
<1> QED
  BY <1>7, <1>8, <1>9, <1>10, <1>11, <1>12

\* Steps of the actor and the kernel leave the worker as it is.
WorkerKept ==
    /\ owner' = owner /\ phase' = phase /\ ready' = ready /\ outbox' = outbox
    /\ written' = written /\ closing' = closing /\ passed' = passed /\ result' = result
    /\ freed' = freed /\ answer' = answer /\ value' = value
    /\ refused' = refused /\ tight' = tight /\ faulty' = faulty

LEMMA ActorStep ==
    ASSUME SendInv, WorkerKept,
           wire' \in Seq(Sends), sent' \in Seq(Sends), actor' \in BOOLEAN, ~actor => ~actor',
           outcome' \in [Sends -> Outcomes], status' \in [Sends -> Outcomes],
           MessageOnce',
           \A s \in Sends : outcome[s] # "none" => outcome'[s] = outcome[s],
           \A s \in Sends : status[s] # "none" => status'[s] # "none",
           \A s \in Sends : status'[s] # "none" => status'[s] = outcome'[s]
    PROVE  SendInv'
<1> USE DEF SendInv
<1>1. Made' = Made /\ Made \subseteq Sends
  BY DEF WorkerKept, Made, SendTypes
<1>2. SendTypes'
  BY <1>1 DEF WorkerKept, SendTypes
<1>3. OpenUntilWritten' /\ ClosingOnce'
  BY <1>1 DEF WorkerKept, OpenUntilWritten, ClosingOnce
<1>4. ReadyHasCause'
  BY <1>1 DEF WorkerKept, ReadyHasCause
<1>5. AnswersOK'
  BY <1>1 DEF WorkerKept, AnswersOK
<1>6. FreedOK'
  BY <1>1 DEF WorkerKept, FreedOK, Read
<1> QED
  BY <1>2, <1>3, <1>4, <1>5, <1>6

LEMMA TakeStep ==
    ASSUME SendInv, Take
    PROVE  SendInv'
<1>1. /\ WorkerKept /\ wire # <<>> /\ wire' = Tail(wire) /\ actor' = actor
      /\ outcome' = outcome /\ status' = status /\ Made' = Made
      /\ sent' = Append(sent, Head(wire)) \/ sent' = sent
  BY DEF Take, workerVars, WorkerKept, Made
<1>2. SendTypes /\ MessageOnce /\ wire \in Seq(Sends) /\ sent \in Seq(Sends)
  BY DEF SendInv, SendTypes
<1>3. PICK h : h = Head(wire)
  OBVIOUS
<1>4. /\ h \in Sends /\ wire' \in Seq(Sends) /\ Range(wire) = Range(wire') \cup {h}
      /\ IsInjective(wire') /\ h \notin Range(wire')
  BY <1>1, <1>2, <1>3, OneLess DEF MessageOnce
<1>5. /\ sent' \in Seq(Sends) /\ IsInjective(sent')
      /\ Range(sent') \subseteq Range(sent) \cup {h}
  <2>1. /\ Append(sent, h) \in Seq(Sends) /\ IsInjective(Append(sent, h))
        /\ Range(Append(sent, h)) = Range(sent) \cup {h}
    <3>1. h \notin Range(sent) /\ IsInjective(sent)
      BY <1>2, <1>4 DEF MessageOnce
    <3> QED
      BY <1>2, <1>4, <3>1, OneMore
  <2> QED
    BY <1>1, <1>2, <1>3, <2>1 DEF MessageOnce
<1>6. MessageOnce'
  <2>1. Range(wire') \cap Range(sent') = {}
    BY <1>2, <1>4, <1>5 DEF MessageOnce
  <2>2. \A w \in Senders : Range(outbox[w]) \cap (Range(wire') \cup Range(sent')) = {}
    BY <1>2, <1>4, <1>5 DEF MessageOnce
  <2>3. Range(wire') \subseteq Made /\ Range(sent') \subseteq Made
    BY <1>2, <1>4, <1>5 DEF MessageOnce
  <2> QED
    BY <1>1, <1>4, <1>5, <2>1, <2>2, <2>3 DEF MessageOnce, WorkerKept
<1>7. \A s \in Sends : status[s] # "none" => status[s] = outcome[s]
  BY DEF SendInv, AnswersOK
<1> QED
  BY <1>1, <1>2, <1>4, <1>5, <1>6, <1>7, ActorStep DEF SendTypes

LEMMA KernelSendStep ==
    ASSUME SendInv, NEW s \in Sends, KernelSend(s)
    PROVE  SendInv'
<1>1. /\ WorkerKept /\ wire' = wire /\ sent' = sent /\ actor' = actor /\ status' = status
      /\ outcome[s] = "none" /\ Made' = Made
  BY DEF KernelSend, workerVars, WorkerKept, Made
<1>2. PICK o \in {"ok", "failed"} : outcome' = [outcome EXCEPT ![s] = o]
  BY DEF KernelSend
<1>3. SendTypes /\ MessageOnce
  BY DEF SendInv
<1>4. /\ outcome' \in [Sends -> Outcomes]
      /\ \A x \in Sends : outcome[x] # "none" => outcome'[x] = outcome[x]
  BY <1>1, <1>2, <1>3 DEF SendTypes, Outcomes
<1>5. MessageOnce'
  BY <1>1, <1>3 DEF WorkerKept, MessageOnce
<1>6. \A x \in Sends : status[x] # "none" => status[x] = outcome'[x]
  BY <1>4 DEF SendInv, AnswersOK
<1> QED
  BY <1>1, <1>3, <1>4, <1>5, <1>6, ActorStep DEF SendTypes

LEMMA SendCbStep ==
    ASSUME SendInv, SendCb
    PROVE  SendInv'
<1>1. PICK h : h = Head(sent)
  OBVIOUS
<1>2. /\ WorkerKept /\ wire' = wire /\ sent # <<>> /\ sent' = Tail(sent) /\ actor' = actor
      /\ outcome' = outcome /\ status' = [status EXCEPT ![h] = outcome[h]]
      /\ outcome[h] # "none" /\ Made' = Made
  BY <1>1 DEF SendCb, workerVars, WorkerKept, Made
<1>3. SendTypes /\ MessageOnce /\ sent \in Seq(Sends)
  BY DEF SendInv, SendTypes
<1>4. /\ h \in Sends /\ sent' \in Seq(Sends) /\ Range(sent) = Range(sent') \cup {h}
      /\ IsInjective(sent')
  BY <1>1, <1>2, <1>3, OneLess DEF MessageOnce
<1>5. /\ status' \in [Sends -> Outcomes] /\ status'[h] = outcome[h]
      /\ \A x \in Sends : x # h => status'[x] = status[x]
  BY <1>2, <1>3, <1>4 DEF SendTypes
<1>6. MessageOnce'
  <2>1. Range(sent') \subseteq Range(sent)
    BY <1>4
  <2>2. \A w \in Senders : Range(outbox[w]) \cap (Range(wire) \cup Range(sent')) = {}
    BY <1>3, <2>1 DEF MessageOnce
  <2> QED
    BY <1>2, <1>3, <1>4, <2>1, <2>2 DEF MessageOnce, WorkerKept
<1>7. \A x \in Sends : status'[x] # "none" => status'[x] = outcome[x]
  BY <1>5 DEF SendInv, AnswersOK
<1>8. \A x \in Sends : status[x] # "none" => status'[x] # "none"
  BY <1>2, <1>5
<1> QED
  BY <1>2, <1>3, <1>4, <1>5, <1>6, <1>7, <1>8, ActorStep DEF SendTypes

LEMMA ActorDiesStep ==
    ASSUME SendInv, ActorDies
    PROVE  SendInv'
<1>1. /\ WorkerKept /\ wire' = <<>> /\ sent' = <<>> /\ actor' = FALSE
      /\ outcome' = outcome /\ status' = status /\ Made' = Made
  BY DEF ActorDies, workerVars, WorkerKept, Made
<1>2. SendTypes /\ MessageOnce
  BY DEF SendInv
<1>3. /\ wire' \in Seq(Sends) /\ sent' \in Seq(Sends) /\ Range(wire') = {} /\ Range(sent') = {}
      /\ IsInjective(wire') /\ IsInjective(sent')
  BY <1>1 DEF Range, IsInjective
<1>4. MessageOnce'
  BY <1>1, <1>3 DEF MessageOnce, WorkerKept
<1>5. \A s \in Sends : status[s] # "none" => status[s] = outcome[s]
  BY DEF SendInv, AnswersOK
<1> QED
  BY <1>1, <1>2, <1>3, <1>4, <1>5, ActorStep DEF SendTypes

LEMMA SendStutter ==
    ASSUME SendInv, UNCHANGED sendVars
    PROVE  SendInv'
<1>1. /\ WorkerKept /\ wire' = wire /\ sent' = sent /\ actor' = actor /\ status' = status
      /\ outcome' = outcome /\ Made' = Made
  BY DEF sendVars, workerVars, actorVars, WorkerKept, Made
<1>2. SendTypes /\ MessageOnce
  BY DEF SendInv
<1>3. MessageOnce'
  BY <1>1, <1>2 DEF WorkerKept, MessageOnce
<1>4. \A s \in Sends : status[s] # "none" => status[s] = outcome[s]
  BY DEF SendInv, AnswersOK
<1> QED
  BY <1>1, <1>2, <1>3, <1>4, ActorStep DEF SendTypes

LEMMA SendNextInv == SendInv /\ [SendNext]_sendVars => SendInv'
<1> SUFFICES ASSUME SendInv, [SendNext]_sendVars
             PROVE  SendInv'
  OBVIOUS
<1>1. ASSUME NEW w \in Senders,
             Send(w) \/ RunPending(w) \/ Poll(w) \/ Flush(w) \/ RunClosing(w)
      PROVE  SendInv'
  BY <1>1, SendStep, RunPendingStep, PollStep, FlushStep, RunClosingStep
<1>2. ASSUME NEW s \in Sends, ReadResult(s) \/ KernelSend(s)
      PROVE  SendInv'
  BY <1>2, ReadResultStep, KernelSendStep
<1>3. CASE Take \/ SendCb \/ ActorDies
  BY <1>3, TakeStep, SendCbStep, ActorDiesStep
<1>4. CASE UNCHANGED sendVars
  BY <1>4, SendStutter
<1> QED
  BY <1>1, <1>2, <1>3, <1>4 DEF SendNext

\* Every state of the workers that send and of the actor satisfies the
\* inductive invariant (server/udp.c, reactor.c).
THEOREM SendInvariance == SendSpec => []SendInv
BY SendInitInv, SendNextInv, PTL DEF SendSpec

\* What ipc_udp_send_result_receive fulfils a promise with is the status
\* uv_udp_send_cb had for that datagram, and it rejects a promise only when the
\* message was refused by the kernel or the actor died: for any workers, any
\* number of sends, and any order of writes, polls and closing handles.
THEOREM AnswersTellTheTruth == SendSpec => []AnswersAreTrue
<1>1. SendInv => AnswersAreTrue
  <2> SUFFICES ASSUME SendInv
               PROVE  AnswersAreTrue
    OBVIOUS
  <2> USE DEF SendInv
  <2>1. owner \in Seq(Senders) /\ Len(owner) <= MaxSends
    <3>1. PICK n \in Nat : n = Len(owner)
      BY DEF SendTypes
    <3>2. n # 0 => n \in Made
      BY <3>1, LenProperties DEF SendTypes, Made
    <3> QED
      BY <3>1, <3>2, SendsAssumption DEF SendTypes, Sends
  <2>2. /\ ready \subseteq DOMAIN owner /\ freed \subseteq DOMAIN owner
        /\ DOMAIN owner = Made /\ Made \subseteq Sends
    BY DEF ReadyHasCause, FreedOK, Made, SendTypes
  <2>3. \A w \in Senders, s \in DOMAIN owner :
          /\ <<"passed", s>> \in Range(closing[w]) <=> owner[s] = w /\ passed[s] = "closing"
          /\ <<"result", s>> \in Range(closing[w]) <=> owner[s] = w /\ result[s] = "closing"
    <3>1. ASSUME NEW w \in Senders, NEW s \in Made
          PROVE  /\ <<"passed", s>> \in Range(closing[w]) <=> owner[s] = w /\ passed[s] = "closing"
                 /\ <<"result", s>> \in Range(closing[w]) <=> owner[s] = w /\ result[s] = "closing"
      BY <2>2 DEF ClosingOnce
    <3> QED
      BY <2>2, <3>1
  <2>4. IsInjective(wire \o sent)
    BY Joined DEF MessageOnce, SendTypes
  <2>5. SendTypeOK
    BY <2>1, <2>2, <2>3, <2>4 DEF SendTypes, SendTypeOK, HandleState
  <2> QED
    BY <2>2, <2>5 DEF AnswersAreTrue, AnswersOK
<1> QED
  BY <1>1, SendInvariance, PTL

\* ipc_udp_send_result_free_cb frees a structure the loop still uses only when
\* the answer was read before the loop had finished the passed end in it.
THEOREM FreedTooEarlyOnlyThen == SendSpec => []FreedTooEarlyInOneTurn
<1>1. SendInv => FreedTooEarlyInOneTurn
  BY DEF SendInv, FreedOK, FreedTooEarlyInOneTurn
<1> QED
  BY <1>1, SendInvariance, PTL
=============================================================================
