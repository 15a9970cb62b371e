-------------------------- MODULE StreamServerProofs --------------------------
(***************************************************************************)
(* Proofs about StreamServer: a connection is in one place, it is lost     *)
(* before PHP code gets it only in the ways the code has, and two servers  *)
(* listen on one pipe only after a third one removed its path.             *)
(***************************************************************************)
EXTENDS StreamServer, SequenceTheorems, FiniteSetTheorems, TLAPS

-----------------------------------------------------------------------------
(* The inductive invariant. *)

ProcsOK ==
    /\ mode \in {"pipe", "relay", "reuseport"}
    /\ actor \in [Instances -> {"off", "script", "loop", "over"}]
    /\ manager \in [Instances -> BOOLEAN] /\ deaths \in 0 .. MaxDeaths
    /\ pool \in [Instances -> SUBSET Workers]
    /\ listening \in [Instances -> SUBSET Processes]
    /\ \A i \in Instances : listening[i] \subseteq pool[i] \cup {Actor}
    /\ path \in Instances \cup {Nobody} /\ bound \subseteq Instances

ConnsOK ==
    /\ conn \in [Conns -> {"none", "backlog", "sending", "wire", "served", "closed"}]
    /\ of \in [Conns -> Instances \cup {Nobody}] /\ by \in [Conns -> Processes]
    /\ sending \in [Instances -> Seq(Conns)] /\ wire \in [Instances -> Seq(Conns)]
    /\ copy \in [Conns -> BOOLEAN] /\ served \subseteq Conns /\ refused \subseteq Conns

\* The life of an instance: its manager from run() on, workers while the manager
\* lives or after it, the actor's socket in the actor's loop only.
InstanceLife ==
    \A i \in Instances :
        /\ manager[i] \/ pool[i] # {} => actor[i] \in {"loop", "over"}
        /\ actor[i] = "loop" => manager[i]
        /\ Listens(i) => actor[i] = "loop" /\ mode # "reuseport" /\ i \in bound
        /\ listening[i] \ {Actor} # {} => mode = "reuseport"
        /\ i \in bound => actor[i] = "over" \/ Listens(i)

\* Which live process has a connection, by its state.
WhereItIs ==
    \A c \in Conns :
        /\ conn[c] # "none" => of[c] \in Instances
        /\ conn[c] = "sending" => by[c] = Actor /\ actor[of[c]] = "loop"
        /\ conn[c] = "backlog" => by[c] \in listening[of[c]]
        /\ conn[c] = "wire" => manager[of[c]] \/ pool[of[c]] # {}
        /\ conn[c] = "served" => by[c] \in pool[of[c]] /\ c \in served

\* Which queue has it, once.
InQueues ==
    \A i \in Instances :
        /\ IsInjective(sending[i]) /\ IsInjective(wire[i])
        /\ \A c \in Conns :
              /\ c \in Range(sending[i]) <=> conn[c] = "sending" /\ of[c] = i
              /\ c \in Range(wire[i]) <=> conn[c] = "wire" /\ of[c] = i

\* While every actor that is over had bound, only the owner of the path listens.
OnlyOwnerListens ==
    /\ mode = "pipe" /\ (\A j \in Instances \ bound : actor[j] # "over")
          => \A i \in Instances : Listens(i) => path = i
    /\ mode # "pipe" => \A i, j \in Instances : Listens(i) /\ Listens(j) => i = j

IInv ==
    /\ ProcsOK /\ ConnsOK /\ InstanceLife /\ WhereItIs /\ InQueues
    /\ LostBeforeServed /\ OnlyOwnerListens

-----------------------------------------------------------------------------
(* Queues without repetitions. *)

\* Append of a new element (a write queue, a socket).
LEMMA AppendQueue ==
    ASSUME NEW S, NEW s \in Seq(S), NEW e \in S
    PROVE  /\ Append(s, e) \in Seq(S)
           /\ Range(Append(s, e)) = Range(s) \cup {e}
           /\ IsInjective(s) /\ e \notin Range(s) => IsInjective(Append(s, e))
<1> DEFINE t == Append(s, e)
<1>1. /\ t \in Seq(S) /\ Len(t) = Len(s) + 1 /\ Len(s) \in Nat
      /\ \A i \in 1 .. Len(s) : t[i] = s[i]
      /\ t[Len(s) + 1] = e
      /\ DOMAIN s = 1 .. Len(s) /\ DOMAIN t = 1 .. Len(t)
  OBVIOUS
<1> HIDE DEF t
<1>2. Range(t) = Range(s) \cup {e}
  BY <1>1 DEF Range
<1>3. IsInjective(s) /\ e \notin Range(s) => IsInjective(t)
  BY <1>1 DEF Range, IsInjective
<1> QED
  BY <1>1, <1>2, <1>3 DEF t

\* Head and Tail of a queue (the oldest message).
LEMMA TailQueue ==
    ASSUME NEW S, NEW s \in Seq(S), s # <<>>
    PROVE  /\ Head(s) \in S /\ Tail(s) \in Seq(S)
           /\ Range(s) = Range(Tail(s)) \cup {Head(s)}
           /\ IsInjective(s) => IsInjective(Tail(s)) /\ Head(s) \notin Range(Tail(s))
<1> DEFINE t == Tail(s)
<1>1. /\ Len(s) \in Nat \ {0} /\ Head(s) = s[1] /\ Head(s) \in S
      /\ t \in Seq(S) /\ Len(t) = Len(s) - 1
      /\ \A i \in 1 .. Len(t) : t[i] = s[i + 1]
      /\ DOMAIN s = 1 .. Len(s) /\ DOMAIN t = 1 .. Len(t)
  BY HeadTailProperties, EmptySeq, LenProperties, SMTT(30)
<1> HIDE DEF t
<1>2. Range(s) = Range(t) \cup {Head(s)}
  <2>1. Range(t) \cup {Head(s)} \subseteq Range(s)
    BY <1>1 DEF Range
  <2>2. ASSUME NEW i \in 1 .. Len(s), i # 1
        PROVE  s[i] \in Range(t)
    <3>1. i - 1 \in 1 .. Len(t) /\ t[i - 1] = s[i]
      BY <1>1, <2>2
    <3> QED
      BY <1>1, <3>1 DEF Range
  <2> QED
    BY <1>1, <2>1, <2>2 DEF Range
<1>3. ASSUME IsInjective(s)
      PROVE  IsInjective(t) /\ Head(s) \notin Range(t)
  <2>1. \A i, j \in 1 .. Len(s) : s[i] = s[j] => i = j
    BY <1>1, <1>3 DEF IsInjective
  <2>2. \A i \in 1 .. Len(t) : i + 1 \in 1 .. Len(s) /\ i + 1 # 1
    BY <1>1
  <2>3. \A i, j \in 1 .. Len(t) : i + 1 = j + 1 => i = j
    BY <1>1
  <2>4. IsInjective(t)
    BY <1>1, <2>1, <2>2, <2>3 DEF IsInjective
  <2>5. 1 \in 1 .. Len(s)
    BY <1>1
  <2> QED
    BY <1>1, <2>1, <2>2, <2>4, <2>5 DEF Range
<1> QED
  BY <1>1, <1>2, <1>3 DEF t

\* Two queues that share nothing, one behind the other.
LEMMA JoinedQueues ==
    ASSUME NEW S, NEW s \in Seq(S), NEW t \in Seq(S),
           IsInjective(s), IsInjective(t), Range(s) \cap Range(t) = {}
    PROVE  IsInjective(s \o t)
<1> DEFINE u == s \o t
<1>1. /\ u \in Seq(S) /\ Len(u) = Len(s) + Len(t) /\ Len(s) \in Nat /\ Len(t) \in Nat
      /\ DOMAIN u = 1 .. Len(u) /\ DOMAIN s = 1 .. Len(s) /\ DOMAIN t = 1 .. Len(t)
  OBVIOUS
<1>2. \A i \in 1 .. Len(s) : u[i] = s[i] /\ u[i] \in Range(s)
  BY <1>1 DEF Range
<1>3. \A i \in 1 .. Len(u) \ 1 .. Len(s) :
         i - Len(s) \in 1 .. Len(t) /\ u[i] = t[i - Len(s)] /\ u[i] \in Range(t)
  BY <1>1 DEF Range
<1> HIDE DEF u
<1> SUFFICES ASSUME NEW i \in 1 .. Len(u), NEW j \in 1 .. Len(u), u[i] = u[j]
             PROVE  i = j
  BY <1>1 DEF IsInjective, u
<1>4. CASE i \in 1 .. Len(s) /\ j \in 1 .. Len(s)
  <2>1. s[i] = s[j]
    BY <1>2, <1>4
  <2> QED
    BY <1>1, <1>4, <2>1 DEF IsInjective
<1>5. CASE i \notin 1 .. Len(s) /\ j \notin 1 .. Len(s)
  <2>1. /\ i - Len(s) \in 1 .. Len(t) /\ j - Len(s) \in 1 .. Len(t)
        /\ t[i - Len(s)] = t[j - Len(s)]
    BY <1>3, <1>5
  <2>2. i - Len(s) = j - Len(s)
    BY <1>1, <2>1, Zenon DEF IsInjective
  <2> QED
    BY <1>1, <2>2
<1>6. ASSUME (i \in 1 .. Len(s)) # (j \in 1 .. Len(s))
      PROVE  FALSE
  BY <1>2, <1>3, <1>6
<1> QED
  BY <1>4, <1>5, <1>6

LEMMA EmptyQueue == Range(<<>>) = {} /\ IsInjective(<<>>)
  BY DEF Range, IsInjective

-----------------------------------------------------------------------------
(* The first state, and the steps that start processes. *)

LEMMA InitInv == Init => IInv
<1> SUFFICES ASSUME Init
             PROVE  IInv
  OBVIOUS
<1> USE BoundsAssumption DEF Init
<1>1. ProcsOK
  BY DEF ProcsOK, Processes, Workers, Actor, Nobody
<1>2. ConnsOK
  BY DEF ConnsOK, Processes, Actor, Nobody
<1>3. InstanceLife /\ OnlyOwnerListens
  BY DEF InstanceLife, OnlyOwnerListens, Listens
<1>4. WhereItIs /\ InQueues
  BY EmptyQueue DEF WhereItIs, InQueues
<1>5. LostBeforeServed
  BY DEF LostBeforeServed
<1> QED
  BY <1>1, <1>2, <1>3, <1>4, <1>5 DEF IInv

\* A step that leaves the connections alone leaves the queues alone.
LEMMA SameConns ==
    UNCHANGED conns =>
        /\ (ConnsOK => ConnsOK') /\ (InQueues => InQueues')
        /\ UNCHANGED <<conn, of, by, served, refused>>
<1> SUFFICES ASSUME UNCHANGED conns
             PROVE  /\ (ConnsOK => ConnsOK') /\ (InQueues => InQueues')
                    /\ UNCHANGED <<conn, of, by, served, refused>>
  OBVIOUS
<1> USE DEF conns
<1>1. ConnsOK => ConnsOK'
  BY DEF ConnsOK
<1>2. InQueues => InQueues'
  BY DEF InQueues
<1> QED
  BY <1>1, <1>2

\* __construct
LEMMA ConstructInv ==
    ASSUME IInv, NEW i \in Instances, Construct(i)
    PROVE  IInv'
<1> USE BoundsAssumption DEF IInv, Construct
<1>1. ProcsOK'
  BY DEF ProcsOK
<1>2. InstanceLife'
  BY DEF InstanceLife, ProcsOK, Listens
<1>3. ConnsOK' /\ InQueues'
  BY SameConns
<1>4. WhereItIs'
  BY SameConns DEF WhereItIs, ProcsOK
<1>5. LostBeforeServed'
  BY SameConns DEF LostBeforeServed, ProcsOK
<1>6. OnlyOwnerListens'
  BY DEF OnlyOwnerListens, ProcsOK, Listens
<1> QED
  BY <1>1, <1>2, <1>3, <1>4, <1>5, <1>6

\* run(): the actor binds, or does not, before its loop.
LEMMA RunInv ==
    ASSUME IInv, NEW i \in Instances, Run(i)
    PROVE  IInv'
<1> USE BoundsAssumption DEF IInv
<1>1. /\ actor[i] = "script" /\ actor' = [actor EXCEPT ![i] = "loop"]
      /\ manager' = [manager EXCEPT ![i] = TRUE]
      /\ UNCHANGED <<mode, pool, deaths, conns>>
  BY DEF Run
<1>2. pool[i] = {} /\ ~Listens(i) /\ listening[i] = {} /\ i \notin bound
  BY <1>1 DEF InstanceLife, ProcsOK, Listens
<1>3. \/ /\ mode # "reuseport"
         /\ listening' = [listening EXCEPT ![i] = {Actor}]
         /\ bound' = bound \cup {i}
         /\ mode = "pipe" => path = Nobody /\ path' = i
         /\ mode = "relay" => path' = path /\ \A j \in Instances : ~Listens(j)
      \/ UNCHANGED <<path, listening, bound>>
  BY DEF Run, InitActor, BindPipe, BindPort
<1>4. ProcsOK'
  BY <1>1, <1>2, <1>3 DEF ProcsOK, Processes
<1>5. InstanceLife'
  BY <1>1, <1>2, <1>3 DEF InstanceLife, ProcsOK, Listens, Actor
<1>6. OnlyOwnerListens'
  <2>1. \A j \in Instances \ {i} : Listens(j)' <=> Listens(j)
    BY <1>3 DEF Listens, ProcsOK
  <2>2. (\A j \in Instances \ bound' : actor'[j] # "over")
           => \A j \in Instances \ bound : actor[j] # "over"
    BY <1>1, <1>3 DEF ProcsOK
  <2>3. CASE UNCHANGED <<path, listening, bound>>
    BY <1>1, <2>2, <2>3 DEF OnlyOwnerListens, Listens
  <2>4. CASE mode = "pipe" /\ path = Nobody /\ path' = i
    <3>1. (\A j \in Instances \ bound : actor[j] # "over")
             => \A j \in Instances : ~Listens(j)
      BY <2>4 DEF OnlyOwnerListens, Nobody, Instances
    <3> QED
      BY <1>1, <2>1, <2>2, <2>4, <3>1 DEF OnlyOwnerListens
  <2>5. CASE mode = "relay" /\ \A j \in Instances : ~Listens(j)
    BY <1>1, <2>1, <2>5 DEF OnlyOwnerListens
  <2> QED
    BY <1>3, <2>3, <2>4, <2>5 DEF ProcsOK
<1>7. ConnsOK' /\ InQueues'
  BY <1>1, SameConns
<1>8. WhereItIs'
  BY <1>1, <1>2, <1>3, SameConns DEF WhereItIs, ProcsOK
<1>9. LostBeforeServed'
  BY <1>1, SameConns DEF LostBeforeServed, ProcsOK
<1> QED
  BY <1>4, <1>5, <1>6, <1>7, <1>8, <1>9

\* A worker starts, with SO_REUSEPORT with a socket of its own.
LEMMA WorkerStartsInv ==
    ASSUME IInv, NEW i \in Instances, NEW w \in Workers, WorkerStarts(i, w)
    PROVE  IInv'
<1> USE BoundsAssumption DEF IInv
<1>1. /\ manager[i] /\ pool' = [pool EXCEPT ![i] = @ \cup {w}]
      /\ listening' = IF mode = "reuseport"
                      THEN [listening EXCEPT ![i] = @ \cup {w}] ELSE listening
      /\ UNCHANGED <<mode, actor, manager, path, deaths, bound, conns>>
  BY DEF WorkerStarts
<1>2. w # Actor
  BY DEF Workers, Actor
<1>3. \A j \in Instances : Listens(j)' <=> Listens(j)
  BY <1>1, <1>2 DEF ProcsOK, Listens
<1>4. \A j \in Instances : pool[j] \subseteq pool'[j] /\ listening[j] \subseteq listening'[j]
  BY <1>1 DEF ProcsOK
<1>5. ProcsOK'
  BY <1>1 DEF ProcsOK, Processes
<1>6. InstanceLife'
  BY <1>1, <1>3 DEF InstanceLife, ProcsOK
<1>7. OnlyOwnerListens'
  BY <1>1, <1>3 DEF OnlyOwnerListens
<1>8. ConnsOK' /\ InQueues'
  BY <1>1, SameConns
<1>9. WhereItIs'
  BY <1>1, <1>4, SameConns DEF WhereItIs, ProcsOK
<1>10. LostBeforeServed'
  BY <1>1, SameConns DEF LostBeforeServed
<1> QED
  BY <1>5, <1>6, <1>7, <1>8, <1>9, <1>10

-----------------------------------------------------------------------------
(* The steps of a connection. *)

\* They leave the processes alone.
LEMMA SameProcs ==
    ASSUME IInv, UNCHANGED procs
    PROVE  ProcsOK' /\ InstanceLife' /\ OnlyOwnerListens'
<1> USE DEF IInv, procs
<1>1. ProcsOK'
  BY DEF ProcsOK
<1>2. InstanceLife'
  BY DEF InstanceLife, Listens
<1>3. OnlyOwnerListens'
  BY DEF OnlyOwnerListens, Listens
<1> QED
  BY <1>1, <1>2, <1>3

\* A client connects.
LEMMA ConnectInv ==
    ASSUME IInv, NEW c \in Conns, Connect(c)
    PROVE  IInv'
<1> USE BoundsAssumption DEF IInv
<1>1. PICK i \in Instances, p \in Processes :
        /\ conn[c] = "none" /\ p \in listening[i]
        /\ conn' = [conn EXCEPT ![c] = "backlog"]
        /\ of' = [of EXCEPT ![c] = i] /\ by' = [by EXCEPT ![c] = p]
        /\ UNCHANGED <<procs, sending, wire, copy, refused, served>>
  BY DEF Connect
<1>2. ProcsOK' /\ InstanceLife' /\ OnlyOwnerListens'
  BY <1>1, SameProcs
<1>3. ConnsOK'
  BY <1>1 DEF ConnsOK
<1>4. WhereItIs'
  BY <1>1 DEF WhereItIs, ConnsOK, procs
<1>5. InQueues'
  BY <1>1 DEF InQueues, ConnsOK
<1>6. LostBeforeServed'
  BY <1>1 DEF LostBeforeServed, ConnsOK, procs
<1> QED
  BY <1>2, <1>3, <1>4, <1>5, <1>6

\* The actor accepts it and writes it to ipc_pipe.
LEMMA AcceptAndSendInv ==
    ASSUME IInv, NEW c \in Conns, AcceptAndSend(c)
    PROVE  IInv'
<1> USE BoundsAssumption DEF IInv
<1>0. PICK i : i = of[c]
  OBVIOUS
<1>1. /\ conn[c] = "backlog" /\ by[c] = Actor
      /\ conn' = [conn EXCEPT ![c] = "sending"]
      /\ copy' = [copy EXCEPT ![c] = TRUE]
      /\ sending' = [sending EXCEPT ![i] = Append(sending[i], c)]
      /\ UNCHANGED <<procs, of, by, wire, refused, served>>
  BY <1>0 DEF AcceptAndSend
<1>2. i \in Instances /\ actor[i] = "loop" /\ sending[i] \in Seq(Conns)
  BY <1>0, <1>1 DEF WhereItIs, InstanceLife, Listens, ConnsOK
<1>3. /\ Append(sending[i], c) \in Seq(Conns)
      /\ Range(Append(sending[i], c)) = Range(sending[i]) \cup {c}
      /\ IsInjective(Append(sending[i], c))
  <2>1. c \notin Range(sending[i]) /\ IsInjective(sending[i])
    BY <1>1, <1>2 DEF InQueues
  <2> QED
    BY <1>2, <2>1, AppendQueue
<1>4. ProcsOK' /\ InstanceLife' /\ OnlyOwnerListens'
  BY <1>1, SameProcs
<1>5. ConnsOK'
  BY <1>1, <1>3 DEF ConnsOK
<1>6. WhereItIs'
  BY <1>0, <1>1, <1>2 DEF WhereItIs, ConnsOK, procs
<1>7. InQueues'
  BY <1>0, <1>1, <1>2, <1>3 DEF InQueues, ConnsOK
<1>8. LostBeforeServed'
  BY <1>1 DEF LostBeforeServed, ConnsOK, procs
<1> QED
  BY <1>4, <1>5, <1>6, <1>7, <1>8

\* A worker accepts from its own socket; a descriptor is closed; PHP's
\* connection ends.
LEMMA HereInv ==
    ASSUME IInv, NEW c \in Conns, AcceptHere(c) \/ Write2Cb(c) \/ CloseConn(c)
    PROVE  IInv'
<1> USE BoundsAssumption DEF IInv, AcceptHere, Accepted, Write2Cb, CloseConn
<1>1. UNCHANGED <<procs, of, by, sending, wire, refused>>
  OBVIOUS
<1>2. ProcsOK' /\ InstanceLife' /\ OnlyOwnerListens'
  BY <1>1, SameProcs
<1>3. ConnsOK'
  BY DEF ConnsOK
<1>4. WhereItIs'
  <2>1. conn[c] = "backlog" /\ by[c] \in Workers => by[c] \in pool[of[c]]
    BY DEF WhereItIs, ProcsOK, Workers, Actor
  <2> QED
    BY <2>1 DEF WhereItIs, ConnsOK, procs
<1>5. InQueues'
  BY DEF InQueues, ConnsOK
<1>6. LostBeforeServed'
  BY DEF LostBeforeServed, ConnsOK, WhereItIs, procs
<1> QED
  BY <1>2, <1>3, <1>4, <1>5, <1>6

\* The kernel takes the oldest message, or refuses it.
LEMMA SendMsgInv ==
    ASSUME IInv, NEW i \in Instances, SendMsg(i)
    PROVE  IInv'
<1> USE BoundsAssumption DEF IInv
<1>0. PICK c : c = Head(sending[i])
  OBVIOUS
<1>1. /\ sending[i] \in Seq(Conns) /\ sending[i] # <<>>
      /\ IsInjective(sending[i]) /\ wire[i] \in Seq(Conns)
  BY DEF SendMsg, ConnsOK, InQueues
<1>2. /\ c \in Conns /\ Tail(sending[i]) \in Seq(Conns)
      /\ Range(sending[i]) = Range(Tail(sending[i])) \cup {c}
      /\ IsInjective(Tail(sending[i])) /\ c \notin Range(Tail(sending[i]))
  BY <1>0, <1>1, TailQueue
<1>3. conn[c] = "sending" /\ of[c] = i
  BY <1>2 DEF InQueues
<1>4. /\ sending' = [sending EXCEPT ![i] = Tail(sending[i])]
      /\ UNCHANGED <<procs, of, by, copy, served>>
  BY DEF SendMsg
<1>5. ProcsOK' /\ InstanceLife' /\ OnlyOwnerListens'
  BY <1>4, SameProcs
<1>6. CASE /\ manager[i] \/ pool[i] # {}
           /\ conn' = [conn EXCEPT ![c] = "wire"]
           /\ wire' = [wire EXCEPT ![i] = Append(wire[i], c)]
           /\ UNCHANGED refused
  <2>1. /\ Append(wire[i], c) \in Seq(Conns)
        /\ Range(Append(wire[i], c)) = Range(wire[i]) \cup {c}
        /\ IsInjective(Append(wire[i], c))
    <3>1. c \notin Range(wire[i]) /\ IsInjective(wire[i])
      BY <1>2, <1>3 DEF InQueues
    <3> QED
      BY <1>1, <1>2, <3>1, AppendQueue
  <2>2. ConnsOK'
    BY <1>2, <1>4, <1>6, <2>1 DEF ConnsOK
  <2>3. WhereItIs'
    BY <1>2, <1>3, <1>4, <1>6 DEF WhereItIs, ConnsOK, procs
  <2>4. InQueues'
    BY <1>2, <1>3, <1>4, <1>6, <2>1 DEF InQueues, ConnsOK
  <2>5. LostBeforeServed'
    BY <1>4, <1>6 DEF LostBeforeServed, ConnsOK, procs
  <2> QED
    BY <1>5, <2>2, <2>3, <2>4, <2>5
<1>7. CASE /\ conn' = [conn EXCEPT ![c] = "closed"]
           /\ refused' = refused \cup {c}
           /\ UNCHANGED wire
  <2>1. ConnsOK'
    BY <1>2, <1>4, <1>7 DEF ConnsOK
  <2>2. WhereItIs'
    BY <1>2, <1>3, <1>4, <1>7 DEF WhereItIs, ConnsOK, procs
  <2>3. InQueues'
    BY <1>2, <1>3, <1>4, <1>7 DEF InQueues, ConnsOK
  <2>4. LostBeforeServed'
    BY <1>4, <1>7 DEF LostBeforeServed, ConnsOK, procs
  <2> QED
    BY <1>5, <2>1, <2>2, <2>3, <2>4
<1> QED
  BY <1>0, <1>6, <1>7 DEF SendMsg

\* A worker takes the oldest message: it is gone for the others.
LEMMA TakeInv ==
    ASSUME IInv, NEW i \in Instances, NEW w \in Workers, Take(i, w)
    PROVE  IInv'
<1> USE BoundsAssumption DEF IInv
<1>0. PICK c : c = Head(wire[i])
  OBVIOUS
<1>1. wire[i] \in Seq(Conns) /\ wire[i] # <<>> /\ IsInjective(wire[i])
  BY DEF Take, ConnsOK, InQueues
<1>2. /\ c \in Conns /\ Tail(wire[i]) \in Seq(Conns)
      /\ Range(wire[i]) = Range(Tail(wire[i])) \cup {c}
      /\ IsInjective(Tail(wire[i])) /\ c \notin Range(Tail(wire[i]))
  BY <1>0, <1>1, TailQueue
<1>3. conn[c] = "wire" /\ of[c] = i
  BY <1>2 DEF InQueues
<1>4. /\ w \in pool[i]
      /\ conn' = [conn EXCEPT ![c] = "served"] /\ served' = served \cup {c}
      /\ by' = [by EXCEPT ![c] = w]
      /\ wire' = [wire EXCEPT ![i] = Tail(wire[i])]
      /\ UNCHANGED <<procs, of, sending, copy, refused>>
  BY <1>0 DEF Take, Accepted
<1>5. ProcsOK' /\ InstanceLife' /\ OnlyOwnerListens'
  BY <1>4, SameProcs
<1>6. ConnsOK'
  BY <1>2, <1>4 DEF ConnsOK, Processes
<1>7. WhereItIs'
  BY <1>2, <1>3, <1>4 DEF WhereItIs, ConnsOK, procs
<1>8. InQueues'
  BY <1>2, <1>3, <1>4 DEF InQueues, ConnsOK
<1>9. LostBeforeServed'
  BY <1>4 DEF LostBeforeServed, ConnsOK, procs
<1> QED
  BY <1>5, <1>6, <1>7, <1>8, <1>9

-----------------------------------------------------------------------------
(* The ends of processes. *)

\* What is closed with the processes P of i: each connection P had, and, with
\* the last reader of ipc_pipe, what is in it.
Dies(i, P, last, c) ==
    /\ of[c] = i
    /\ \/ by[c] \in P /\ conn[c] \in {"backlog", "sending", "served"}
       \/ last /\ conn[c] = "wire"

\* What Drop leaves of the connections and of the socket.
LEMMA DropEffect ==
    ASSUME IInv, NEW i \in Instances, NEW P, NEW last \in BOOLEAN, Drop(i, P, last)
    PROVE  /\ conn' \in [Conns -> {"none", "backlog", "sending", "wire", "served", "closed"}]
           /\ wire' \in [Instances -> Seq(Conns)]
           /\ \A c \in Conns : conn'[c] = IF Dies(i, P, last, c) THEN "closed" ELSE conn[c]
           /\ \A j \in Instances :
                 /\ IsInjective(wire'[j])
                 /\ \A c \in Conns : c \in Range(wire'[j]) <=> conn'[c] = "wire" /\ of[c] = j
<1> USE DEF IInv
<1>1. /\ conn' \in [Conns -> {"none", "backlog", "sending", "wire", "served", "closed"}]
      /\ \A c \in Conns : conn'[c] = IF Dies(i, P, last, c) THEN "closed" ELSE conn[c]
  BY DEF Drop, Dies, ConnsOK
<1>2. wire' = IF last THEN [wire EXCEPT ![i] = <<>>] ELSE wire
  BY DEF Drop
<1>3. wire' \in [Instances -> Seq(Conns)]
  BY <1>2 DEF ConnsOK
<1>4. ASSUME NEW j \in Instances
      PROVE  /\ IsInjective(wire'[j])
             /\ \A c \in Conns : c \in Range(wire'[j]) <=> conn'[c] = "wire" /\ of[c] = j
  <2>1. CASE last /\ j = i
    <3>1. wire'[j] = <<>>
      BY <1>2, <2>1 DEF ConnsOK
    <3> QED
      BY <1>1, <2>1, <3>1, EmptyQueue DEF Dies
  <2>2. CASE ~(last /\ j = i)
    <3>1. wire'[j] = wire[j]
      BY <1>2, <2>2 DEF ConnsOK
    <3>2. \A c \in Conns : of[c] = j => (conn'[c] = "wire" <=> conn[c] = "wire")
      BY <1>1, <2>2 DEF Dies
    <3> QED
      BY <3>1, <3>2 DEF InQueues
  <2> QED
    BY <2>1, <2>2
<1> QED
  BY <1>1, <1>3, <1>4

\* A worker dies: the manager, or another worker, still reads ipc_pipe, or the
\* actor is over.
LEMMA WorkerDiesInv ==
    ASSUME IInv, NEW i \in Instances, NEW w \in Workers, WorkerDies(i, w)
    PROVE  IInv'
<1> USE BoundsAssumption DEF IInv
<1>0. PICK last \in BOOLEAN : last = (pool[i] = {w} /\ ~manager[i])
  OBVIOUS
<1>1. /\ w \in pool[i] /\ pool' = [pool EXCEPT ![i] = @ \ {w}]
      /\ listening' = [listening EXCEPT ![i] = @ \ {w}]
      /\ Drop(i, {w}, last)
      /\ IF manager[i] THEN deaths < MaxDeaths /\ deaths' = deaths + 1
                       ELSE UNCHANGED deaths
      /\ UNCHANGED <<mode, actor, manager, path, bound, of, by, sending, copy,
                     refused, served>>
  BY <1>0 DEF WorkerDies
<1>2. w # Actor
  BY DEF Workers, Actor
<1>3. \A j \in Instances : Listens(j)' <=> Listens(j)
  BY <1>1, <1>2 DEF ProcsOK, Listens
<1>4. deaths' \in 0 .. MaxDeaths /\ (deaths > 0 => deaths' > 0)
         /\ (manager[i] => deaths' > 0)
  BY <1>1 DEF ProcsOK
<1>5. ProcsOK'
  BY <1>1, <1>2, <1>4 DEF ProcsOK
<1>6. InstanceLife'
  BY <1>1, <1>3 DEF InstanceLife, ProcsOK
<1>7. OnlyOwnerListens'
  BY <1>1, <1>3 DEF OnlyOwnerListens
<1>8. /\ conn' \in [Conns -> {"none", "backlog", "sending", "wire", "served", "closed"}]
      /\ wire' \in [Instances -> Seq(Conns)]
      /\ \A c \in Conns : conn'[c] = IF Dies(i, {w}, last, c) THEN "closed" ELSE conn[c]
      /\ \A j \in Instances :
            /\ IsInjective(wire'[j])
            /\ \A c \in Conns : c \in Range(wire'[j]) <=> conn'[c] = "wire" /\ of[c] = j
  BY <1>1, DropEffect
<1>9. ConnsOK'
  BY <1>1, <1>8 DEF ConnsOK
<1>10. WhereItIs'
  <2> SUFFICES ASSUME NEW c \in Conns
               PROVE  /\ conn'[c] # "none" => of[c] \in Instances
                      /\ conn'[c] = "sending" => by[c] = Actor /\ actor[of[c]] = "loop"
                      /\ conn'[c] = "backlog" => by[c] \in listening'[of[c]]
                      /\ conn'[c] = "wire" => manager[of[c]] \/ pool'[of[c]] # {}
                      /\ conn'[c] = "served" => by[c] \in pool'[of[c]] /\ c \in served
    BY <1>1 DEF WhereItIs
  <2>1. CASE of[c] # i
    BY <1>1, <1>8, <2>1 DEF WhereItIs, ProcsOK, Dies
  <2>2. CASE of[c] = i
    <3>1. listening'[i] = listening[i] \ {w} /\ pool'[i] = pool[i] \ {w}
      BY <1>1 DEF ProcsOK
    <3>2. conn'[c] = "wire" => manager[i] \/ pool'[i] # {}
      <4>1. pool[i] # {w} => pool'[i] # {}
        BY <1>1, <3>1
      <4>2. conn'[c] = "wire" => ~last
        BY <1>8, <2>2 DEF Dies
      <4> QED
        BY <1>0, <4>1, <4>2
    <3>3. by[c] # w \/ conn'[c] \notin {"backlog", "sending", "served"}
      BY <1>8, <2>2 DEF Dies
    <3>4. conn'[c] = conn[c] \/ conn'[c] = "closed"
      BY <1>8
    <3> QED
      BY <1>1, <2>2, <3>1, <3>2, <3>3, <3>4 DEF WhereItIs
  <2> QED
    BY <2>1, <2>2
<1>11. InQueues'
  <2>1. \A c \in Conns : conn'[c] = "sending" <=> conn[c] = "sending"
    BY <1>2, <1>8 DEF Dies, WhereItIs
  <2> QED
    BY <1>1, <1>8, <2>1 DEF InQueues
<1>12. LostBeforeServed'
  <2> SUFFICES ASSUME NEW c \in Conns, conn'[c] = "closed", c \notin served
               PROVE  \/ c \in refused
                      \/ actor[of[c]] = "over"
                      \/ mode = "reuseport" /\ deaths' > 0
    BY <1>1 DEF LostBeforeServed
  <2>1. CASE ~Dies(i, {w}, last, c)
    BY <1>4, <1>8, <2>1 DEF LostBeforeServed
  <2>2. CASE Dies(i, {w}, last, c) /\ conn[c] = "wire"
    BY <1>0, <1>1, <2>2 DEF Dies, InstanceLife, ProcsOK
  <2>3. CASE Dies(i, {w}, last, c) /\ conn[c] # "wire"
    <3>1. conn[c] = "backlog" /\ by[c] = w /\ w \in listening[i] /\ of[c] = i
      BY <1>2, <2>3 DEF Dies, WhereItIs
    <3>2. mode = "reuseport"
      BY <1>2, <3>1 DEF InstanceLife
    <3>3. manager[i] \/ actor[i] = "over"
      BY <1>1 DEF InstanceLife
    <3> QED
      BY <1>4, <3>1, <3>2, <3>3
  <2> QED
    BY <2>1, <2>2, <2>3
<1> QED
  BY <1>5, <1>6, <1>7, <1>9, <1>10, <1>11, <1>12

\* The manager dies after its actor, and with the last reader the messages.
LEMMA ManagerDiesInv ==
    ASSUME IInv, NEW i \in Instances, ManagerDies(i)
    PROVE  IInv'
<1> USE BoundsAssumption DEF IInv
<1>0. PICK last \in BOOLEAN : last = (pool[i] = {})
  OBVIOUS
<1>1. /\ actor[i] = "over" /\ manager' = [manager EXCEPT ![i] = FALSE]
      /\ Drop(i, {}, last)
      /\ UNCHANGED <<mode, actor, pool, listening, path, deaths, bound, of, by,
                     sending, copy, refused, served>>
  BY <1>0 DEF ManagerDies
<1>2. ProcsOK'
  BY <1>1 DEF ProcsOK
<1>3. InstanceLife'
  BY <1>1 DEF InstanceLife, ProcsOK, Listens
<1>4. OnlyOwnerListens'
  BY <1>1 DEF OnlyOwnerListens, Listens
<1>5. /\ conn' \in [Conns -> {"none", "backlog", "sending", "wire", "served", "closed"}]
      /\ wire' \in [Instances -> Seq(Conns)]
      /\ \A c \in Conns : conn'[c] = IF Dies(i, {}, last, c) THEN "closed" ELSE conn[c]
      /\ \A j \in Instances :
            /\ IsInjective(wire'[j])
            /\ \A c \in Conns : c \in Range(wire'[j]) <=> conn'[c] = "wire" /\ of[c] = j
  BY <1>1, DropEffect
<1>6. \A c \in Conns : conn'[c] = IF of[c] = i /\ last /\ conn[c] = "wire"
                                THEN "closed" ELSE conn[c]
  BY <1>5 DEF Dies
<1>7. ConnsOK'
  BY <1>1, <1>5 DEF ConnsOK
<1>8. WhereItIs'
  BY <1>0, <1>1, <1>6 DEF WhereItIs, ProcsOK
<1>9. InQueues'
  BY <1>1, <1>5, <1>6 DEF InQueues
<1>10. LostBeforeServed'
  BY <1>1, <1>6 DEF LostBeforeServed
<1> QED
  BY <1>2, <1>3, <1>4, <1>7, <1>8, <1>9, <1>10

\* The actor ends: its socket and queue are gone, and the path, if it is a pipe,
\* may be too.
LEMMA ActorEndsInv ==
    ASSUME IInv, NEW i \in Instances, ActorEnds(i)
    PROVE  IInv'
<1> USE BoundsAssumption DEF IInv
<1>1. /\ actor[i] \in {"script", "loop"}
      /\ actor' = [actor EXCEPT ![i] = "over"]
      /\ listening' = [listening EXCEPT ![i] = @ \ {Actor}]
      /\ IF mode = "pipe" THEN path' \in {path, Nobody} ELSE UNCHANGED path
      /\ Drop(i, {Actor}, FALSE)
      /\ sending' = [sending EXCEPT ![i] = <<>>]
      /\ copy' = [c \in Conns |-> copy[c] /\ of[c] # i]
      /\ UNCHANGED <<mode, manager, pool, deaths, bound, of, by, refused, served>>
  BY DEF ActorEnds, Unlink
<1>2. ProcsOK'
  BY <1>1 DEF ProcsOK
<1>3. ~Listens(i)' /\ \A j \in Instances \ {i} : Listens(j)' <=> Listens(j)
  BY <1>1 DEF Listens, ProcsOK
<1>4. InstanceLife'
  BY <1>1, <1>3 DEF InstanceLife, ProcsOK
<1>5. OnlyOwnerListens'
  <2>1. CASE mode # "pipe"
    BY <1>1, <1>3, <2>1 DEF OnlyOwnerListens
  <2>2. CASE mode = "pipe" /\ \A j \in Instances \ bound : actor'[j] # "over"
    <3>1. /\ i \in bound
          /\ \A j \in Instances \ bound : actor[j] # "over"
      BY <1>1, <2>2 DEF ProcsOK
    <3>2. Listens(i)
      BY <1>1, <3>1 DEF InstanceLife
    <3>3. \A j \in Instances : Listens(j) => path = j
      BY <2>2, <3>1 DEF OnlyOwnerListens
    <3>4. \A j \in Instances : ~Listens(j)'
      BY <1>3, <3>2, <3>3
    <3> QED
      BY <1>1, <2>2, <3>4 DEF OnlyOwnerListens
  <2>3. CASE mode = "pipe" /\ \E j \in Instances \ bound : actor'[j] = "over"
    BY <1>1, <2>3 DEF OnlyOwnerListens
  <2> QED
    BY <2>1, <2>2, <2>3
<1>6. /\ conn' \in [Conns -> {"none", "backlog", "sending", "wire", "served", "closed"}]
      /\ wire' \in [Instances -> Seq(Conns)]
      /\ \A c \in Conns : conn'[c] = IF Dies(i, {Actor}, FALSE, c) THEN "closed" ELSE conn[c]
      /\ \A j \in Instances :
            /\ IsInjective(wire'[j])
            /\ \A c \in Conns : c \in Range(wire'[j]) <=> conn'[c] = "wire" /\ of[c] = j
  BY <1>1, DropEffect
<1>7. \A c \in Conns :
         conn'[c] = IF /\ of[c] = i /\ by[c] = Actor
                       /\ conn[c] \in {"backlog", "sending", "served"}
                    THEN "closed" ELSE conn[c]
  BY <1>6 DEF Dies
<1>8. ConnsOK'
  <2>1. copy' \in [Conns -> BOOLEAN]
    BY <1>1, Zenon
  <2>2. sending' \in [Instances -> Seq(Conns)]
    BY <1>1 DEF ConnsOK
  <2> QED
    BY <1>1, <1>6, <2>1, <2>2 DEF ConnsOK
<1>9. WhereItIs'
  BY <1>1, <1>7 DEF WhereItIs, ProcsOK
<1>10. InQueues'
  <2>1. \A c \in Conns : conn'[c] = "sending" <=> conn[c] = "sending" /\ of[c] # i
    BY <1>7 DEF WhereItIs
  <2>2. sending'[i] = <<>> /\ \A j \in Instances \ {i} : sending'[j] = sending[j]
    BY <1>1 DEF ConnsOK
  <2>3. ASSUME NEW j \in Instances
        PROVE  /\ IsInjective(sending'[j])
               /\ \A c \in Conns : c \in Range(sending'[j])
                                    <=> conn'[c] = "sending" /\ of[c] = j
    <3>1. CASE j = i
      BY <2>1, <2>2, <3>1, EmptyQueue
    <3>2. CASE j # i
      BY <2>1, <2>2, <3>2 DEF InQueues
    <3> QED
      BY <3>1, <3>2
  <2> QED
    BY <1>1, <1>6, <2>3 DEF InQueues
<1>11. LostBeforeServed'
  BY <1>1, <1>7 DEF LostBeforeServed, ProcsOK
<1> QED
  BY <1>2, <1>4, <1>5, <1>8, <1>9, <1>10, <1>11

-----------------------------------------------------------------------------
LEMMA NextInv == IInv /\ [Next]_vars => IInv'
<1> SUFFICES ASSUME IInv, [Next]_vars
             PROVE  IInv'
  OBVIOUS
<1>1. ASSUME NEW i \in Instances,
             Construct(i) \/ Run(i) \/ SendMsg(i) \/ ManagerDies(i) \/ ActorEnds(i)
      PROVE  IInv'
  BY <1>1, ConstructInv, RunInv, SendMsgInv, ManagerDiesInv, ActorEndsInv
<1>2. ASSUME NEW i \in Instances, NEW w \in Workers,
             WorkerStarts(i, w) \/ Take(i, w) \/ WorkerDies(i, w)
      PROVE  IInv'
  BY <1>2, WorkerStartsInv, TakeInv, WorkerDiesInv
<1>3. ASSUME NEW c \in Conns,
             Connect(c) \/ AcceptAndSend(c) \/ AcceptHere(c) \/ Write2Cb(c) \/ CloseConn(c)
      PROVE  IInv'
  BY <1>3, ConnectInv, AcceptAndSendInv, HereInv
<1>4. CASE UNCHANGED vars
  <2>1. UNCHANGED procs /\ UNCHANGED conns
    BY <1>4 DEF vars
  <2>2. ProcsOK' /\ InstanceLife' /\ OnlyOwnerListens' /\ ConnsOK' /\ InQueues'
    BY <2>1, SameProcs, SameConns DEF IInv
  <2>3. WhereItIs' /\ LostBeforeServed'
    BY <2>1, SameConns DEF IInv, WhereItIs, LostBeforeServed, procs
  <2> QED
    BY <2>2, <2>3 DEF IInv
<1> QED
  BY <1>1, <1>2, <1>3, <1>4 DEF Next

\* Every reachable state of the instances and the connections satisfies the
\* invariant.
THEOREM Invariance == Spec => []IInv
  BY InitInv, NextInv, PTL DEF Spec

\* A connection is in one place and with a live process: a backlog, the actor's
\* write queue, the socket of ipc_pipe or one worker; it never reaches two
\* workers (ipc_connection_cb, rp_reactor_ipc_send, rp_reactor_ipc_receive).
THEOREM ConnectionHasOneHolder == Spec => []OneHolder
<1>1. IInv => TypeOK
  <2> SUFFICES ASSUME IInv
               PROVE  TypeOK
    OBVIOUS
  <2> USE DEF IInv
  <2>1. ASSUME NEW i \in Instances
        PROVE  IsInjective(sending[i] \o wire[i])
    <3>1. sending[i] \in Seq(Conns) /\ wire[i] \in Seq(Conns)
      BY DEF ConnsOK
    <3>2. IsInjective(sending[i]) /\ IsInjective(wire[i])
      BY DEF InQueues
    <3>3. Range(sending[i]) \cap Range(wire[i]) = {}
      BY <3>1, RangeOfSeq DEF InQueues
    <3> QED
      BY <3>1, <3>2, <3>3, JoinedQueues
  <2> QED
    BY <2>1 DEF ProcsOK, ConnsOK, TypeOK
<1>2. IInv => OneHolder
  BY <1>1 DEF IInv, OneHolder, WhereItIs, InQueues
<1> QED
  BY <1>2, Invariance, PTL

\* A connection is lost before PHP code has it only when its message was
\* refused, its actor is over, or a worker died that accepts for itself:
\* messages outlive the workers of a pool (rp_init_worker_manager).
THEOREM NoneLostWithWorkers == Spec => []LostBeforeServed
<1>1. IInv => LostBeforeServed
  BY DEF IInv
<1> QED
  BY <1>1, Invariance, PTL

\* Two servers listen at one time at one pipe only after a third one, that had
\* not bound it, removed the path (releaseResource of pipe.c); at one port never.
THEOREM ThirdRemovedPath == Spec => []TwoListenersNeedAThird
<1>1. ASSUME NEW S, \A x, y \in S : x = y
      PROVE  ~(Cardinality(S) > 1)
  <2>1. CASE S = {}
    BY <2>1, FS_EmptySet
  <2>2. CASE S # {}
    <3>1. PICK x : S = {x}
      BY <1>1, <2>2
    <3> QED
      BY <3>1, FS_Singleton
  <2> QED
    BY <2>1, <2>2
<1>2. IInv => TwoListenersNeedAThird
  <2> SUFFICES ASSUME IInv, Cardinality({i \in Instances : Listens(i)}) > 1
               PROVE  mode = "pipe" /\ \E j \in Instances \ bound : actor[j] = "over"
    BY DEF TwoListenersNeedAThird
  <2>1. PICK i \in Instances, j \in Instances : Listens(i) /\ Listens(j) /\ i # j
    BY <1>1
  <2> QED
    BY <2>1 DEF IInv, OnlyOwnerListens
<1> QED
  BY <1>2, Invariance, PTL
=============================================================================
