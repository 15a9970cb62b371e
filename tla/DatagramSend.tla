---------------------------- MODULE DatagramSend ----------------------------
(***************************************************************************)
(* $server->send() of Respond\Server\Udp in a build without SO_REUSEPORT:  *)
(* only the actor has the UDP socket, so a worker sends the datagram to    *)
(* the actor over ipc_pipe, with one end of a socket pair, and the actor   *)
(* writes the status of uv_udp_send into it (server/udp.c, reactor.c).     *)
(*                                                                         *)
(* Both ends of the pair are libuv handles inside one structure, `result`, *)
(* which is freed when the handle that reads the answer is closed: hence   *)
(* the turns of the worker's loop are modelled.  In each turn libuv runs   *)
(* the timers, the callbacks of finished writes, the events of one poll    *)
(* and the closing handles, the handle closed last first.                  *)
(***************************************************************************)
EXTENDS Naturals, Sequences, SequencesExt

CONSTANTS
    Senders,   \* the worker processes
    MaxSends   \* bound: calls of send()

Sends == 1 .. MaxSends

ASSUME SendsAssumption == MaxSends \in Nat

VARIABLES
    owner,     \* the worker that made each send; send s is the s-th
    phase,     \* what the loop of each worker does: "timers", "wait", "poll"
    ready,     \* sends whose answer the poll of the turn found readable
    outbox,    \* write queue of the worker's ipc_pipe
    written,   \* sends whose write is finished and write2_cb due
    closing,   \* closing handles of each loop, the one closed last first
    passed,    \* result->actor_pipe
    result,    \* result->worker_pipe
    freed,     \* sends whose structure is freed
    answer,    \* state of result->promise
    value,     \* what it is fulfilled with
    wire,      \* messages in the socket of ipc_pipe
    actor,     \* whether the actor is alive
    sent,      \* sends uv_udp_send accepted, its callback not run yet
    outcome,   \* what the kernel made of the datagram
    status,    \* status written into the socket pair
    refused,   \* history: sends whose message the kernel refused
    stuck,     \* history: sends that uv_udp_send refused
    tight,     \* history: sends answered in the turn of their write2_cb
    faulty     \* sends whose freed structure was used

workerVars == <<owner, phase, ready, outbox, written, closing, passed, result,
                freed, answer, value>>
actorVars == <<actor, sent, outcome, status, stuck>>
sendVars == <<workerVars, wire, actorVars, refused, tight, faulty>>

Outcomes == {"none", "ok", "failed"}
Owned(w) == {s \in DOMAIN owner : owner[s] = w}

SendInit ==
    /\ owner = <<>>
    /\ phase = [w \in Senders |-> "timers"]
    /\ ready = {} /\ freed = {}
    /\ outbox = [w \in Senders |-> <<>>]
    /\ written = [w \in Senders |-> <<>>]
    /\ closing = [w \in Senders |-> <<>>]
    /\ passed = [s \in Sends |-> "none"] /\ result = [s \in Sends |-> "none"]
    /\ answer = [s \in Sends |-> "none"] /\ value = [s \in Sends |-> "none"]
    /\ wire = <<>> /\ sent = <<>> /\ actor = TRUE
    /\ outcome = [s \in Sends |-> "none"] /\ status = [s \in Sends |-> "none"]
    /\ refused = {} /\ stuck = {} /\ tight = {} /\ faulty = {}

\* Reading the answer of s gives data, or end-of-file once every copy of the
\* passed end is closed: the worker's, and the one of the message or actor.
Readable(s) ==
    \/ status[s] # "none"
    \/ passed[s] # "open" /\ (s \in refused \/ ~actor)

(***************************************************************************)
(* The worker.                                                             *)
(***************************************************************************)

\* sendmsg of the message of s: the kernel takes it or refuses it (too many
\* descriptors in flight, or no actor).  write2_cb ignores the difference.
SendMsg(s) ==
    \/ /\ actor
       /\ wire' = Append(wire, s)
       /\ UNCHANGED refused
    \/ /\ refused' = refused \cup {s}
       /\ UNCHANGED wire

\* ipc_udp_send_data, called by a timer or by an event of the poll: the
\* message is written at once unless the socket is full.
Send(w) ==
    LET s == Len(owner) + 1 IN
    /\ faulty = {} /\ s \in Sends /\ phase[w] \in {"timers", "poll"}
    /\ owner' = Append(owner, w)
    /\ passed' = [passed EXCEPT ![s] = "open"]
    /\ result' = [result EXCEPT ![s] = "open"]
    /\ answer' = [answer EXCEPT ![s] = "pending"]
    /\ \/ /\ outbox[w] = <<>>
          /\ SendMsg(s)
          /\ written' = [written EXCEPT ![w] = Append(@, s)]
          /\ UNCHANGED outbox
       \/ /\ outbox' = [outbox EXCEPT ![w] = Append(@, s)]
          /\ UNCHANGED <<written, wire, refused>>
    /\ UNCHANGED <<phase, ready, closing, freed, value, actorVars, tight, faulty>>

\* write2_cb for the sends of q, in order: uv_close of the passed ends.
Write2Cb(w, q) ==
    /\ passed' = [s \in Sends |-> IF s \in Range(q) THEN "closing" ELSE passed[s]]
    /\ closing' = [closing EXCEPT ![w] =
                      Reverse([i \in 1 .. Len(q) |-> <<"passed", q[i]>>]) \o @]

\* The writes finished in the previous turn or by a timer of this one.
RunPending(w) ==
    /\ faulty = {} /\ phase[w] = "timers"
    /\ phase' = [phase EXCEPT ![w] = "wait"]
    /\ Write2Cb(w, written[w])
    /\ written' = [written EXCEPT ![w] = <<>>]
    /\ UNCHANGED <<owner, ready, outbox, result, freed, answer, value, wire,
                   actorVars, refused, tight, faulty>>

\* The poll returns what is readable now.
Poll(w) ==
    /\ faulty = {} /\ phase[w] = "wait"
    /\ phase' = [phase EXCEPT ![w] = "poll"]
    /\ ready' = ready \cup {s \in Owned(w) : result[s] = "open" /\ Readable(s)}
    /\ UNCHANGED <<owner, outbox, written, closing, passed, result, freed, answer,
                   value, wire, actorVars, refused, tight, faulty>>

\* ipc_pipe is writable: the oldest queued message is written, and its
\* callback runs in the same event.
Flush(w) ==
    /\ faulty = {} /\ phase[w] = "poll" /\ outbox[w] # <<>>
    /\ SendMsg(Head(outbox[w]))
    /\ Write2Cb(w, <<Head(outbox[w])>>)
    /\ outbox' = [outbox EXCEPT ![w] = Tail(@)]
    /\ UNCHANGED <<owner, phase, ready, written, result, freed, answer, value,
                   actorVars, tight, faulty>>

\* ipc_udp_send_result_receive: the promise is fulfilled with the status,
\* whatever it is, or rejected at end-of-file.
ReadResult(s) ==
    /\ faulty = {} /\ s \in ready /\ phase[owner[s]] = "poll"
    /\ ready' = ready \ {s}
    /\ answer' = [answer EXCEPT ![s] = IF status[s] = "none" THEN "rejected" ELSE "fulfilled"]
    /\ value' = [value EXCEPT ![s] = status[s]]
    /\ result' = [result EXCEPT ![s] = "closing"]
    /\ closing' = [closing EXCEPT ![owner[s]] = <<<<"result", s>>>> \o @]
    /\ tight' = IF passed[s] = "closed" THEN tight ELSE tight \cup {s}
    /\ UNCHANGED <<owner, phase, outbox, written, passed, freed, wire, actorVars,
                   refused, faulty>>

\* Seeded fault: each handle frees the structure.
RunClosingEither(w) ==
    LET q == closing[w] IN
    /\ faulty = {} /\ phase[w] = "poll" /\ ready \cap Owned(w) = {}
    /\ phase' = [phase EXCEPT ![w] = "timers"]
    /\ closing' = [closing EXCEPT ![w] = <<>>]
    /\ passed' = [s \in Sends |-> IF <<"passed", s>> \in Range(q) THEN "closed" ELSE passed[s]]
    /\ result' = [s \in Sends |-> IF <<"result", s>> \in Range(q) THEN "closed" ELSE result[s]]
    /\ freed' = freed \cup {x[2] : x \in Range(q)}
    /\ faulty' = {x[2] : x \in Range(q)} \cap freed
    /\ UNCHANGED <<owner, ready, outbox, written, answer, value, wire, actorVars,
                   refused, tight>>

\* The handles closed in the turn are finished.  actor_pipe has no callback;
\* that of worker_pipe, ipc_udp_send_result_free_cb, frees both.  The memory
\* of a handle finished after that is no longer the loop's: it may still
\* hold what it held.
RunClosing(w) ==
    LET q == closing[w]
        Gone(s, i) == s \in freed \/ \E j \in 1 .. i - 1 : q[j] = <<"result", s>>
    IN
    /\ faulty = {} /\ phase[w] = "poll" /\ ready \cap Owned(w) = {}
    /\ phase' = [phase EXCEPT ![w] = "timers"]
    /\ closing' = [closing EXCEPT ![w] = <<>>]
    /\ passed' = [s \in Sends |-> IF <<"passed", s>> \in Range(q) THEN "closed" ELSE passed[s]]
    /\ result' = [s \in Sends |-> IF <<"result", s>> \in Range(q) THEN "closed" ELSE result[s]]
    /\ freed' = freed \cup {s \in Sends : <<"result", s>> \in Range(q)}
    /\ faulty' \in {{}, {q[i][2] : i \in {k \in 1 .. Len(q) : Gone(q[k][2], k)}}}
    /\ UNCHANGED <<owner, ready, outbox, written, answer, value, wire, actorVars,
                   refused, tight>>

(***************************************************************************)
(* The actor.                                                              *)
(***************************************************************************)

\* Seeded fault: the actor answers when uv_udp_send has accepted the datagram.
TakeAnswers ==
    /\ actor /\ wire # <<>>
    /\ wire' = Tail(wire)
    /\ sent' = Append(sent, Head(wire))
    /\ status' = [status EXCEPT ![Head(wire)] = "ok"]
    /\ UNCHANGED <<workerVars, actor, outcome, stuck, refused, tight, faulty>>

\* rp_reactor_actor_ipc_receive, rp_reactor_data_receive and send_cb, which
\* ignores what uv_udp_send returns.
Take ==
    /\ actor /\ wire # <<>>
    /\ wire' = Tail(wire)
    /\ \/ sent' = Append(sent, Head(wire)) /\ UNCHANGED stuck
       \/ stuck' = stuck \cup {Head(wire)} /\ UNCHANGED sent
    /\ UNCHANGED <<workerVars, actor, outcome, status, refused, tight, faulty>>

\* The kernel sends the oldest datagram, or fails.
KernelSend(s) ==
    /\ actor /\ outcome[s] = "none"
    /\ \E i \in DOMAIN sent :
          sent[i] = s /\ \A j \in 1 .. i - 1 : outcome[sent[j]] # "none"
    /\ \E o \in {"ok", "failed"} : outcome' = [outcome EXCEPT ![s] = o]
    /\ UNCHANGED <<workerVars, wire, actor, sent, status, stuck, refused, tight, faulty>>

\* Seeded fault: the status is written for sends that went well only.
SendCbOkOnly ==
    /\ actor /\ sent # <<>> /\ outcome[Head(sent)] # "none"
    /\ sent' = Tail(sent)
    /\ status' = IF outcome[Head(sent)] = "ok"
                 THEN [status EXCEPT ![Head(sent)] = "ok"] ELSE status
    /\ UNCHANGED <<workerVars, wire, actor, outcome, stuck, refused, tight, faulty>>

\* ipc_udp_send_cb writes the status and then closes the passed end.
SendCb ==
    /\ actor /\ sent # <<>> /\ outcome[Head(sent)] # "none"
    /\ sent' = Tail(sent)
    /\ status' = [status EXCEPT ![Head(sent)] = outcome[Head(sent)]]
    /\ UNCHANGED <<workerVars, wire, actor, outcome, stuck, refused, tight, faulty>>

\* The actor dies, and with it the messages on their way to it.
ActorDies ==
    /\ actor
    /\ actor' = FALSE /\ wire' = <<>> /\ sent' = <<>>
    /\ UNCHANGED <<workerVars, outcome, status, stuck, refused, tight, faulty>>

-----------------------------------------------------------------------------

SendNext ==
    \/ \E w \in Senders : Send(w) \/ RunPending(w) \/ Poll(w) \/ Flush(w) \/ RunClosing(w)
    \/ \E s \in Sends : ReadResult(s) \/ KernelSend(s)
    \/ Take \/ SendCb \/ ActorDies

\* The loops turn, the kernel sends, and a full socket is written to again.
SendFairness ==
    /\ \A w \in Senders :
          WF_sendVars(RunPending(w)) /\ WF_sendVars(Poll(w)) /\ WF_sendVars(RunClosing(w)) /\ SF_sendVars(Flush(w))
    /\ \A s \in Sends : WF_sendVars(ReadResult(s)) /\ WF_sendVars(KernelSend(s))
    /\ WF_sendVars(Take) /\ WF_sendVars(SendCb)

SendSpec == SendInit /\ [][SendNext]_sendVars
FairSendSpec == SendSpec /\ SendFairness

-----------------------------------------------------------------------------
(* Properties *)

\* Types; a handle is in the closing list of its loop exactly while it is
\* closing, and a message is in one place only.
SendTypeOK ==
    /\ owner \in Seq(Senders) /\ Len(owner) <= MaxSends
    /\ phase \in [Senders -> {"timers", "wait", "poll"}]
    /\ ready \subseteq DOMAIN owner /\ freed \subseteq DOMAIN owner
    /\ passed \in [Sends -> {"none", "open", "closing", "closed"}]
    /\ result \in [Sends -> {"none", "open", "closing", "closed"}]
    /\ answer \in [Sends -> {"none", "pending", "fulfilled", "rejected"}]
    /\ value \in [Sends -> Outcomes] /\ status \in [Sends -> Outcomes]
    /\ outcome \in [Sends -> Outcomes] /\ actor \in BOOLEAN
    /\ \A w \in Senders, s \in DOMAIN owner :
          /\ <<"passed", s>> \in Range(closing[w]) <=> owner[s] = w /\ passed[s] = "closing"
          /\ <<"result", s>> \in Range(closing[w]) <=> owner[s] = w /\ result[s] = "closing"
    /\ IsInjective(wire \o sent)

\* What a fulfilled promise says is what became of the datagram, and a
\* promise is rejected only when the message was lost: the kernel refused
\* it, or the actor died.
AnswersAreTrue ==
    SendTypeOK /\ \A s \in DOMAIN owner :
        /\ answer[s] = "fulfilled" => value[s] = outcome[s] /\ value[s] # "none"
        /\ answer[s] = "rejected" => s \in refused \/ ~actor

\* The structure of a send is used after it is freed only when its answer is
\* read in the very turn of the loop that closed the passed end; an answer
\* that comes later finds that handle finished.
FreedTooEarlyInOneTurn == faulty \subseteq tight

\* Every send is answered, unless uv_udp_send refused the datagram, in which
\* case nobody ever closes the passed end.
SendIsAnswered ==
    \A s \in Sends :
        s \in DOMAIN owner ~> answer[s] # "pending" \/ s \in stuck \/ faulty # {}
=============================================================================
