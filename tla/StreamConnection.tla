-------------------------- MODULE StreamConnection --------------------------
(***************************************************************************)
(* One Respond\Stream\Connection (src/stream/connection.c): the PHP object *)
(* wrapped around a libuv stream handle.  PHP code (listeners, or any      *)
(* code that kept a reference) calls write, end and close; the event loop  *)
(* runs the read, write, shutdown and close callbacks one at a time.  A    *)
(* callback that emits an event is split in two steps, the emission and    *)
(* the return, so that listeners can call methods in between.              *)
(*                                                                         *)
(* A method call that returns FALSE changes nothing and is a stuttering    *)
(* step.  The handle, its write queue and its requests belong to libuv and *)
(* are modelled from the calls connection.c makes.                         *)
(***************************************************************************)
EXTENDS Naturals, Sequences

CONSTANTS MaxWrites,  \* bound: writes accepted in a behaviour
          MaxReads,   \* bound: chunks of data read in a behaviour
          MaxHeld     \* bound: references PHP code holds at once

ASSUME BoundsAssumption ==
    MaxWrites \in Nat /\ MaxReads \in Nat /\ MaxHeld \in Nat

VARIABLES
    flag,      \* resource->flag
    refcount,  \* reference count of the PHP object
    held,      \* how many of these references PHP code keeps
    released,  \* releaseResource ran: stream freed, listeners destroyed
    cb,        \* the event being emitted, or "none"
    handle,    \* libuv: state of the stream handle
    shutreq,   \* libuv: state of the shutdown request
    writes,    \* libuv: outcome of every write it accepted, oldest first
    called,    \* libuv: how many write callbacks have run
    reads,     \* chunks of data delivered
    reports,   \* statuses given to the "write" event, oldest first
    closes,    \* "close" events emitted
    closedBy,  \* what made connection_close close the handle
    fault      \* first illegal access to the handle, if any

uvVars == <<handle, shutreq, writes, called>>
vars == <<flag, refcount, held, released, cb, handle, shutreq, writes,
          called, reads, reports, closes, closedBy, fault>>

Flags == {"CLOSED", "SHUTDOWN"}
Outcome == {"queued", "ok", "failed", "cancelled"}
Event == {"connect", "data", "error", "write", "close"}

TypeOK ==
    /\ flag \in SUBSET Flags
    /\ refcount \in Nat
    /\ held \in Nat
    /\ released \in BOOLEAN
    /\ cb \in Event \cup {"none"}
    /\ handle \in {"open", "closing", "closed"}
    /\ shutreq \in {"none", "pending", "done"}
    /\ writes \in Seq(Outcome)
    /\ called \in Nat
    /\ reads \in Nat
    /\ reports \in Seq(Outcome)
    /\ closes \in Nat
    /\ closedBy \in {"none", "user", "read", "shutdown"}
    /\ fault \in {"none", "double_close", "loop_after_free", "user_after_free"}

(***************************************************************************)
(* rp_stream_connection_factory made the object (reference count 1, which  *)
(* nothing but releaseResource gives back) and started reading; the server *)
(* is emitting "connect" with it.                                          *)
(***************************************************************************)
Init ==
    /\ flag = {}
    /\ refcount = 1
    /\ held = 0
    /\ released = FALSE
    /\ cb = "connect"
    /\ handle = "open"
    /\ shutreq = "none"
    /\ writes = <<>>
    /\ called = 0
    /\ reads = 0
    /\ reports = <<>>
    /\ closes = 0
    /\ closedBy = "none"
    /\ fault = "none"

-----------------------------------------------------------------------------
(* libuv *)

Queued == {i \in DOMAIN writes : writes[i] = "queued"}

\* uv_write refuses a handle that is closing; otherwise the request queues.
UvWriteAccepts == handle = "open" /\ Len(writes) < MaxWrites

\* uv_close cancels the writes still queued.  Closing a handle twice fails
\* an assertion of libuv and aborts the process.
UvClose ==
    IF handle = "open"
    THEN /\ handle' = "closing"
         /\ writes' = [i \in DOMAIN writes |->
                          IF i \in Queued THEN "cancelled" ELSE writes[i]]
         /\ UNCHANGED fault
    ELSE /\ fault' = "double_close"
         /\ UNCHANGED <<handle, writes>>

\* The kernel takes the oldest queued write, or the write fails; once one
\* has failed (the peer is gone) so do the ones behind it.
KernelWrite ==
    /\ fault = "none"
    /\ handle = "open"
    /\ \E i \in Queued, o \in {"ok", "failed"} :
          /\ \A j \in Queued : i <= j
          /\ o = "ok" => \A j \in DOMAIN writes : writes[j] # "failed"
          /\ writes' = [writes EXCEPT ![i] = o]
    /\ UNCHANGED <<flag, refcount, held, released, cb, handle, shutreq,
                   called, reads, reports, closes, closedBy, fault>>

-----------------------------------------------------------------------------
(* Helpers of connection.c *)

\* Seeded fault: connection_close without its test of the flag.
ConnectionCloseUntested(by) ==
    /\ flag' = flag \cup {"CLOSED"}
    /\ closedBy' = by
    /\ UvClose

\* connection_close: closes the handle the first time it is called.
ConnectionClose(by) ==
    IF "CLOSED" \in flag
    THEN UNCHANGED <<flag, handle, writes, closedBy, fault>>
    ELSE /\ flag' = flag \cup {"CLOSED"}
         /\ closedBy' = by
         /\ UvClose

\* connection_shutdown: the flag is set before uv_shutdown is tried, and
\* uv_shutdown refuses a handle that is closing.
ConnectionShutdown ==
    /\ flag' = flag \cup {"SHUTDOWN"}
    /\ shutreq' = IF handle = "open" THEN "pending" ELSE shutreq

\* releaseResource: frees the stream, destroys the listeners and gives back
\* the reference the factory made.
ReleaseResource ==
    /\ released' = TRUE
    /\ refcount' = refcount - 1

\* PHP code can call a method during an emission, which passes it the
\* object, or at any time when it holds a reference.
CanCall == fault = "none" /\ (cb # "none" \/ held > 0)

\* A method that dereferences resource->stream or the listeners after
\* releaseResource freed them.
UserFault ==
    /\ fault' = "user_after_free"
    /\ UNCHANGED <<flag, refcount, held, released, cb, uvVars, reads,
                   reports, closes, closedBy>>

-----------------------------------------------------------------------------
(* Methods called by PHP code *)

\* $connection->write($data)
Write ==
    /\ CanCall
    /\ "SHUTDOWN" \notin flag
    /\ IF released
       THEN UserFault
       ELSE /\ UvWriteAccepts
            /\ writes' = Append(writes, "queued")
            /\ UNCHANGED <<flag, refcount, held, released, cb, handle,
                           shutreq, called, reads, reports, closes,
                           closedBy, fault>>

\* $connection->end([$data]): when the write of $data is refused, the
\* connection is not shut down and the call returns FALSE.
End(withData) ==
    /\ CanCall
    /\ "SHUTDOWN" \notin flag
    /\ IF released
       THEN UserFault
       ELSE /\ withData => UvWriteAccepts
            /\ writes' = IF withData THEN Append(writes, "queued") ELSE writes
            /\ ConnectionShutdown
            /\ UNCHANGED <<refcount, held, released, cb, handle, called,
                           reads, reports, closes, closedBy, fault>>

\* Seeded fault: close() does not look at the SHUTDOWN flag.
CloseAfterEnd ==
    /\ CanCall
    /\ ConnectionClose("user")
    /\ UNCHANGED <<refcount, held, released, cb, shutreq, called, reads,
                   reports, closes>>

\* Seeded fault: close() sets the flag that makes connection_close return.
CloseFlagFirst ==
    /\ CanCall
    /\ "SHUTDOWN" \notin flag
    /\ flag' = flag \cup {"CLOSED"}
    /\ UNCHANGED <<refcount, held, released, cb, uvVars, reads, reports,
                   closes, closedBy, fault>>

\* $connection->close(): reads the flags, which outlive the stream.
Close ==
    /\ CanCall
    /\ "SHUTDOWN" \notin flag
    /\ ConnectionClose("user")
    /\ UNCHANGED <<refcount, held, released, cb, shutreq, called, reads,
                   reports, closes>>

\* isReadable, isWritable, getRemoteAddress, getLocalAddress, on, off,
\* removeListeners, getListeners and emit: they only matter here when the
\* memory they read is gone.
Inspect ==
    /\ CanCall
    /\ released
    /\ UserFault

\* A listener stores the connection it was given; PHP code drops it.
AddRef ==
    /\ CanCall
    /\ held < MaxHeld
    /\ refcount' = refcount + 1
    /\ held' = held + 1
    /\ UNCHANGED <<flag, released, cb, uvVars, reads, reports, closes,
                   closedBy, fault>>

DropRef ==
    /\ fault = "none"
    /\ held > 0
    /\ refcount' = refcount - 1
    /\ held' = held - 1
    /\ UNCHANGED <<flag, released, cb, uvVars, reads, reports, closes,
                   closedBy, fault>>

-----------------------------------------------------------------------------
(* Callbacks run by the event loop *)

LoopIdle == fault = "none" /\ cb = "none"

\* Every callback fetches the resource from handle->connection_zo.
ResourceGone == released \/ refcount = 0

LoopFault ==
    /\ fault' = "loop_after_free"
    /\ UNCHANGED <<flag, refcount, held, released, cb, uvVars, reads,
                   reports, closes, closedBy>>

\* read_cb with nread > 0
ReadData ==
    /\ LoopIdle
    /\ handle = "open"
    /\ reads < MaxReads
    /\ IF ResourceGone
       THEN LoopFault
       ELSE /\ cb' = "data"
            /\ reads' = reads + 1
            /\ UNCHANGED <<flag, refcount, held, released, uvVars, reports,
                           closes, closedBy, fault>>

\* read_cb with nread <= 0: end of file, an error, or 0 when the socket had
\* nothing to read; all three emit "error".
ReadError ==
    /\ LoopIdle
    /\ handle = "open"
    /\ IF ResourceGone
       THEN LoopFault
       ELSE /\ cb' = "error"
            /\ UNCHANGED <<flag, refcount, held, released, uvVars, reads,
                           reports, closes, closedBy, fault>>

\* Seeded fault: connection_write_cb emits nothing for a write that failed.
WriteCbSuccessOnly ==
    /\ LoopIdle
    /\ handle # "closed"
    /\ called < Len(writes)
    /\ writes[called + 1] # "queued"
    /\ called' = called + 1
    /\ reports' = IF writes[called + 1] = "ok"
                  THEN Append(reports, "ok") ELSE reports
    /\ cb' = "write"
    /\ UNCHANGED <<flag, refcount, held, released, handle, shutreq, writes,
                   reads, closes, closedBy, fault>>

\* connection_write_cb: one call per write request, in the order queued.
WriteCb ==
    /\ LoopIdle
    /\ handle # "closed"
    /\ called < Len(writes)
    /\ writes[called + 1] # "queued"
    /\ IF ResourceGone
       THEN LoopFault
       ELSE /\ called' = called + 1
            /\ reports' = Append(reports, writes[called + 1])
            /\ cb' = "write"
            /\ UNCHANGED <<flag, refcount, held, released, handle, shutreq,
                           writes, reads, closes, closedBy, fault>>

\* The listeners of "connect", "data" or "write" have returned.  Nothing
\* sets close_write_req, so connection_write_cb never closes.
Return ==
    /\ fault = "none"
    /\ cb \in {"connect", "data", "write"}
    /\ cb' = "none"
    /\ UNCHANGED <<flag, refcount, held, released, uvVars, reads, reports,
                   closes, closedBy, fault>>

\* The listeners of "error" have returned and read_cb closes.
ReturnError ==
    /\ fault = "none"
    /\ cb = "error"
    /\ cb' = "none"
    /\ ConnectionClose("read")
    /\ UNCHANGED <<refcount, held, released, shutreq, called, reads,
                   reports, closes>>

\* Seeded fault: the drained shutdown emits "close" itself.
ShutdownCbEmits ==
    /\ LoopIdle
    /\ shutreq = "pending"
    /\ handle = "open" /\ Queued = {}
    /\ shutreq' = "done"
    /\ closes' = closes + 1
    /\ ConnectionClose("shutdown")
    /\ UNCHANGED <<refcount, held, released, cb, called, reads, reports>>

\* connection_shutdown_cb: runs when no write is left to send, or, on a
\* handle being closed, after the cancelled writes were called back.
ShutdownCb ==
    /\ LoopIdle
    /\ shutreq = "pending"
    /\ \/ handle = "open" /\ Queued = {}
       \/ handle = "closing" /\ called = Len(writes)
    /\ IF ResourceGone
       THEN LoopFault
       ELSE /\ shutreq' = "done"
            /\ ConnectionClose("shutdown")
            /\ UNCHANGED <<refcount, held, released, cb, called, reads,
                           reports, closes>>

\* connection_close_cb: libuv runs it after every other callback.
CloseCb ==
    /\ LoopIdle
    /\ handle = "closing"
    /\ called = Len(writes)
    /\ shutreq # "pending"
    /\ IF ResourceGone
       THEN LoopFault
       ELSE /\ handle' = "closed"
            /\ cb' = "close"
            /\ closes' = closes + 1
            /\ UNCHANGED <<flag, refcount, held, released, shutreq, writes,
                           called, reads, reports, closedBy, fault>>

\* The listeners of "close" have returned.
ReturnClose ==
    /\ fault = "none"
    /\ cb = "close"
    /\ cb' = "none"
    /\ ReleaseResource
    /\ UNCHANGED <<flag, held, uvVars, reads, reports, closes, closedBy,
                   fault>>

-----------------------------------------------------------------------------

UserCall == Write \/ (\E d \in BOOLEAN : End(d)) \/ Close \/ Inspect
            \/ AddRef \/ DropRef

LoopStep == ReadData \/ ReadError \/ WriteCb \/ Return \/ ReturnError
            \/ ShutdownCb \/ CloseCb \/ ReturnClose

Next == UserCall \/ LoopStep \/ KernelWrite

\* The loop runs a callback that is ready, and listeners return.  A read is
\* not among them: the peer need not send anything.
LoopFairness ==
    /\ WF_vars(WriteCb)
    /\ WF_vars(ShutdownCb)
    /\ WF_vars(CloseCb)
    /\ WF_vars(Return \/ ReturnError \/ ReturnClose)

Spec == Init /\ [][Next]_vars /\ LoopFairness

-----------------------------------------------------------------------------
(* Properties *)

\* However reads, writes, shutdown, close and method calls interleave, no
\* callback of the loop finds the object or the stream freed, and uv_close
\* is never called on a handle already closing (connection_close has four
\* callers; each may run first).
NoLoopFault == fault \notin {"double_close", "loop_after_free"}

\* Every write that returned TRUE is reported by exactly one "write" event,
\* in order and with its own outcome, and none is still unreported when
\* "close" is emitted.
WritesReported ==
    /\ Len(reports) <= Len(writes)
    /\ \A i \in DOMAIN reports : reports[i] = writes[i] /\ reports[i] # "queued"
    /\ closes > 0 => Len(reports) = Len(writes)

\* Once end() was accepted on an open connection, close() cannot overtake
\* it: the connection is closed by the drained shutdown, which cancels no
\* write, or by the end of the peer's stream.
EndIsGraceful ==
    shutreq # "none" =>
        /\ closedBy # "user"
        /\ closedBy = "shutdown" =>
              \A i \in DOMAIN writes : writes[i] # "cancelled"

\* "close" is emitted at most once, and after it neither "data" nor "write".
CloseIsLast ==
    [][closes > 0 => UNCHANGED <<closes, reads, reports>>]_vars

\* A connection that was told to close is eventually released, whatever the
\* peer does and whatever listeners do meanwhile.  So is one that was told to
\* end, which PHP code can no longer close, when its peer keeps reading or
\* its kernel reports an error.
IsReleased ==
    /\ "CLOSED" \in flag ~> released
    /\ WF_vars(KernelWrite) => ("SHUTDOWN" \in flag ~> released)
=============================================================================
