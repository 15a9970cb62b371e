----------------------------- MODULE SecureStream -----------------------------
(***************************************************************************)
(* One Respond\Stream\Secure (stream/secure.c) on top of one connection    *)
(* (StreamConnection), with the handshake of the server that accepted it   *)
(* (server/secure.c) or of the connector that opened it                    *)
(* (connector/secure.c).                                                   *)
(*                                                                         *)
(* The secure stream hangs on the internal hooks of the connection: its    *)
(* callbacks run inside those of the connection, and the two objects free  *)
(* each other's reference when the connection closes.  PHP code sees the   *)
(* secure stream only, from the end of the handshake on, and calls it      *)
(* from the listeners of its events.  OpenSSL is modelled from the calls   *)
(* made: a handshake that wants more, ends or fails, and two memory BIOs   *)
(* that hold records.                                                      *)
(***************************************************************************)
EXTENDS StreamConnection

CONSTANT MaxRecords  \* bound: records one read brings

ASSUME RecordsAssumption == MaxRecords \in Nat

VARIABLES
    side,      \* "server" or "client"
    shaking,   \* secure_resource->handshake is set
    ssl,       \* the SSL object: handshake "going" or "done", or "failed"
    at,        \* place in connection_read_cb: "idle", "shake", "refuse", "flush"
               \* or "records"
    event,     \* the PHP code that runs: listeners of an event of the secure
               \* stream or handlers of the promise, or "none"
    given,     \* PHP code has been given the secure stream
    readBio,   \* records received and not read
    writeBio,  \* records written and not taken from the BIO
    answer,    \* some of these were put there by SSL_read
    freed,     \* releaseResource of secure.c ran
    srefs,     \* reference count of the secure stream
    sheld,     \* how many of these references PHP code keeps
    promise,   \* promise of connect(): "none" for a server
    connector  \* the connector: "none", "live" or "freed"

secureVars == <<side, shaking, ssl, at, event, given, readBio, writeBio, answer,
                freed, srefs, sheld, promise, connector>>
bios == <<readBio, writeBio, answer>>
objects == <<given, freed, srefs, sheld>>
outcome == <<promise, connector>>

\* accepted_cb of the server, which waits for the first message of its peer.
Accepted ==
    side = "server" /\ writes = <<>> /\ promise = "none" /\ connector = "none"

\* connection_cb of the connector, which sends the first message.
Connected ==
    /\ side = "client" /\ writes = <<"queued">>
    /\ promise = "pending" /\ connector = "live"

\* rp_stream_secure_factory, in either of them: each object has the reference
\* of its making, and the connection one more for the secure stream.
SecureInit ==
    /\ Accepted \/ Connected
    /\ flag = {} /\ refcount = 2 /\ held = 0 /\ released = FALSE /\ cb = "none"
    /\ handle = "open" /\ shutreq = "none" /\ called = 0
    /\ reads = 0 /\ reports = <<>> /\ closes = 0 /\ closedBy = "none" /\ fault = "none"
    /\ shaking = TRUE /\ ssl = "going" /\ at = "idle" /\ event = "none"
    /\ given = FALSE /\ readBio = 0 /\ writeBio = 0 /\ answer = FALSE
    /\ freed = FALSE /\ srefs = 1 /\ sheld = 0

Refuses == "SHUTDOWN" \in flag \/ handle # "open"

\* write_bio_to_socket with n records in the BIO.  Every pass of its loop
\* takes the records that fit a buffer out of the BIO before the connection is
\* asked: when it refuses, these are lost, the others stay, and nobody learns
\* of it.
WriteBioToSocket(n) ==
    \E k \in 1 .. n :
        IF Refuses
        THEN writeBio' = n - k /\ UNCHANGED <<writes, answer>>
        ELSE /\ writes' = writes \o [i \in 1 .. k |-> "queued"]
             /\ writeBio' = 0 /\ answer' = FALSE

\* The same, with a BIO that may be empty.
Flush(n) ==
    IF n = 0 THEN UNCHANGED <<writes, writeBio, answer>> ELSE WriteBioToSocket(n)

(***************************************************************************)
(* connection_read_cb, inside read_cb of the connection.                   *)
(***************************************************************************)

\* Data arrives: for the handshake, for PHP code, or both.
SecureRead ==
    /\ ReadData
    /\ readBio' \in readBio .. readBio + MaxRecords
    /\ at' = IF shaking THEN "shake" ELSE "records"
    /\ UNCHANGED <<side, shaking, ssl, event, objects, writeBio, answer, outcome>>

\* The handshake needs another message, after it has sent one or none.
ShakeWants ==
    /\ at = "shake" /\ ssl = "going"
    /\ \E n \in 0 .. 1 : Flush(writeBio + n)
    /\ at' = "idle" /\ cb' = "none"
    /\ UNCHANGED <<flag, refcount, held, released, handle, shutreq, called, reads,
                   reports, closes, closedBy, fault>>
    /\ UNCHANGED <<side, shaking, ssl, event, objects, readBio, outcome>>

\* The handshake fails, and an alert is sent, or it has failed before.
ShakeFails ==
    /\ at = "shake" /\ ssl # "done"
    /\ ssl' = "failed" /\ at' = "refuse"
    /\ \E n \in (IF ssl = "failed" THEN {0} ELSE 0 .. 1) : Flush(writeBio + n)
    /\ UNCHANGED <<flag, refcount, held, released, cb, handle, shutreq, called, reads,
                   reports, closes, closedBy, fault>>
    /\ UNCHANGED <<side, shaking, event, objects, readBio, outcome>>

\* The server closes the connection below then, the connector does nothing.
ShakeRefuse ==
    /\ at = "refuse" /\ at' = "idle" /\ cb' = "none"
    /\ IF side = "server"
       THEN ConnectionClose("secure")
       ELSE UNCHANGED <<flag, handle, writes, closedBy, fault>>
    /\ UNCHANGED <<refcount, held, released, shutreq, called, reads, reports, closes>>
    /\ UNCHANGED <<side, shaking, ssl, event, objects, bios, outcome>>

\* The handshake is done, with the last message still in the BIO or not.
ShakeDone ==
    /\ at = "shake" /\ ssl # "failed"
    /\ ssl' = "done" /\ shaking' = FALSE
    /\ writeBio' \in writeBio .. writeBio + 1
    /\ UNCHANGED answer

\* A server emits "connect".
ServerDone ==
    /\ side = "server" /\ ShakeDone
    /\ event' = "connect" /\ given' = TRUE
    /\ at' = "flush"
    /\ UNCHANGED <<vars, side, readBio, freed, srefs, sheld, promise, connector>>

\* The certificate matches the name: the promise is fulfilled.
ClientDone ==
    /\ side = "client" /\ ShakeDone
    /\ promise' = "fulfilled" /\ event' = "resolve"
    /\ given' = TRUE
    /\ at' = "flush"
    /\ UNCHANGED <<vars, side, readBio, freed, srefs, sheld, connector>>

\* It does not: the connection is closed and the promise is rejected.
ClientMismatch ==
    /\ side = "client" /\ ShakeDone
    /\ ConnectionClose("secure")
    /\ promise' = "rejected" /\ event' = "reject"
    /\ at' = "records"
    /\ UNCHANGED <<refcount, held, released, cb, shutreq, called, reads, reports, closes>>
    /\ UNCHANGED <<side, readBio, objects, connector>>

\* A peer without a certificate: nothing is settled.
ClientNoCertificate ==
    /\ side = "client" /\ ShakeDone
    /\ at' = "flush"
    /\ UNCHANGED <<vars, side, event, objects, readBio, outcome>>

\* The listeners of "connect", or the handlers of the promise, have returned.
ReturnAnnounced ==
    /\ fault = "none" /\ event \in {"connect", "resolve", "reject"}
    /\ event' = "none"
    /\ connector' = IF side = "client" THEN "freed" ELSE connector
    /\ UNCHANGED <<vars, side, shaking, ssl, at, objects, bios, promise>>

\* Seeded fault: the last message is sent by the next write.
ShakeFlushNot ==
    /\ fault = "none" /\ at = "flush" /\ event = "none"
    /\ at' = "records"
    /\ UNCHANGED <<vars, side, shaking, ssl, event, objects, bios, outcome>>

\* The last message of the handshake is sent after that.
ShakeFlush ==
    /\ fault = "none" /\ at = "flush" /\ event = "none"
    /\ at' = "records"
    /\ Flush(writeBio)
    /\ UNCHANGED <<flag, refcount, held, released, cb, handle, shutreq, called,
                   reads, reports, closes, closedBy, fault>>
    /\ UNCHANGED <<side, shaking, ssl, event, objects, readBio, outcome>>

\* One turn of the loop over SSL_read.
ReadRecord ==
    /\ fault = "none" /\ at = "records" /\ event = "none" /\ ssl = "done"
    /\ readBio > 0
    /\ readBio' = readBio - 1
    /\ event' = "data"
    /\ UNCHANGED <<vars, side, shaking, ssl, at, objects, writeBio, answer, outcome>>

\* The last turn: SSL_read finds no data.  It may have met a record that it
\* answers (a key update, an alert), or one that breaks the stream for good.
ReadEnds ==
    /\ at = "records" /\ event = "none" /\ (readBio = 0 \/ ssl = "failed")
    /\ \/ UNCHANGED <<ssl, writeBio, answer>>
       \/ /\ ssl = "done" /\ ssl' \in {"done", "failed"}
          /\ writeBio' = writeBio + 1 /\ answer' = TRUE
    /\ Return
    /\ at' = "idle"
    /\ UNCHANGED <<side, shaking, event, objects, readBio, outcome>>

ReturnData ==
    /\ fault = "none" /\ event = "data"
    /\ event' = "none"
    /\ UNCHANGED <<vars, side, shaking, ssl, at, objects, bios, outcome>>

(***************************************************************************)
(* The other callbacks.                                                    *)
(***************************************************************************)

\* The hooks of the connection lead to the secure stream, whatever became of it.
SecureGone == (freed \/ srefs = 0) /\ LoopIdle /\ handle # "closed"

\* connection_write_cb, for every write of the connection
SecureWriteCb ==
    /\ IF SecureGone /\ called < Len(writes)
       THEN LoopFault /\ UNCHANGED event
       ELSE WriteCb /\ event' = "write"
    /\ UNCHANGED <<side, shaking, ssl, at, objects, bios, outcome>>

ReturnWrite ==
    /\ event = "write" /\ Return
    /\ event' = "none"
    /\ UNCHANGED <<side, shaking, ssl, at, objects, bios, outcome>>

\* Seeded fault: "close" waits until the BIO is empty.
SecureCloseCbWaits ==
    /\ writeBio = 0
    /\ CloseCb /\ event' = "close"
    /\ UNCHANGED <<side, shaking, ssl, at, objects, bios, outcome>>

\* connection_close_cb
SecureCloseCb ==
    /\ IF SecureGone /\ handle = "closing"
       THEN LoopFault /\ UNCHANGED event
       ELSE CloseCb /\ event' = "close"
    /\ UNCHANGED <<side, shaking, ssl, at, objects, bios, outcome>>

\* Seeded fault: the secure stream keeps its reference to the connection.
ReturnSecureCloseKeeps ==
    /\ fault = "none" /\ event = "close"
    /\ event' = "none" /\ cb' = "none"
    /\ freed' = TRUE /\ srefs' = srefs - 1
    /\ released' = TRUE /\ refcount' = refcount - 1
    /\ UNCHANGED <<flag, held, uvVars, reads, reports, closes, closedBy, fault>>
    /\ UNCHANGED <<side, shaking, ssl, at, given, sheld, bios, outcome>>

\* releaseResource of secure.c, and after it that of connection.c
ReturnSecureClose ==
    /\ fault = "none" /\ event = "close"
    /\ event' = "none" /\ cb' = "none"
    /\ freed' = TRUE /\ srefs' = srefs - 1
    /\ released' = TRUE /\ refcount' = refcount - 2
    /\ UNCHANGED <<flag, held, uvVars, reads, reports, closes, closedBy, fault>>
    /\ UNCHANGED <<side, shaking, ssl, at, given, sheld, bios, outcome>>

\* Callbacks and system steps that only concern the connection; the secure
\* stream has no hook for "error".
Below ==
    /\ ReadError \/ ReturnError \/ ShutdownCb \/ KernelWrite
    /\ UNCHANGED secureVars

(***************************************************************************)
(* Methods of the secure stream.                                           *)
(***************************************************************************)

\* PHP code runs: listeners that are passed the secure stream, or, with a
\* reference it kept, any listener and any other callback of the loop.
CanCallSecure ==
    /\ fault = "none"
    /\ \/ given /\ event \in {"connect", "resolve", "data", "write", "close"}
       \/ sheld > 0 /\ (event # "none" \/ cb = "none")

\* Every method uses the SSL object or the connection; write() stands for all.
UseFreed == freed /\ UserFault /\ UNCHANGED secureVars

SecureUnchanged ==
    UNCHANGED <<side, shaking, ssl, at, event, objects, readBio, outcome>>

\* SSL_write makes a record, unless the stream is broken.
CanWrite == ~freed /\ ssl = "done" /\ Len(writes) < MaxWrites /\ writeBio < MaxWrites

\* write() returns TRUE whatever the connection makes of the records.
SecureWrite ==
    /\ CanCallSecure
    /\ \/ UseFreed
       \/ /\ CanWrite
          /\ WriteBioToSocket(writeBio + 1)
          /\ UNCHANGED <<flag, refcount, held, released, cb, handle, shutreq, called,
                         reads, reports, closes, closedBy, fault>>
          /\ SecureUnchanged

\* end(), with data or without, which does not test the SHUTDOWN flag before
\* it writes.
SecureEnd(withData) ==
    /\ CanCallSecure /\ ~freed
    /\ IF withData
       THEN CanWrite /\ WriteBioToSocket(writeBio + 1)
       ELSE UNCHANGED <<writeBio, writes, answer>>
    /\ IF "SHUTDOWN" \in flag THEN UNCHANGED <<flag, shutreq>> ELSE ConnectionShutdown
    /\ UNCHANGED <<refcount, held, released, cb, handle, called,
                   reads, reports, closes, closedBy, fault>>
    /\ SecureUnchanged

\* Seeded fault: close() releases the stream at once.
SecureCloseFrees ==
    /\ CanCallSecure /\ ~freed
    /\ ConnectionClose("secure")
    /\ freed' = TRUE /\ srefs' = srefs - 1
    /\ UNCHANGED <<refcount, held, released, cb, shutreq, called, reads, reports, closes>>
    /\ UNCHANGED <<side, shaking, ssl, at, event, given, sheld, bios, outcome>>

\* close() goes to connection_close directly: it does not test SHUTDOWN.
SecureClose ==
    /\ CanCallSecure /\ ~freed
    /\ ConnectionClose("secure")
    /\ UNCHANGED <<refcount, held, released, cb, shutreq, called, reads,
                   reports, closes, bios>>
    /\ UNCHANGED <<side, shaking, ssl, at, event, objects, outcome>>

KeepRef ==
    /\ CanCallSecure /\ sheld < MaxHeld
    /\ sheld' = sheld + 1 /\ srefs' = srefs + 1
    /\ UNCHANGED <<vars, side, shaking, ssl, at, event, given, freed, bios, outcome>>

LoseRef ==
    /\ CanCallSecure /\ sheld > 0
    /\ sheld' = sheld - 1 /\ srefs' = srefs - 1
    /\ UNCHANGED <<vars, side, shaking, ssl, at, event, given, freed, bios, outcome>>

-----------------------------------------------------------------------------

SecureCall == SecureWrite \/ (\E d \in BOOLEAN : SecureEnd(d)) \/ SecureClose
              \/ KeepRef \/ LoseRef

Handshake == ShakeWants \/ ShakeFails \/ ShakeRefuse \/ ServerDone \/ ClientDone
             \/ ClientMismatch \/ ClientNoCertificate \/ ReturnAnnounced \/ ShakeFlush

Records == ReadRecord \/ ReadEnds \/ ReturnData

SecureNext == SecureCall \/ SecureRead \/ Handshake \/ Records \/ SecureWriteCb
              \/ ReturnWrite \/ SecureCloseCb \/ ReturnSecureClose \/ Below

allVars == <<vars, secureVars>>

\* The loop runs a callback that is ready, C functions go on and listeners
\* return.  Neither a read nor the taking of a write is among them.
SecureFairness ==
    /\ WF_allVars(Handshake \/ Records)
    /\ WF_allVars(SecureWriteCb)
    /\ WF_allVars(SecureCloseCb)
    /\ WF_allVars(ReturnWrite \/ ReturnSecureClose)
    /\ WF_allVars((ShutdownCb \/ ReturnError) /\ UNCHANGED secureVars)

SecureSpec == SecureInit /\ [][SecureNext]_allVars /\ SecureFairness

-----------------------------------------------------------------------------
(* Properties *)

SecureTypeOK ==
    /\ closedBy \in {"none", "read", "shutdown", "secure"}
    /\ refcount \in 0 .. 2
    /\ side \in {"server", "client"}
    /\ shaking \in BOOLEAN
    /\ ssl \in {"going", "done", "failed"}
    /\ at \in {"idle", "shake", "refuse", "flush", "records"}
    /\ event \in {"none", "connect", "resolve", "reject", "data", "write", "close"}
    /\ given \in BOOLEAN /\ freed \in BOOLEAN /\ answer \in BOOLEAN
    /\ readBio \in Nat /\ writeBio \in Nat
    /\ srefs \in Nat /\ sheld \in 0 .. MaxHeld
    /\ promise \in {"none", "pending", "fulfilled", "rejected"}
    /\ connector \in {"none", "live", "freed"}

\* Between two callbacks no record waits in the BIO for a connection that
\* would take it: the last message of the handshake, which is sent only after
\* the listeners of "connect" ran, and what these listeners wrote before it.
\* The exception is what SSL_read answers by itself (a key update, an alert):
\* connection_read_cb never sends it, and it waits for the next write().
BioIsFlushed ==
    at = "idle" /\ event = "none" /\ writeBio > 0 => Refuses \/ answer

\* The secure stream and the connection release each other exactly once: when
\* both are released, only PHP code still has references.  Until then the
\* connection has one of its own and one for the secure stream.  The connector
\* is there while the handlers of its promise run.
ReleasedTogether ==
    /\ SecureTypeOK
    /\ released = freed
    /\ refcount = (IF released THEN 0 ELSE 2)
    /\ srefs = (IF freed THEN sheld ELSE sheld + 1)
    /\ event \in {"resolve", "reject"} => connector = "live"

\* A secure stream whose connection was told to close, by whatever side, is
\* released with it, even when records are left in the BIOs or the handshake
\* never ended.
SecureCloseReleases == "CLOSED" \in flag ~> (freed /\ released)
=============================================================================
