--------------------------- MODULE HttpConnection ---------------------------
(***************************************************************************)
(* A connection of Respond\Server\HTTP (server/http.c): the connection of  *)
(* StreamConnection, with a C hook of the HTTP server on its "data" event. *)
(* The hook looks for a request in what one read returned, and does so     *)
(* before the PHP listeners of "data".                                     *)
(*                                                                         *)
(* What the peer sends is counted in cells, and a read returns any number  *)
(* of them.  phr_parse_request is external: it finds a request when its    *)
(* data begins with the whole header of one, and fails otherwise.          *)
(***************************************************************************)
EXTENDS StreamConnection, Functions

CONSTANTS
    Requests,   \* the requests the peer sends, in order: the cells sent before
                \* each, and those of its header; its body is what follows
    Sent,       \* cells the peer sends
    HeaderMax   \* RP_HTTP_HEADER_MAX in cells

ASSUME RequestsAssumption ==
    /\ Requests \in Seq([start : Nat, header : Nat \ {0}])
    /\ \A q, r \in DOMAIN Requests :
          q < r => Requests[q].start + Requests[q].header <= Requests[r].start
    /\ Sent \in Nat /\ HeaderMax \in Nat

VARIABLES
    hooked,   \* the server the HTTP server was made for runs C hooks
    pos,      \* cells the connection has read
    parsed,   \* requests http_parse_header reported, in order
    unset,    \* times the hook printed and destroyed a `parsed` never set
    chunks    \* history: the reads, as the cells they began after and ended with

http == <<hooked, pos, parsed, unset, chunks>>

\* accepted_cb hooks "data" before any listener of "connect" runs.  A TCP
\* server calls the hooks of its "connect" event, a pipe server only the PHP
\* listeners: an HTTP server on it never learns of a connection.
HttpInit ==
    /\ Init
    /\ hooked \in BOOLEAN
    /\ pos = 0 /\ parsed = <<>> /\ unset = 0 /\ chunks = <<>>

\* What phr_parse_request finds in a read of n cells: one request or none.
Found(n) ==
    {r \in DOMAIN Requests : Requests[r].start = pos /\ Requests[r].header <= n}

\* Seeded fault: a read that fills the buffer is refused.
ParseHeaderFull(n) == IF n >= HeaderMax THEN {} ELSE Found(n)

\* http_parse_header: the buffer is made for each read, and released with it
\* whether the header was whole, partial, bad or too long.
ParseHeader(n) == IF n > HeaderMax THEN {} ELSE Found(n)

\* http_connection_read_cb for a read of n cells: the result of the parser is
\* not looked at, and the flag is never set to RP_HTTP_PARSE_BODY.  What the
\* use of a `parsed` that was never set does is counted, not modelled.
HttpRead(n) ==
    /\ pos' = pos + n
    /\ chunks' = Append(chunks, <<pos, pos + n>>)
    /\ \/ ~hooked /\ UNCHANGED <<parsed, unset>>
       \/ /\ hooked /\ \E r \in ParseHeader(n) : parsed' = Append(parsed, r)
          /\ UNCHANGED unset
       \/ /\ hooked /\ ParseHeader(n) = {} /\ unset' = unset + 1
          /\ UNCHANGED parsed
    /\ UNCHANGED hooked

\* ReadData runs the hook; no other step of the connection does.
HttpNext ==
    /\ Next
    /\ IF reads' = reads THEN UNCHANGED http
       ELSE \E n \in 1 .. Sent - pos : HttpRead(n)

HttpSpec == HttpInit /\ [][HttpNext]_<<vars, http>> /\ LoopFairness

-----------------------------------------------------------------------------
(* Properties *)

\* Requests that begin where a read begins, end their header within it, and
\* come in no more than the buffer holds with all that was read behind them.
Whole ==
    {r \in DOMAIN Requests : \E c \in Range(chunks) :
        /\ c[1] = Requests[r].start
        /\ c[2] - c[1] \in Requests[r].header .. HeaderMax}

\* However the peer's bytes are cut into reads, the HTTP server reports
\* exactly the requests that come whole in one read, each once and in order.
\* It loses those that a read splits, that follow another in the read, or
\* whose body made the read too long for the buffer; a read that gives no
\* request makes it use a variable it never set.
WholeRequestsOnly ==
    IF hooked
    THEN /\ Range(parsed) = Whole
         /\ \A i, j \in DOMAIN parsed : i < j => parsed[i] < parsed[j]
         /\ unset = Len(chunks) - Len(parsed)
    ELSE parsed = <<>> /\ unset = 0
=============================================================================
