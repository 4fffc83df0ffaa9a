----------------------------- MODULE TCPStream ------------------------------
(***************************************************************************)
(* One TCPClient (reactor/src/tcp_client.cpp) and the TCPConn of its       *)
(* server (reactor/src/tcp_conn.cpp, with the buffers of reactor_buf.cpp   *)
(* and io_buf.cpp), over a byte stream: messages are framed by a header    *)
(* with the length of the body, read and written in pieces, kept in        *)
(* buffers of limited size, and carried over a connection that can break   *)
(* and be made again.  The agent's DNS and report clients and the qps      *)
(* tests use it in this way: the client asks, the server answers with one  *)
(* message.                                                                *)
(*                                                                         *)
(* A message is a sequence of units [m, k]: HeadLen units of header, then  *)
(* those of the body.  The units are what a short read or write can        *)
(* separate.  The loops of do_read over the messages of the buffer take    *)
(* one step ("parse") for each message: nothing else of the same process   *)
(* runs between them, only the network and the peer.                       *)
(***************************************************************************)
EXTENDS Integers, Sequences

CONSTANTS
    MaxMsgs,   \* bound: requests of the client
    ReqBody,   \* by request: units of its body; 0 if every field is 0
    RespBody,  \* by answer, and for 0 (the answer to garbage): units of body
    HeadLen,   \* units of a header (8 bytes)
    MsgLimit,  \* MESSAGE_LENGTH_LIMIT: units of body a server takes
    CObufCap,  \* TCPClient::_obuf (4M)
    CIbufCap,  \* TCPClient::_ibuf (4M)
    SObufCap,  \* the largest IOBuf of the pool, for TCPConn::obuf (8M)
    WireCap,   \* units the kernel takes for one direction
    MaxCuts    \* bound: connections that the network breaks

Msg == 1 .. MaxMsgs

ASSUME StreamAssumption ==
    /\ MaxMsgs \in Nat /\ MaxCuts \in Nat
    /\ ReqBody \in [Msg -> Nat] /\ RespBody \in [0 .. MaxMsgs -> Nat]
    /\ HeadLen \in Nat /\ HeadLen > 1 /\ MsgLimit \in Nat
    /\ CObufCap \in Nat /\ CIbufCap \in Nat /\ SObufCap \in Nat /\ WireCap \in Nat
    /\ \A m \in 0 .. MaxMsgs : HeadLen + RespBody[m] <= SObufCap

VARIABLES
    client,    \* "ok", or how the process of the client ended
    connected, \* TCPClient::connected; never initialised by the constructor
    watch,     \* EPOLLIN is registered with read_callback
    out,       \* EPOLLOUT: "none", or "delay" (connection_delay), or "write"
    c_obuf, c_ibuf, c_pc,
    link,      \* the connection: "pending", "open" or "dead"
    c2s, s2c,  \* units in the kernel, either way
    server,    \* "up", or "aborted" by a failed assertion
    s_obuf, s_ibuf, s_pc,
    s_head,    \* obuf.head # 0, left by the rollback of send_message
    asked,     \* history: requests send_message has taken
    handled,   \* history: requests the server's handler was given
    got,       \* history: answers the client's handler was given
    partial,   \* history: those of which a part had not arrived
    torn,      \* history: a connection ended with a request half written
    stale,     \* history: a connection ended with half a header in c_ibuf
    misled,    \* history: send_message displaced connection_delay
    gaveup,    \* history: connection_delay found the connection refused
    garbled,   \* history: the server took other units for a header
    toolong,   \* history: the server closed for a request over MsgLimit
    refused,   \* history: answers the server could not put into obuf
    cuts       \* history: connections the network broke

cvars == <<client, connected, watch, out, c_obuf, c_ibuf, c_pc>>
svars == <<server, s_obuf, s_ibuf, s_pc, s_head>>
net   == <<link, c2s, s2c>>
chist == <<asked, got, partial, torn, stale, misled, gaveup>>
shist == <<handled, garbled, toolong, refused>>
vars  == <<cvars, svars, net, chist, shist, cuts>>

Unit == [m : 0 .. MaxMsgs, k : Nat]

\* A message m with a body of b units, as send_message lays it out.
Frame(m, b) == [k \in 1 .. HeadLen + b |-> [m |-> m, k |-> k]]

Drop(s, n) == SubSeq(s, n + 1, Len(s))

\* The next message starts at the head of the buffer.
Aligned(buf) == \A k \in 1 .. HeadLen : buf[k].k = k /\ buf[k].m = buf[1].m

\* The constructor: connect() is under way or has succeeded.
Init ==
    /\ client = "ok"
    /\ \/ link = "pending" /\ connected \in BOOLEAN /\ watch = FALSE /\ out = "delay"
       \/ link = "open" /\ connected = TRUE /\ watch = TRUE /\ out = "none"
    /\ c_obuf = <<>> /\ c_ibuf = <<>> /\ c_pc = "idle"
    /\ c2s = <<>> /\ s2c = <<>>
    /\ server = "up" /\ s_obuf = <<>> /\ s_ibuf = <<>> /\ s_pc = "idle"
    /\ s_head = FALSE
    /\ asked = 0 /\ handled = <<>> /\ got = <<>> /\ partial = {}
    /\ torn = FALSE /\ stale = FALSE /\ misled = FALSE /\ gaveup = FALSE
    /\ garbled = FALSE /\ toolong = FALSE /\ refused = {} /\ cuts = 0

-----------------------------------------------------------------------------
(* TCPClient.                                                               *)

MutNoWriteEvent == connected' = TRUE /\ watch' = TRUE /\ out' = "none"

MutNoReadEvent ==
    /\ connected' = TRUE /\ watch' = FALSE
    /\ out' = IF c_obuf # <<>> THEN "write" ELSE "none"

\* The events after connect() succeeded: reads, and writes if there is a rest.
Registered ==
    /\ connected' = TRUE /\ watch' = TRUE
    /\ out' = IF c_obuf # <<>> THEN "write" ELSE "none"

\* do_connect: at once, later, or the process ends.
do_connect ==
    \/ server = "up" /\ link' = "open" /\ Registered /\ client' = client
    \/ /\ link' = "pending" /\ out' = "delay"
       /\ connected' = FALSE /\ watch' = FALSE /\ client' = client
    \/ /\ client' = "exited" /\ link' = "dead"
       /\ connected' = FALSE /\ watch' = FALSE /\ out' = "none"

\* clean_conn keeps both buffers; the server has a new TCPConn afterwards.
clean_conn ==
    /\ do_connect
    /\ torn' = (torn \/ (c_obuf # <<>> /\ Head(c_obuf).k # 1))
    /\ stale' = (stale \/ c_ibuf # <<>>)
    /\ c2s' = <<>> /\ s2c' = <<>>
    /\ s_obuf' = <<>> /\ s_ibuf' = <<>> /\ s_pc' = "idle" /\ s_head' = FALSE
    /\ UNCHANGED <<c_obuf, c_ibuf, c_pc, server, asked, got, partial, misled, gaveup,
                   shist, cuts>>

MutBodyFits(m) == ReqBody[m] <= CObufCap - Len(c_obuf)

Fits(m) == HeadLen + ReqBody[m] <= CObufCap - Len(c_obuf)

\* send_message; one that is refused (not connected, no room) changes nothing.
client_send_message ==
    /\ client = "ok" /\ c_pc = "idle" /\ asked < MaxMsgs
    /\ connected /\ Fits(asked + 1)
    /\ asked' = asked + 1
    /\ c_obuf' = c_obuf \o Frame(asked + 1, ReqBody[asked + 1])
    /\ out' = IF c_obuf = <<>> THEN "write" ELSE out
    /\ misled' = (misled \/ (out = "delay" /\ c_obuf = <<>>))
    /\ UNCHANGED <<client, connected, watch, c_ibuf, c_pc, svars, net,
                   got, partial, torn, stale, gaveup, shist, cuts>>

connection_delay ==
    /\ client = "ok" /\ c_pc = "idle" /\ out = "delay" /\ link # "pending"
    /\ \/ link = "open" /\ Registered /\ gaveup' = gaveup
       \/ link = "dead" /\ out' = "none" /\ gaveup' = TRUE /\ UNCHANGED <<connected, watch>>
    /\ UNCHANGED <<client, c_obuf, c_ibuf, c_pc, svars, net,
                   asked, got, partial, torn, stale, misled, shist, cuts>>

client_do_write ==
    /\ client = "ok" /\ c_pc = "idle" /\ out = "write"
    /\ \/ /\ link = "open"
          /\ \E n \in 1 .. Len(c_obuf) :
               /\ Len(c2s) + n <= WireCap
               /\ c2s' = c2s \o SubSeq(c_obuf, 1, n)
               /\ c_obuf' = Drop(c_obuf, n)
          /\ out' = IF c_obuf' = <<>> THEN "none" ELSE out
          /\ UNCHANGED <<client, connected, watch, c_ibuf, c_pc, svars, link, s2c,
                         chist, shist, cuts>>
       \/ link = "dead" /\ clean_conn

client_do_read ==
    /\ client = "ok" /\ c_pc = "idle" /\ watch
    /\ \/ \E n \in 1 .. Len(s2c) :
            /\ s2c' = Drop(s2c, n)
            /\ IF n <= CIbufCap - Len(c_ibuf)
               THEN /\ c_ibuf' = c_ibuf \o SubSeq(s2c, 1, n)
                    /\ c_pc' = "parse" /\ client' = client
               ELSE client' = "full" /\ UNCHANGED <<c_ibuf, c_pc>>
            /\ UNCHANGED <<connected, watch, out, c_obuf, svars, link, c2s,
                           chist, shist, cuts>>
       \/ link = "dead" /\ s2c = <<>> /\ clean_conn

MutPopHeader(m) ==
    /\ got' = Append(got, m)
    /\ IF Len(c_ibuf) >= HeadLen + RespBody[m]
       THEN c_ibuf' = Drop(c_ibuf, HeadLen) /\ UNCHANGED <<client, partial>>
       ELSE /\ client' = "overrun" /\ partial' = partial \cup {m}
            /\ c_ibuf' = c_ibuf

\* The header is enough for the client to run the handler, whatever of the
\* body has arrived, and to pop the length it gives: after a part of an answer
\* _ibuf.adjust() moves a negative number of bytes, and the process ends.
client_handle(m) ==
    /\ got' = Append(got, m)
    /\ IF Len(c_ibuf) >= HeadLen + RespBody[m]
       THEN c_ibuf' = Drop(c_ibuf, HeadLen + RespBody[m]) /\ UNCHANGED <<client, partial>>
       ELSE /\ client' = "overrun" /\ partial' = partial \cup {m}
            /\ c_ibuf' = c_ibuf

\* Other units taken for a header end the client: what it makes of them is not
\* followed.
client_parse ==
    /\ client = "ok" /\ c_pc = "parse"
    /\ \/ /\ Len(c_ibuf) < HeadLen
          /\ c_pc' = "idle" /\ UNCHANGED <<client, c_ibuf, got, partial>>
       \/ /\ Len(c_ibuf) >= HeadLen /\ Aligned(c_ibuf)
          /\ client_handle(c_ibuf[1].m) /\ c_pc' = c_pc
       \/ /\ Len(c_ibuf) >= HeadLen /\ ~Aligned(c_ibuf)
          /\ client' = "garbled" /\ UNCHANGED <<c_ibuf, c_pc, got, partial>>
    /\ UNCHANGED <<connected, watch, out, c_obuf, svars, net,
                   asked, torn, stale, misled, gaveup, shist, cuts>>

-----------------------------------------------------------------------------
(* TCPConn.  EPOLLOUT is registered while obuf holds data.                  *)

\* The connection is gone for the server: clean_conn, or the process ended.
ConnGone ==
    /\ link' = "dead" /\ c2s' = <<>>
    /\ s_obuf' = <<>> /\ s_ibuf' = <<>> /\ s_pc' = "idle" /\ s_head' = FALSE

\* An assertion fails: the server process ends, with all its connections.
Abort == server' = "aborted" /\ ConnGone

\* send_message of the handler, after the request left the buffer as rest.
\* The rollback pops the header's length at the front of obuf.
conn_send_message(m, rest) ==
    LET b == RespBody[m]
        room == SObufCap - Len(s_obuf)
    IN  IF s_head
        THEN Abort /\ refused' = refused
        ELSE /\ \/ /\ room >= HeadLen + b
                   /\ s_obuf' = s_obuf \o Frame(m, b)
                   /\ UNCHANGED <<s_head, refused>>
                \/ /\ room < HeadLen
                   /\ refused' = refused \cup {m} /\ UNCHANGED <<s_obuf, s_head>>
                \/ /\ HeadLen <= room /\ room < HeadLen + b
                   /\ s_obuf' = Drop(s_obuf \o Frame(m, 0), HeadLen)
                   /\ s_head' = TRUE /\ refused' = refused \cup {m}
             /\ s_ibuf' = rest /\ UNCHANGED <<server, s_pc, link, c2s>>

conn_do_read ==
    /\ server = "up" /\ link = "open" /\ s_pc = "idle"
    /\ \E n \in 1 .. Len(c2s) :
         /\ s_ibuf' = s_ibuf \o SubSeq(c2s, 1, n)
         /\ c2s' = Drop(c2s, n)
    /\ s_pc' = "parse"
    /\ UNCHANGED <<cvars, server, s_obuf, s_head, link, s2c, chist, shist, cuts>>

\* The loop waits for the rest of a message.
conn_wait ==
    /\ s_pc' = "idle"
    /\ UNCHANGED <<server, s_obuf, s_ibuf, s_head, link, c2s, shist>>

MutAbortsDrained(m, n) ==
    /\ handled' = Append(handled, m) /\ UNCHANGED <<garbled, toolong>>
    /\ IF n = Len(s_ibuf)
       THEN Abort /\ refused' = refused
       ELSE conn_send_message(m, Drop(s_ibuf, n))

\* One request: pop the header, run the handler, pop the body.  Popping the
\* header of a request without a body gives the emptied buffer back to the
\* pool, and the second pop finds none.
conn_handle(m, n) ==
    /\ handled' = Append(handled, m) /\ UNCHANGED <<garbled, toolong>>
    /\ IF n = HeadLen /\ Len(s_ibuf) = HeadLen
       THEN Abort /\ refused' = refused
       ELSE conn_send_message(m, Drop(s_ibuf, n))

\* Other units taken for a header: its length is out of range and the
\* connection closed; or more than there is and awaited; or some of the units
\* that follow are taken for a body, and may reach a handler.
conn_misread ==
    /\ garbled' = TRUE /\ UNCHANGED <<handled, toolong>>
    /\ \/ ConnGone /\ UNCHANGED <<server, refused>>
       \/ s_pc' = "idle" /\ UNCHANGED <<server, s_obuf, s_ibuf, s_head, link, c2s, refused>>
       \/ \E n \in HeadLen .. Len(s_ibuf) :
            IF n = HeadLen /\ Len(s_ibuf) = HeadLen
            THEN Abort /\ refused' = refused
            ELSE \/ conn_send_message(0, Drop(s_ibuf, n))
                 \/ /\ s_ibuf' = Drop(s_ibuf, n)
                    /\ UNCHANGED <<server, s_obuf, s_pc, s_head, link, c2s, refused>>

\* A length over MESSAGE_LENGTH_LIMIT closes the connection, as soon as the
\* header is there; send_message of the client has no such limit.
conn_refuse ==
    /\ ConnGone
    /\ toolong' = TRUE /\ UNCHANGED <<server, handled, garbled, refused>>

MutWhole(n) == TRUE

\* The body of the message has arrived as well.
Whole(n) == Len(s_ibuf) >= n

conn_parse ==
    /\ server = "up" /\ s_pc = "parse"
    /\ LET m == s_ibuf[1].m
           n == HeadLen + ReqBody[m]
       IN  \/ Len(s_ibuf) < HeadLen /\ conn_wait
           \/ /\ Len(s_ibuf) >= HeadLen /\ Aligned(s_ibuf)
              /\ \/ ReqBody[m] > MsgLimit /\ conn_refuse
                 \/ ReqBody[m] <= MsgLimit /\ Whole(n) /\ conn_handle(m, n)
                 \/ ReqBody[m] <= MsgLimit /\ ~Whole(n) /\ conn_wait
           \/ Len(s_ibuf) >= HeadLen /\ ~Aligned(s_ibuf) /\ conn_misread
    /\ UNCHANGED <<cvars, s2c, chist, cuts>>

\* write2fd asserts that obuf starts at its first byte.
conn_do_write ==
    /\ server = "up" /\ link = "open" /\ s_pc = "idle" /\ s_obuf # <<>>
    /\ IF s_head
       THEN Abort /\ s2c' = s2c
       ELSE /\ \E n \in 1 .. Len(s_obuf) :
                 /\ Len(s2c) + n <= WireCap
                 /\ s2c' = s2c \o SubSeq(s_obuf, 1, n)
                 /\ s_obuf' = Drop(s_obuf, n)
            /\ UNCHANGED <<server, s_ibuf, s_pc, s_head, link, c2s>>
    /\ UNCHANGED <<cvars, chist, shist, cuts>>

-----------------------------------------------------------------------------
(* The network.                                                             *)

\* A connect() under way succeeds, or is refused or times out.
Established ==
    /\ link = "pending"
    /\ link' \in IF server = "up" THEN {"open", "dead"} ELSE {"dead"}
    /\ UNCHANGED <<cvars, svars, c2s, s2c, chist, shist, cuts>>

\* The connection breaks; some of what was sent to the client is lost.
Cut ==
    /\ link = "open" /\ cuts < MaxCuts
    /\ cuts' = cuts + 1
    /\ \E n \in 0 .. Len(s2c) : s2c' = SubSeq(s2c, 1, n)
    /\ ConnGone
    /\ UNCHANGED <<cvars, server, chist, shist>>

ClientStep == connection_delay \/ client_do_write \/ client_do_read \/ client_parse

ServerStep == conn_do_read \/ conn_parse \/ conn_do_write

Next == client_send_message \/ ClientStep \/ ServerStep \/ Established \/ Cut

Spec == Init /\ [][Next]_vars

\* The event loops call what epoll_wait reports, level triggered; connect()
\* ends one way or the other.
LiveSpec ==
    /\ Spec
    /\ WF_vars(connection_delay) /\ WF_vars(client_do_write)
    /\ WF_vars(client_do_read) /\ WF_vars(client_parse)
    /\ WF_vars(conn_do_read) /\ WF_vars(conn_parse) /\ WF_vars(conn_do_write)
    /\ WF_vars(Established)

-----------------------------------------------------------------------------
(* Properties.                                                              *)

\* The type invariant: with the sizes of the buffers, client and server.
TypeOK ==
    /\ client \in {"ok", "exited", "full", "overrun", "garbled"}
    /\ connected \in BOOLEAN /\ watch \in BOOLEAN
    /\ out \in {"none", "delay", "write"}
    /\ c_obuf \in Seq(Unit) /\ Len(c_obuf) <= CObufCap
    /\ c_ibuf \in Seq(Unit) /\ Len(c_ibuf) <= CIbufCap
    /\ c_pc \in {"idle", "parse"}
    /\ link \in {"pending", "open", "dead"}
    /\ c2s \in Seq(Unit) /\ s2c \in Seq(Unit)
    /\ server \in {"up", "aborted"}
    /\ s_obuf \in Seq(Unit) /\ Len(s_obuf) <= SObufCap
    /\ s_ibuf \in Seq(Unit) /\ s_pc \in {"idle", "parse"} /\ s_head \in BOOLEAN
    /\ asked \in 0 .. MaxMsgs /\ handled \in Seq(Msg) /\ got \in Seq(0 .. MaxMsgs)
    /\ torn \in BOOLEAN /\ stale \in BOOLEAN /\ misled \in BOOLEAN
    /\ gaveup \in BOOLEAN /\ garbled \in BOOLEAN /\ toolong \in BOOLEAN
    /\ partial \subseteq 0 .. MaxMsgs
    /\ refused \subseteq 0 .. MaxMsgs /\ cuts \in 0 .. MaxCuts

Increasing(s) == \A i, j \in 1 .. Len(s) : i < j => s[i] < s[j]

\* However the units were split, merged and buffered, the server's do_read
\* hands a handler whole requests, each at most once and in the order sent;
\* it misreads the stream only if clean_conn of the client kept the rest of a
\* half-written request for the next connection.
RequestsWhole ==
    /\ garbled => torn
    /\ Increasing(handled)
    /\ \A i \in 1 .. Len(handled) : handled[i] <= asked

\* The client's do_read runs its handler at most once for each answer, in order
\* and for requests that were handled.  It does not wait for the body: the
\* handler can be given an answer of which a part is still to come, but only
\* as the last one, since the client does not live on.  It misreads the stream
\* only if clean_conn kept half a header of the connection before.
AnswersGiven ==
    /\ client = "garbled" => stale
    /\ partial # {} => client = "overrun" /\ partial = {got[Len(got)]}
    /\ ~garbled => /\ Increasing(got)
                   /\ \A i \in 1 .. Len(got) : \E j \in 1 .. Len(handled) : got[i] = handled[j]

\* The events of the client match its state through connects, breaks and the
\* partial writes: do_write always has data, do_read a connection, waiting
\* data a write event; a connection without its read event is one whose
\* connection_delay send_message displaced, trusting a connected that nobody
\* had set, and a client without events is one whose connect() failed.
EventsMatch ==
    client = "ok" =>
      /\ out = "write" => c_obuf # <<>>
      /\ connected /\ c_obuf # <<>> => out = "write"
      /\ watch => connected
      /\ connected /\ out # "delay" /\ ~watch => misled \/ gaveup
      /\ out = "none" /\ ~watch => misled \/ gaveup

\* The server process dies of this client only by a request without a body, by
\* an answer whose body found no room after its header, or by a torn stream.
AbortCauses ==
    server = "aborted" =>
      \/ \E i \in 1 .. Len(handled) : ReqBody[handled[i]] = 0
      \/ refused # {}
      \/ torn

\* Every request that send_message took is answered, unless a connection broke
\* or was refused, the read event was never registered, the answer found no
\* room, the server closed the connection for a request over its limit, or one
\* of the processes ended (the client's after a part of an answer, too).
RequestAnswered ==
    \A m \in Msg :
      (asked >= m) ~> \/ \E i \in 1 .. Len(got) : got[i] = m
                      \/ cuts > 0 \/ gaveup \/ misled \/ refused # {} \/ toolong
                      \/ client # "ok" \/ server # "up"
=============================================================================
