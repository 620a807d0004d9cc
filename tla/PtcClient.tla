----------------------------- MODULE PtcClient -----------------------------
(***************************************************************************)
(* libhesai/PtcClient and libhesai/PtcParser: one TCP (or TLS) connection  *)
(* over which the SDK asks the lidar questions, one at a time under        *)
(* PtcClient::_mutex.                                                      *)
(*                                                                         *)
(* A reply is a header (two identifier bytes, then the fields) and a       *)
(* payload; the bytes reach QueryCommand through Receive in pieces of any  *)
(* size (TcpClient) or exactly as many as it asks for (TcpSslClient).      *)
(* QueryCommand sees bytes and not where they come from: it takes the      *)
(* first two that look like the identifier for the start of a header,      *)
(* wherever in a reply they are, and what follows for its fields.  Nothing *)
(* in a reply says which question it answers: QueryCommand compares the    *)
(* command byte and nothing else, and does not empty the stream before it  *)
(* asks.                                                                   *)
(*                                                                         *)
(* The Linux build is modelled, where SOCKET is unsigned int               *)
(* (tcp_client.h): "m_tcpSock < 0" and "tcpsock_ < 0" are never true.      *)
(***************************************************************************)
EXTENDS Integers, Sequences, FiniteSets

CONSTANTS Modes,       \* the PtcModes to run: "tcp", "tcp_ssl"
          Getters,     \* commands whose answer carries data
          Setters,     \* commands answered by a return code
          MaxPayload,  \* bound: the longest payload of a reply
          Answers,     \* bound: the replies a lidar may give, see Answer
          MaxQueries   \* bound: how many questions are asked

Cmds == Getters \cup Setters

\* What a byte can be to QueryCommand: the first or the second identifier
\* byte or neither; and what it says where the fields of a header are read.
Looks == {"id0", "id1", "other"}
Fields == [cmd : Cmds \cup {"none"}, rc : 0..1, len : 0..MaxPayload]

\* A reply but for its command: the return code, what the bytes of its fields
\* look like, and its payload, of any bytes.
Answer == [rc : 0..1, look : Looks, body : Seq([look : Looks, says : Fields])]

ASSUME PtcAssumption ==
  /\ Modes \subseteq {"tcp", "tcp_ssl"}
  /\ Getters \cap Setters = {}
  /\ MaxPayload \in Nat
  /\ \A a \in Answers : a \in Answer /\ Len(a.body) <= MaxPayload
  /\ MaxQueries \in Nat \ {0}

VARIABLES mode,       \* client_mode_
          client,     \* client_: "null" until the opening thread makes it
          opener,     \* where open_thread_ptr_ is inside PtcClient::TryOpen
          InitOpen,   \* PtcClient::InitOpen
          owner,      \* the PtcClient: "using", "joining" (~PtcClient), "gone"
          sock,       \* m_tcpSock: "none" (-1), "zero" (0), "fd"
          connected,  \* m_bLidarConnected
          link,       \* the session behind the socket: "none", "up", "lost"
          timed,      \* has SetTimeout been applied to this socket?
          inbox,      \* requests the lidar has not answered yet
          stream,     \* reply bytes on their way to Receive
          query,      \* the QueryCommand that holds _mutex
          asked,      \* how many questions have been asked
          clean,      \* ghost: no query on this connection has returned
                      \* with a reply, or a part of one, still to come
          plain,      \* ghost: nothing but a header has looked like the
                      \* beginning of one on this connection
          result      \* what the latest QueryCommand returned

netvars == <<inbox, stream>>
sockvars == <<sock, connected, link, timed>>
openvars == <<client, opener, InitOpen, owner>>
ghosts == <<clean, plain>>
vars == <<mode, client, opener, InitOpen, owner, sock, connected, link, timed,
          inbox, stream, query, asked, clean, plain, result>>

-----------------------------------------------------------------------------
(* PtcParser: what goes over the wire *)

\* sizeof(PTCHeader_1_0): the two identifier bytes, and the fields behind
\* them (command, return code, payload length) as one.
HeaderSize == 3

\* A byte on its way: what QueryCommand sees of it, and (for the properties
\* only) its place in the reply that it is part of and the request, the
\* command and the payload length of that.
Byte(look, says, i, m, n) ==
  [look |-> look, says |-> says, at |-> i, of |-> [q |-> m.q, cmd |-> m.cmd, len |-> n]]

\* The request with its header, from PtcStreamEncode.
PtcStreamEncode(q, c) == [q |-> q, cmd |-> c]

\* 0x47 and 0x74: where they are read as fields, 0x74 is a return code.
Identifier(look) == [look |-> look, says |-> [cmd |-> "none", rc |-> 1, len |-> 0]]

\* The lidar's reply to request m.
Reply(m, a) ==
  LET n == Len(a.body)
      fields == [look |-> a.look, says |-> [cmd |-> m.cmd, rc |-> a.rc, len |-> n]]
      head == <<Identifier("id0"), Identifier("id1"), fields>>
  IN  [i \in 1..(HeaderSize + n) |->
         LET b == IF i <= HeaderSize THEN head[i] ELSE a.body[i - HeaderSize]
         IN  Byte(b.look, b.says, i, m, n)]

\* Two bytes that QueryCommand takes for the identifier.
LooksLikeHeader(a, b) == a.look = "id0" /\ b.look = "id1"

\* Only the beginnings of replies look like one.
Plain(s) == \A i \in 1..(Len(s) - 1) : LooksLikeHeader(s[i], s[i + 1]) => s[i].at = 1

\* Mutant: the command byte is not compared.
IsValidReplyNoCmd(h, c) == LooksLikeHeader(h[1], h[2]) /\ h[3].says.rc = 0

\* IsValidReturnCode() and the command test on a complete header.
IsValidReply(h, c) ==
  /\ LooksLikeHeader(h[1], h[2])
  /\ h[3].says.rc = 0 /\ h[3].says.cmd = c

-----------------------------------------------------------------------------
(* TcpClient and TcpSslClient *)

Idle == [phase |-> "idle", q |-> 0, cmd |-> "none", found |-> FALSE,
         header |-> <<>>, body |-> <<>>]
NoResult == [q |-> 0, cmd |-> "none", ret |-> 0, body |-> <<>>,
             clean |-> TRUE, plain |-> TRUE]

\* Close(): what is left of the connection, and of the bytes on it, is gone;
\* the socket is set to -1 unless it is 0.
Close ==
  /\ sock' = IF sock = "zero" THEN "zero" ELSE "none"
  /\ connected' = FALSE /\ link' = "none" /\ timed' = FALSE
  /\ inbox' = <<>> /\ stream' = <<>>

\* A fresh socket: its own stream, and the operating system's timeouts.
Fresh(s, l) ==
  /\ sock' = s /\ connected' = TRUE /\ link' = l /\ timed' = FALSE
  /\ inbox' = <<>> /\ stream' = <<>>
  /\ clean' = TRUE /\ plain' = TRUE

\* TcpClient::TryOpen and Open() succeed when connect() does, and Close()
\* otherwise.
TcpOpens(ok) == IF ok THEN Fresh("fd", "up") ELSE Close

\* What tcp_try_open and tcp_open return: a socket; -1; and, from
\* tcp_try_open when the connection is refused (SO_ERROR), false, which is 0.
tcp_try_open == {"fd", "none", "zero"}
tcp_open == {"fd", "none"}

\* TcpSslClient::TryOpen and Open(): a context that cannot be set up leaves
\* everything as it was; "tcpsock_ < 0" is never true, and SSL_connect is
\* only held to have failed when it returns 0.
SslOpens(s, handshake) ==
  /\ s # "fd" => handshake < 0
  /\ \/ handshake = 0 /\ Close
     \/ handshake # 0 /\ Fresh(s, IF handshake = 1 THEN "up" ELSE "none")

InitSslClientFails == UNCHANGED sockvars /\ UNCHANGED netvars

-----------------------------------------------------------------------------
(* The opening thread, PtcClient::TryOpen *)

MakeClient ==
  /\ opener = "make"
  /\ client' = "made" /\ opener' = "try"
  /\ UNCHANGED <<mode, InitOpen, owner, query, asked, clean, plain, result>>
  /\ UNCHANGED <<sock, connected, link, timed, inbox, stream>>

\* Mutant: the loop tries until it succeeds, whatever InitOpen says.
GiveUpNever == FALSE

\* The loop's InitOpen test.
GiveUp == ~InitOpen

OpenerStops ==
  /\ opener = "try" /\ GiveUp
  /\ opener' = "timeout"
  /\ UNCHANGED <<mode, client, InitOpen, owner, query, asked, clean, plain, result>>
  /\ UNCHANGED <<sock, connected, link, timed, inbox, stream>>

TryOpenTcp(ok) ==
  /\ mode = "tcp" /\ opener = "try" /\ ~GiveUp
  /\ TcpOpens(ok) /\ (ok \/ UNCHANGED ghosts)
  /\ opener' = IF ok THEN "timeout" ELSE "try"
  /\ UNCHANGED <<mode, client, InitOpen, owner, query, asked, result>>

\* The TCP part of TcpSslClient::TryOpen; the socket blocks again before the
\* handshake, which has no time limit of its own.
TryOpenSsl ==
  /\ mode = "tcp_ssl" /\ opener = "try" /\ ~GiveUp
  /\ \/ InitSslClientFails /\ UNCHANGED opener
     \/ \E s \in tcp_try_open :
          /\ sock' = s /\ opener' = "handshake"
          /\ UNCHANGED <<connected, link, timed, inbox, stream>>
  /\ UNCHANGED <<mode, client, InitOpen, owner, query, asked, clean, plain, result>>

Handshake(h) ==
  /\ opener = "handshake"
  /\ SslOpens(sock, h) /\ (h # 0 \/ UNCHANGED ghosts)
  /\ opener' = IF h = 0 THEN "try" ELSE "timeout"
  /\ UNCHANGED <<mode, client, InitOpen, owner, query, asked, result>>

\* SetTimeout on the socket there is now; setsockopt fails on -1 and on 0.
SetTimeout ==
  /\ opener = "timeout"
  /\ timed' = (timed \/ sock = "fd")
  /\ opener' = "done"
  /\ UNCHANGED <<mode, client, InitOpen, owner, query, asked, clean, plain, result>>
  /\ UNCHANGED <<sock, connected, link, inbox, stream>>

\* Lidar's callers: they have polled IsOpen() before they ask anything.
IsOpen == client = "made" /\ connected

-----------------------------------------------------------------------------
(* PtcClient::QueryCommand, from taking _mutex to returning *)

\* A command method takes _mutex and encodes its request.
Ask(c) ==
  /\ owner = "using" /\ query = Idle /\ asked < MaxQueries
  /\ IsOpen \/ asked > 0
  /\ asked' = asked + 1
  /\ query' = [Idle EXCEPT !.phase = "send", !.q = asked + 1, !.cmd = c]
  /\ UNCHANGED <<mode, client, opener, InitOpen, owner, clean, plain, result>>
  /\ UNCHANGED <<sock, connected, link, timed, inbox, stream>>

\* The query is over; was its reply read to the end?
Return(r, b) ==
  /\ query' = Idle
  /\ result' = [q |-> query.q, cmd |-> query.cmd, ret |-> r, body |-> b,
                clean |-> clean, plain |-> plain]
  /\ clean' = (clean /\ inbox' = <<>> /\ stream' = <<>>)
  /\ plain' = plain

GoesOn == UNCHANGED <<result, clean, plain>>

\* Send() opens the connection again when an earlier failure closed it, with
\* Open(): no timeouts are set on the new socket.
Reopen ==
  /\ query.phase = "send" /\ ~connected
  /\ \/ /\ mode = "tcp"
        /\ \E ok \in BOOLEAN :
             /\ TcpOpens(ok)
             /\ IF ok THEN UNCHANGED <<query, result>> ELSE Return(-1, <<>>)
     \/ /\ mode = "tcp_ssl"
        /\ \/ InitSslClientFails /\ Return(-1, <<>>)
           \/ \E s \in tcp_open, h \in -1..1 :
                /\ SslOpens(s, h)
                /\ IF h # 0 THEN UNCHANGED <<query, result>> ELSE Return(-1, <<>>)
  /\ UNCHANGED <<mode, client, opener, InitOpen, owner, asked>>

\* The request is handed to the socket; the lidar gets it if it is there.
SendRequest ==
  /\ query.phase = "send" /\ connected
  /\ link # "none"
  /\ inbox' = IF link = "up" THEN Append(inbox, PtcStreamEncode(query.q, query.cmd)) ELSE inbox
  /\ query' = [query EXCEPT !.phase = "header"]
  /\ UNCHANGED <<mode, client, opener, InitOpen, owner, sock, connected, link,
                 timed, stream, asked, clean, plain, result>>

\* send() or SSL_write fails: an error closes the connection, a send timeout
\* (EAGAIN) does not.
SendFails ==
  /\ query.phase = "send" /\ connected
  /\ \/ link # "up" /\ Close
     \/ timed /\ UNCHANGED <<sock, connected, link, timed, inbox, stream>>
  /\ Return(-1, <<>>)
  /\ UNCHANGED <<mode, client, opener, InitOpen, owner, asked>>

\* Mutant: one byte more than is missing is read.
ReceivedOneMore(left) == {n \in 1..(left + 1) : n <= Len(stream)}

\* sys_readn_by_ssl reads on until it has all the bytes asked for.
SslReads(left) == {n \in {left} : n <= Len(stream)}

\* How many bytes one Receive(buf, left) can return: recv() returns what is
\* there.
Received(left) == IF mode = "tcp_ssl" THEN SslReads(left)
                  ELSE {n \in 1..left : n <= Len(stream)}

\* The places in a piece p where the two identifier bytes follow each other.
HeaderAt(p) == {i \in 1..(Len(p) - 1) : LooksLikeHeader(p[i], p[i + 1])}

\* The header bytes of a piece: from the first identifier on, if it has one.
HeaderFrom(p) ==
  LET i == CHOOSE i \in HeaderAt(p) : \A j \in HeaderAt(p) : i <= j
  IN  SubSeq(p, i, Len(p))

\* What QueryCommand does once the header is complete.
HeaderDone(h) ==
  IF ~IsValidReply(h, query.cmd) THEN Return(-1, <<>>)
  ELSE IF h[3].says.len = 0 THEN Return(0, <<>>)
  ELSE query' = [query EXCEPT !.phase = "body", !.header = h] /\ GoesOn

RecvHeader ==
  /\ query.phase = "header"
  /\ \E n \in Received(HeaderSize - Len(query.header)) :
       LET p == SubSeq(stream, 1, n)
           h == IF query.found THEN query.header \o p
                ELSE IF HeaderAt(p) = {} THEN <<>> ELSE HeaderFrom(p)
       IN  /\ stream' = SubSeq(stream, n + 1, Len(stream)) /\ UNCHANGED inbox
           /\ IF Len(h) >= HeaderSize THEN HeaderDone(h)
              ELSE query' = [query EXCEPT !.header = h, !.found = (h # <<>>)] /\ GoesOn
  /\ UNCHANGED <<mode, client, opener, InitOpen, owner, sock, connected, link,
                 timed, asked>>

RecvBody ==
  /\ query.phase = "body"
  /\ \E n \in Received(query.header[3].says.len - Len(query.body)) :
       LET b == query.body \o SubSeq(stream, 1, n)
       IN  /\ stream' = SubSeq(stream, n + 1, Len(stream)) /\ UNCHANGED inbox
           /\ IF Len(b) = query.header[3].says.len THEN Return(0, b)
              ELSE query' = [query EXCEPT !.body = b] /\ GoesOn
  /\ UNCHANGED <<mode, client, opener, InitOpen, owner, sock, connected, link,
                 timed, asked>>

\* Mutant: a timed-out TLS read leaves the connection open, as recv() does.
SslTimeoutCloses == UNCHANGED sockvars /\ UNCHANGED netvars

\* TcpSslClient::Receive: fewer bytes than asked for close the connection.
SslShortRead == Close

\* Mutant: QueryCommand calls Receive again after a timeout.
TimeoutRetries == UNCHANGED <<query, result, sock, connected, link, timed,
                              inbox, stream, clean, plain>>

\* SO_RCVTIMEO expires inside Receive.  On TCP nothing is closed, and the
\* reply is still to come.
RecvGivesUp ==
  /\ IF mode = "tcp_ssl" THEN SslShortRead ELSE UNCHANGED sockvars /\ UNCHANGED netvars
  /\ Return(-1, <<>>)

RecvTimeout ==
  /\ query.phase \in {"header", "body"} /\ timed
  /\ RecvGivesUp
  /\ UNCHANGED <<mode, client, opener, InitOpen, owner, asked>>

\* The peer has closed: recv() returns 0 or an error once the bytes that
\* arrived are read, SSL_read when there are not enough of them.
RecvClosed ==
  /\ query.phase \in {"header", "body"} /\ link # "up"
  /\ \/ stream = <<>>
     \/ mode = "tcp_ssl" /\ Received(IF query.phase = "header"
                                     THEN HeaderSize - Len(query.header)
                                     ELSE query.header[3].says.len - Len(query.body)) = {}
  /\ Close
  /\ Return(-1, <<>>)
  /\ UNCHANGED <<mode, client, opener, InitOpen, owner, asked>>

\* What the command methods make of it: a getter wants data (0 or -1) ...
GetterReturns(r) == IF r.ret = 0 /\ r.body # <<>> THEN 0 ELSE -1

\* ... and a setter turns QueryCommand's int into a bool: true says that it
\* failed, where ptc_client.h documents true as "Set successful".
SetterReturns(r) == r.ret # 0

-----------------------------------------------------------------------------
(* The lidar, and the end of the client *)

\* Any return code, any payload: a setter's reply has none.
LidarAnswers ==
  /\ link = "up" /\ inbox # <<>>
  /\ \E a \in Answers :
       /\ Head(inbox).cmd \in Setters => a.body = <<>>
       /\ stream' = stream \o Reply(Head(inbox), a)
       /\ plain' = (plain /\ Plain(Reply(Head(inbox), a)))
  /\ inbox' = Tail(inbox)
  /\ UNCHANGED <<mode, client, opener, InitOpen, owner, sock, connected, link,
                 timed, query, asked, clean, result>>

\* The lidar restarts or the cable is pulled: bytes may or may not be lost.
LidarDrops ==
  /\ link = "up" /\ link' = "lost"
  /\ stream' \in {stream, <<>>} /\ inbox' = <<>>
  /\ UNCHANGED <<mode, client, opener, InitOpen, owner, sock, connected,
                 timed, query, asked, clean, plain, result>>

\* ~PtcClient: stop the opening thread and join it; its owner has joined the
\* threads that ask before.
Destroy ==
  /\ owner = "using" /\ query = Idle
  /\ owner' = "joining" /\ InitOpen' = FALSE
  /\ UNCHANGED <<mode, client, opener, query, asked, clean, plain, result>>
  /\ UNCHANGED <<sock, connected, link, timed, inbox, stream>>

Destroyed ==
  /\ owner = "joining" /\ opener = "done"
  /\ owner' = "gone" /\ client' = "null"
  /\ Close
  /\ UNCHANGED <<mode, opener, InitOpen, query, asked, clean, plain, result>>

Init ==
  /\ mode \in Modes
  /\ client = "null" /\ opener = "make" /\ InitOpen = TRUE /\ owner = "using"
  /\ sock = "none" /\ connected = FALSE /\ link = "none" /\ timed = FALSE
  /\ inbox = <<>> /\ stream = <<>>
  /\ query = Idle /\ asked = 0 /\ clean = TRUE /\ plain = TRUE
  /\ result = NoResult

Opener == MakeClient \/ OpenerStops \/ SetTimeout
TryOpen == (\E ok \in BOOLEAN : TryOpenTcp(ok)) \/ TryOpenSsl
           \/ (\E h \in -1..1 : Handshake(h))
QueryStep == Reopen \/ SendRequest \/ SendFails \/ RecvHeader \/ RecvBody
             \/ RecvClosed

Next ==
  \/ Opener \/ TryOpen
  \/ \E c \in Cmds : Ask(c)
  \/ QueryStep
  \/ RecvTimeout
  \/ LidarAnswers \/ LidarDrops
  \/ Destroy \/ Destroyed

Spec == Init /\ [][Next]_vars

\* The threads run, a timeout that is set expires, the destructor ends.
\* Nothing is assumed of the lidar: no attempt to connect ever has to
\* succeed, and a TLS handshake may take for ever.
FairSpec ==
  Spec /\ WF_vars(Opener) /\ WF_vars(QueryStep) /\ WF_vars(RecvTimeout)
       /\ WF_vars(Destroyed)

-----------------------------------------------------------------------------
(* Properties *)

Bytes == [look : Looks, says : Fields, at : 1..(HeaderSize + MaxPayload),
          of : [q : 1..MaxQueries, cmd : Cmds, len : 0..MaxPayload]]

\* Every variable has its type, and a header being received is never longer
\* than a header (QueryCommand's buffers and nLeft arithmetic).
TypeOK ==
  /\ mode \in Modes /\ client \in {"null", "made"}
  /\ opener \in {"make", "try", "handshake", "timeout", "done"}
  /\ InitOpen \in BOOLEAN /\ owner \in {"using", "joining", "gone"}
  /\ sock \in {"none", "zero", "fd"}
  /\ connected \in BOOLEAN /\ link \in {"none", "up", "lost"} /\ timed \in BOOLEAN
  /\ \A i \in DOMAIN stream : stream[i] \in Bytes
  /\ asked \in 0..MaxQueries /\ clean \in BOOLEAN /\ plain \in BOOLEAN
  /\ query.phase \in {"idle", "send", "header", "body"}
  /\ Len(query.header) <= HeaderSize /\ Len(query.body) <= MaxPayload

\* QueryCommand has returned 0: a getter has data, or a setter was accepted.
Answered ==
  /\ result.q # 0
  /\ \/ result.cmd \in Getters /\ GetterReturns(result) = 0
     \/ result.cmd \in Setters /\ ~SetterReturns(result)

\* What QueryCommand hands back as an answer is the whole payload of ONE
\* reply, in order, and of a reply to the same command, however the stream is
\* cut into pieces and whatever earlier queries left unread in it: as long as
\* nothing in the replies on this connection looks like a header that is
\* none.  Where it does, that holds over TLS on a connection on which every
\* reply before was read to its end.
OneReplyPerAnswer ==
  Answered /\ (result.plain \/ (mode = "tcp_ssl" /\ result.clean)) =>
    \A i \in DOMAIN result.body :
      /\ result.body[i].at = HeaderSize + i
      /\ result.body[i].of = result.body[1].of
      /\ result.body[i].of.cmd = result.cmd
      /\ result.body[i].of.len = Len(result.body)

\* An answer is (bytes of) the reply to this very question, whatever is in
\* it, as long as every reply to an earlier query on the connection was read
\* to its end.  Over TLS, where a read that times out closes the connection,
\* only a refused reply leaves something behind, its payload: unless that
\* looks like a header, the answer is still the question's own.
AnswerIsOwn ==
  Answered /\ (result.clean \/ (mode = "tcp_ssl" /\ result.plain)) =>
    \A i \in DOMAIN result.body : result.body[i].of.q = result.q

\* A query on a socket whose timeouts are set returns, whatever the lidar does.
TimedQueryReturns ==
  \A n \in 1..MaxQueries :
    (query.q = n /\ timed) ~> (query.q # n)

\* ~PtcClient returns on TCP, even if the lidar never accepts a connection.
DestructorReturns == (owner = "joining" /\ mode = "tcp") ~> (owner = "gone")
=============================================================================
