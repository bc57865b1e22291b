-------------------------------- MODULE MsgConn --------------------------------
(***************************************************************************)
(* Messages over one TCP connection, end to end: conn.cc (handleRead,       *)
(* handleWrite, isend, send(Buffer&), onMsg, sendMsg), http.cc and http.h   *)
(* on both sides, over Buffer and Codecs.  The client sends the messages of *)
(* its list; the server's handler answers each.  Bytes travel in pieces cut *)
(* anywhere, and the send buffer of the socket is small.                    *)
(*                                                                          *)
(* What is left out of the connection (handshake, reconnection, user code   *)
(* that closes) is in module TcpConn.  proto "raw" is a server that echoes  *)
(* with con->send(con->getInput()).                                         *)
(***************************************************************************)
EXTENDS Buffer, Codecs, SequencesExt

CONSTANTS
  Bytes,     \* the tokens that messages are made of
  Modes,     \* [proto, cloned, quiet, msgs]: what is sent, how it is answered
  Suggest,   \* exp_, the suggested size of a buffer (512)
  WireCap,   \* bound: tokens in flight in one direction
  CanReset,  \* the client's host may reset the connection
  MaxLoops   \* bound: read callbacks nested in each other

Sides == {"cli", "svr"}
Peer(x) == IF x = "cli" THEN "svr" ELSE "cli"

\* A request: the user headers are a list of tokens.
Requests == [uri : STRING, hdr : Seq(Bytes), body : Seq(Bytes)]

\* Lengths are no smaller than zero (LengthCodec does not look).
ASSUME MsgAssumption ==
  /\ {Suggest, WireCap, MaxLoops, MaxBody} \subseteq Nat \ {0}
  /\ CanReset \in BOOLEAN
  /\ \A t \in Bytes : (t[1] = "length" => t[2] \in Nat) /\ (t[1] = "header" => t[3] \in Nat)
  /\ \A m \in Modes :
       /\ {m.cloned, m.quiet} \subseteq BOOLEAN
       /\ \/ m.proto \in {"line", "bracket", "length", "raw"} /\ m.msgs \in Seq(Seq(Bytes))
          \/ m.proto = "http" /\ m.msgs \in Seq(Requests)

VARIABLES
  mode,    \* the member of Modes this behaviour is about
  nsent,   \* messages the client has sent
  con,     \* the two TcpConn objects
  wire,    \* wire[x]: what is in flight towards x
  reset,   \* the client's host has reset the connection
  got,     \* got[x]: what x's message callback was given (bytes, for raw)
  handed,  \* history: the tokens x's user has handed to the connection
  taken    \* history: tokens of its input x has consumed

vars == <<mode, nsent, con, wire, reset, got, handed, taken>>

Proto == mode.proto
Framed == Proto \in {"line", "bracket", "length"}
CodecOf(x) == IF x = "svr" /\ mode.cloned THEN Clone(Proto) ELSE Proto

\* The response object that lives as long as the connection.
NewResponse == [status |-> 200, body |-> <<>>, body2 |-> <<>>]

Init ==
  /\ mode \in Modes
  /\ nsent = 0
  /\ con = [x \in Sides |->
              [in |-> NewBuffer(Suggest), out |-> NewBuffer(Suggest),
               wen |-> FALSE,       \* write events are on
               state |-> "open",    \* "reading": in handleRead; "ending": in cleanup; "closed"
               closing |-> FALSE,   \* the task of close() is queued
               loops |-> 0,         \* active calls of readcb_
               http |-> NewHttp,    \* the request (server) or response (client)
               resp |-> NewResponse]]
  /\ wire = [x \in Sides |-> <<>>]
  /\ reset = FALSE
  /\ got = [x \in Sides |-> <<>>]
  /\ handed = [x \in Sides |-> <<>>]
  /\ taken = [x \in Sides |-> 0]

Becomes(x, c) == con' = [con EXCEPT ![x] = c]

-------------------------------------------------------------------------------
(* Writing.                                                                 *)

\* isend: the socket takes what it has room for.
Accepts(x, bytes) == Min({Len(bytes), WireCap - Len(wire[Peer(x)])})
Write(x, bytes) ==
  wire' = [wire EXCEPT ![Peer(x)] = @ \o SubSeq(bytes, 1, Accepts(x, bytes))]

\* The pieces of an encoded message are appended one after the other.
AppendAll(buf, pieces) ==
  LET after[i \in 0..Len(pieces)] ==
        IF i = 0 THEN buf ELSE AppendBytes(after[i - 1], pieces[i])
  IN  after[Len(pieces)]

Hand(x, pieces) == handed' = [handed EXCEPT ![x] = @ \o FlattenSeq(pieces)]

\* c after sendOutput(), that is send(output_): what the socket does not take
\* stays, with write events on.
SentOutput(x, c) ==
  LET n == Accepts(x, Data(c.out))
  IN  [c EXCEPT !.out = Consume(@, n), !.wen = @ \/ n < Size(c.out)]

\* send(buf) of another buffer: c and the buffer afterwards, and what was
\* offered to the socket.
SentBuffer(x, c, buf) ==
  IF c.wen
  THEN LET two == Absorb(c.out, buf)
       IN  [c |-> [c EXCEPT !.out = two[1]], buf |-> two[2], bytes |-> <<>>]
  ELSE LET n == Accepts(x, Data(buf))
           left == Consume(buf, n)
           two == IF Size(left) > 0 THEN Absorb(c.out, left) ELSE <<c.out, left>>
       IN  [c |-> [c EXCEPT !.out = two[1], !.wen = Size(left) > 0], buf |-> two[2],
            bytes |-> Data(buf)]

\* isend fails, the connection being reset: send runs cleanup under the
\* callback that sent, and cleanup calls readcb_ if there is input.  c is the
\* connection as the callback left it.
SendFails(x, c) ==
  LET loops == IF Size(c.in) > 0 THEN c.loops + 1 ELSE c.loops
  IN  /\ reset /\ loops <= MaxLoops
      /\ Becomes(x, [c EXCEPT !.state = "ending", !.loops = loops])

\* A mutant: handleWrite switches write events off without looking at what is left.
MutHandleWrite(x) ==
  LET c == con[x]
  IN  /\ c.state = "open" /\ c.loops = 0 /\ ~reset
      /\ c.wen /\ Len(wire[Peer(x)]) < WireCap
      /\ Becomes(x, [c EXCEPT !.out = Consume(@, Accepts(x, Data(c.out))), !.wen = FALSE])
      /\ Write(x, Data(c.out))
      /\ UNCHANGED <<mode, nsent, reset, got, handed, taken>>

\* The socket is writable again.
HandleWrite(x) ==
  LET c == con[x]
      rest == Consume(c.out, Accepts(x, Data(c.out)))
  IN  /\ c.state = "open" /\ c.loops = 0 /\ ~reset
      /\ c.wen /\ Len(wire[Peer(x)]) < WireCap
      /\ Becomes(x, [c EXCEPT !.out = rest, !.wen = Size(rest) > 0])
      /\ Write(x, Data(c.out))
      /\ UNCHANGED <<mode, nsent, reset, got, handed, taken>>

-------------------------------------------------------------------------------
(* The client sends.                                                        *)

RequestPieces(m) == HttpEncode(<<"GET", m.uri>>, <<LF, LF>>, m.hdr, m.body)

\* A client that keeps to one request at a time.
MaySend ==
  /\ con["cli"].state = "open" /\ con["cli"].loops = 0 /\ ~reset
  /\ nsent < Len(mode.msgs)
  /\ Proto = "http" => Len(got["cli"]) = nsent

\* sendMsg.
SendMsg ==
  /\ Framed /\ MaySend
  /\ LET c == con["cli"]
         d == [c EXCEPT !.out = AppendAll(@, Encode(Proto, mode.msgs[nsent + 1]))]
     IN  Becomes("cli", SentOutput("cli", d)) /\ Write("cli", Data(d.out))
  /\ Hand("cli", Encode(Proto, mode.msgs[nsent + 1]))
  /\ nsent' = nsent + 1
  /\ UNCHANGED <<mode, reset, got, taken>>

\* send(Buffer&) of a buffer that was filled for it.
SendRaw ==
  /\ Proto = "raw" /\ MaySend
  /\ LET s == SentBuffer("cli", con["cli"],
                         AppendBytes(NewBuffer(Suggest), mode.msgs[nsent + 1]))
     IN  Becomes("cli", s.c) /\ Write("cli", s.bytes)
  /\ Hand("cli", <<mode.msgs[nsent + 1]>>)
  /\ nsent' = nsent + 1
  /\ UNCHANGED <<mode, reset, got, taken>>

\* clearData: the n bytes of the message leave the input.
ClearData(c, n) == [c EXCEPT !.in = Consume(@, n), !.http = NewHttp]

\* sendRequest: clearData drops the response that was answered last.
SendRequest ==
  /\ Proto = "http" /\ MaySend
  /\ LET c == con["cli"]
         d == ClearData([c EXCEPT !.out = AppendAll(@, RequestPieces(mode.msgs[nsent + 1]))],
                        c.http.scanned)
     IN  Becomes("cli", SentOutput("cli", d)) /\ Write("cli", Data(d.out))
  /\ Hand("cli", RequestPieces(mode.msgs[nsent + 1]))
  /\ taken' = [taken EXCEPT !["cli"] = @ + con["cli"].http.scanned]
  /\ nsent' = nsent + 1
  /\ UNCHANGED <<mode, reset, got>>

\* The client closes once all is sent, a server that answers nothing still
\* reading; or its host resets the connection.
ClientClose ==
  /\ mode.quiet /\ nsent = Len(mode.msgs)
  /\ con["cli"].state = "open" /\ Size(con["cli"].out) = 0
  /\ Becomes("cli", [con["cli"] EXCEPT !.state = "closed"])
  /\ UNCHANGED <<mode, nsent, wire, reset, got, handed, taken>>

Reset ==
  /\ CanReset /\ ~reset
  /\ reset' = TRUE
  /\ UNCHANGED <<mode, nsent, con, wire, got, handed, taken>>

-------------------------------------------------------------------------------
(* Reading.                                                                 *)

\* handleRead's loop: read() what has arrived, or the beginning of it, into the
\* room there is.
HandleRead(x) ==
  LET room == MakeSomeRoom(con[x].in)
  IN  /\ con[x].state \in {"open", "reading"} /\ con[x].loops = 0
      /\ \E n \in 1..Min({Space(room), Len(wire[x])}) :
           /\ Becomes(x, [con[x] EXCEPT !.in = Put(room, SubSeq(wire[x], 1, n)),
                                        !.state = "reading"])
           /\ wire' = [wire EXCEPT ![x] = SubSeq(@, n + 1, Len(@))]
      /\ UNCHANGED <<mode, nsent, reset, got, handed, taken>>

\* Nothing more has arrived, EAGAIN: readcb_ is called.
ReadAgain(x) ==
  /\ con[x].state = "reading"
  /\ Becomes(x, [con[x] EXCEPT !.in = MakeSomeRoom(@), !.state = "open", !.loops = 1])
  /\ UNCHANGED <<mode, nsent, wire, reset, got, handed, taken>>

\* A read returns 0 or an error, or the task of close() closes the channel:
\* cleanup calls readcb_ once more if there is input.
BeginCleanup(x) ==
  /\ con[x].state \in {"open", "reading"} /\ con[x].loops = 0
  /\ \/ wire[x] = <<>> /\ con[Peer(x)].state = "closed"
     \/ reset
     \/ con[x].closing /\ con[x].state = "open"
  /\ Becomes(x, [con[x] EXCEPT !.state = "ending", !.loops = IF Size(con[x].in) > 0 THEN 1 ELSE 0])
  /\ UNCHANGED <<mode, nsent, wire, reset, got, handed, taken>>

\* The rest of cleanup.
EndCleanup(x) ==
  /\ con[x].state = "ending" /\ con[x].loops = 0
  /\ Becomes(x, [con[x] EXCEPT !.state = "closed", !.closing = FALSE])
  /\ UNCHANGED <<mode, nsent, wire, reset, got, handed, taken>>

Deliver(x, msg) == got' = [got EXCEPT ![x] = Append(@, msg)]
Took(x, n) == taken' = [taken EXCEPT ![x] = @ + n]

Decoded(x) == TryDecode(CodecOf(x), Data(con[x].in))
Decoding(x) == Framed /\ con[x].loops > 0

\* onMsg's loop: nothing more to decode.
LoopEnd(x) ==
  /\ Decoding(x) /\ Decoded(x).r = 0
  /\ Becomes(x, [con[x] EXCEPT !.loops = @ - 1])
  /\ UNCHANGED <<mode, nsent, wire, reset, got, handed, taken>>

\* A decoding error: channel_->close() runs cleanup at once, in which readcb_
\* meets the same error.
LoopError(x) ==
  /\ Decoding(x) /\ Decoded(x).r < 0
  /\ Becomes(x, [con[x] EXCEPT !.loops = 0, !.state = "closed"])
  /\ UNCHANGED <<mode, nsent, wire, reset, got, handed, taken>>

\* A message: the callback, which answers on the server, then consume.
LoopMsg(x) ==
  /\ Decoding(x) /\ Decoded(x).r > 0
  /\ Deliver(x, Decoded(x).msg)
  /\ LET c == con[x]
         answers == x = "svr" /\ ~mode.quiet
         d == IF answers THEN [c EXCEPT !.out = AppendAll(@, Encode(CodecOf(x), Decoded(x).msg))]
                         ELSE c
     IN  /\ IF answers THEN Hand(x, Encode(CodecOf(x), Decoded(x).msg)) ELSE UNCHANGED handed
         /\ \/ /\ answers => ~reset
               /\ IF answers THEN Write(x, Data(d.out)) ELSE UNCHANGED wire
               /\ Becomes(x, [(IF answers THEN SentOutput(x, d) ELSE d)
                                 EXCEPT !.in = Consume(@, Decoded(x).r)])
               /\ Took(x, Decoded(x).r)
            \* The message is consumed only after the callback.
            \/ answers /\ SendFails(x, d) /\ UNCHANGED <<wire, taken>>
  /\ UNCHANGED <<mode, nsent, reset>>

\* readcb_ of the raw protocol: the server echoes, the client takes the bytes.
EchoRaw ==
  /\ Proto = "raw" /\ con["svr"].loops > 0
  /\ got' = [got EXCEPT !["svr"] = @ \o Data(con["svr"].in)]
  /\ LET s == SentBuffer("svr", [con["svr"] EXCEPT !.loops = @ - 1], con["svr"].in)
     IN  \/ /\ ~reset
            /\ Becomes("svr", [s.c EXCEPT !.in = s.buf])
            /\ Write("svr", s.bytes)
            /\ Hand("svr", <<Data(con["svr"].in)>>)
            /\ Took("svr", Size(con["svr"].in))
         \/ SendFails("svr", con["svr"]) /\ UNCHANGED <<wire, handed, taken>>
  /\ UNCHANGED <<mode, nsent, reset>>

TakeRaw ==
  /\ Proto = "raw" /\ con["cli"].loops > 0
  /\ Becomes("cli", [con["cli"] EXCEPT !.loops = 0, !.in = Clear(@)])
  /\ got' = [got EXCEPT !["cli"] = @ \o Data(con["cli"].in)]
  /\ Took("cli", Size(con["cli"].in))
  /\ UNCHANGED <<mode, nsent, wire, reset, handed>>

-------------------------------------------------------------------------------
(* HttpConnPtr::handleRead: at most one message for each call of readcb_.   *)

HttpRead(x) == HttpDecode(con[x].http, Data(con[x].in))
Reading(x) == Proto = "http" /\ con[x].loops > 0

NotFound == <<"notfound">>
Failed == <<"failed">>
FileBytes == <<<<"file">>>>

\* The word of the status is the body too.
SetStatus(resp, status, msg) == [resp EXCEPT !.status = status, !.body = <<msg>>]

\* HttpServer's dispatch, the handlers of the example (a response of its own),
\* defcb_ and sendFile (both on the connection's): what is sent, and the
\* connection's response afterwards.  body2 of sendFile points into a string
\* that is gone when it returns.  sendFile has "file" and cannot read
\* "badfile"; any other uri has no handler, or names a file that is missing.
Handler(uri, resp) ==
  LET Same(r) == [send |-> r, resp |-> r]
  IN  CASE uri = "hello" -> [send |-> [NewResponse EXCEPT !.body = <<<<"hello">>>>], resp |-> resp]
        [] uri = "file" -> [send |-> [resp EXCEPT !.body2 = FileBytes],
                            resp |-> [resp EXCEPT !.body2 = <<Junk>>]]
        [] uri = "badfile" -> Same(SetStatus(resp, 500, Failed))
        [] OTHER -> Same(SetStatus(resp, 404, NotFound))

BodyOf(resp) == IF resp.body2 # <<>> THEN resp.body2 ELSE resp.body
ResponsePieces(resp) ==
  HttpEncode(<<"HTTP/1.1", resp.status>>, <<CR, LF>>, <<>>, BodyOf(resp))

HttpWait(x) ==
  /\ Reading(x) /\ HttpRead(x).res = "NotComplete"
  /\ Becomes(x, [con[x] EXCEPT !.http = HttpRead(x).m, !.loops = 0])
  /\ UNCHANGED <<mode, nsent, wire, reset, got, handed, taken>>

\* close() of a connection that is in cleanup queues a task that does nothing.
HttpError(x) ==
  /\ Reading(x) /\ HttpRead(x).res = "Error"
  /\ Becomes(x, [con[x] EXCEPT !.http = HttpRead(x).m, !.loops = 0, !.closing = TRUE])
  /\ UNCHANGED <<mode, nsent, wire, reset, got, handed, taken>>

\* The client's callback; sendRequest will clear the response.
HttpResponseComes ==
  /\ Reading("cli") /\ HttpRead("cli").res = "Complete"
  /\ Becomes("cli", [con["cli"] EXCEPT !.http = HttpRead("cli").m, !.loops = 0])
  /\ Deliver("cli", [line |-> HttpRead("cli").m.line, body |-> HttpRead("cli").m.body])
  /\ UNCHANGED <<mode, nsent, wire, reset, handed, taken>>

\* sendResponse up to its sendOutput.
SendResponse(c, resp, n) ==
  ClearData([c EXCEPT !.out = AppendAll(@, ResponsePieces(resp))], n)

\* The server's callback sends its response; if that fails the request is
\* consumed already.
HttpRequestComes ==
  /\ Reading("svr") /\ HttpRead("svr").res = "Complete"
  /\ LET h == HttpRead("svr").m
         a == Handler(h.line[2], con["svr"].resp)
         d == [SendResponse(con["svr"], a.send, h.scanned) EXCEPT !.resp = a.resp, !.loops = 0]
     IN  /\ \/ /\ ~reset
               /\ Becomes("svr", SentOutput("svr", d))
               /\ Write("svr", Data(d.out))
            \/ SendFails("svr", d) /\ UNCHANGED wire
         /\ Hand("svr", ResponsePieces(a.send))
         /\ Deliver("svr", [uri |-> h.line[2], body |-> h.body])
         /\ Took("svr", h.scanned)
  /\ UNCHANGED <<mode, nsent, reset>>

-------------------------------------------------------------------------------
Step(x) ==
  \/ HandleRead(x) \/ ReadAgain(x) \/ HandleWrite(x) \/ BeginCleanup(x) \/ EndCleanup(x)
  \/ LoopMsg(x) \/ LoopEnd(x) \/ LoopError(x)
  \/ HttpWait(x) \/ HttpError(x)

ClientSends == SendMsg \/ SendRaw \/ SendRequest
Callbacks == EchoRaw \/ TakeRaw \/ HttpRequestComes \/ HttpResponseComes

Next ==
  \/ \E x \in Sides : Step(x)
  \/ ClientSends \/ Callbacks \/ ClientClose \/ Reset

Spec == Init /\ [][Next]_vars

-------------------------------------------------------------------------------
(* Properties.                                                              *)

Pieces(x, m) ==
  CASE Framed -> Encode(CodecOf(x), m)
    [] Proto = "raw" -> <<m>>
    [] Proto = "http" -> RequestPieces(m)

Flat(pieces) == FlattenSeq(pieces)
Sent(msgs) == FlattenSeq([i \in DOMAIN msgs |-> Flat(Pieces("cli", msgs[i]))])

\* What the server must answer to m.
Right(m) ==
  LET Answer(status, body) == [line |-> <<"HTTP/1.1", status>>, body |-> body]
  IN  CASE m.uri = "hello" -> Answer(200, <<<<"hello">>>>)
        [] m.uri = "file" -> Answer(200, FileBytes)
        [] m.uri = "badfile" -> Answer(500, <<Failed>>)
        [] OTHER -> Answer(404, <<NotFound>>)

\* Every byte that was handed to the connection at one end is, in order and
\* once, consumed at the other end, in its input_, in flight, or in output_:
\* through appends, partial writes, absorbed and swapped buffers, compaction
\* and growth.  (net.cc makeRoom, expand, absorb; conn.cc send, handleRead.)
StreamIntact ==
  LET Rest(x) == SubSeq(handed[Peer(x)], taken[x] + 1, Len(handed[Peer(x)]))
      Path(x) == Data(con[x].in) \o wire[x] \o Data(con[Peer(x)].out)
  IN  ~reset => \A x \in Sides : Rest(x) = Path(x)

\* The messages of the list that arrive whole in its first n tokens, up to the
\* first one the server rejects.
Rejected(m) ==
  \/ Proto = "length" /\ Len(m) > MaxBody
  \/ Proto = "http" /\ Has(m.hdr, BadHeader)
Whole(n) ==
  Max({k \in 0..Len(mode.msgs) :
         /\ Len(Sent(SubSeq(mode.msgs, 1, k))) <= n
         /\ \A i \in 1..k : ~Rejected(mode.msgs[i])})

\* An empty message in brackets at the end of what has arrived: decoded only
\* when more arrives.
Held(x) == Proto = "bracket" /\ Data(con[x].in) = <<Opening, Closing>>

Given(msgs) == IF Proto = "http" THEN [i \in DOMAIN msgs |-> [uri |-> msgs[i].uri, body |-> msgs[i].body]]
                                 ELSE msgs

\* Whenever no callback is running, the server's callback has been given
\* exactly the messages that have arrived whole, each once and in order,
\* however the stream was cut; and the client's the answers to a prefix of
\* them.  (codec.cc tryDecode; onMsg; http.cc tryDecode_, handleRead, clearData.)
FramedExactly ==
  LET arrived == taken["svr"] + Size(con["svr"].in)
      whole == Given(SubSeq(mode.msgs, 1, Whole(arrived)))
      answers == IF Proto = "http" THEN [i \in DOMAIN got["svr"] |-> Right(got["svr"][i])]
                                   ELSE got["svr"]
  IN  Proto # "raw" /\ (reset => mode.quiet) =>
        /\ con["svr"].state = "open" /\ con["svr"].loops = 0 =>
             got["svr"] = IF Held("svr") THEN SubSeq(whole, 1, Len(whole) - 1) ELSE whole
        /\ IsPrefix(got["cli"], answers)

\* Neither loop has an event to wait for and the client has no more to send.
Quiet ==
  /\ ~MaySend /\ ~reset
  /\ \A x \in Sides : wire[x] = <<>> /\ con[x].loops = 0 /\ con[x].state = "open"
                      /\ ~con[x].wen /\ ~con[x].closing

\* When nothing is left to happen, everything the client sent has been answered
\* and the client has the answers, but for an empty message in brackets that
\* either end holds: no data stays in a buffer without a write event, no complete
\* message in the input.  (As no step can repeat for ever, this is the liveness
\* of the exchange.)
NothingStranded ==
  LET held == Cardinality({x \in Sides : Held(x)})
  IN  Quiet /\ ~mode.quiet =>
        /\ Size(con["svr"].in) = IF Held("svr") THEN 2 ELSE 0
        /\ IF Proto = "raw" THEN got["cli"] = FlattenSeq(mode.msgs)
                            ELSE Len(got["cli"]) = Len(mode.msgs) - held

\* A message is handed to the callback at most once, also when the answer
\* cannot be sent because the peer is gone.
DeliveredOnce == Framed => IsPrefix(got["svr"], mode.msgs)
===============================================================================
