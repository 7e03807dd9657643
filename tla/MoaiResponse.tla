----------------------------- MODULE MoaiResponse -----------------------------
(***************************************************************************)
(* How Moai finds out where a response ends: scanHttpFirst (the Outer      *)
(* half), MoaiHttp_processResponse_forText with its chunk reader, the      *)
(* receive functions of Moai_io_base, and the relaying in doLocalProxy,    *)
(* for one connection and a server that answers what it was asked.         *)
(*                                                                         *)
(* A stream is a sequence of cells: "H" is a whole header (received in one *)
(* piece: the loops of recvInPtn that collect it have no other effect),    *)
(* "r" and "n" are CR and LF, "0", "1", ... the digits of a chunk size and *)
(* everything else is data.  Compression, filters and the wording of       *)
(* headers are left out; gzip bodies are taken for their inflated text.    *)
(***************************************************************************)
EXTENDS Integers, Sequences, SequencesExt

CONSTANTS
  Scripts,    \* the conversations: sequences of messages
  Digits,     \* the sizes a chunk may have: Digits[n + 1] is how n is written
  CheckSize,  \* check_size, sizeof(size_t)*2+2 in the code
  BufSize,    \* the buffer of one recv, 4096 in the code
  Pipelined,  \* does the browser ask again before it has its answer?
  FaultSets   \* what may go wrong in a conversation: of "errno" (a call before left errno set: the non-blocking
              \* connect, a recv that met EAGAIN), "timeout", "reset", "fin"
              \* (the server closes instead of sending the last chunk)

Cells == {"H", "r", "n", "x", "y"} \cup Range(Digits)

\* chunks: the body, in pieces; ok: status 200; text: html, css, js or no type;
\* "implicit": chunks that no Transfer-Encoding announces.
Anything ==
  [method : {"GET", "HEAD"}, ok : BOOLEAN, text : BOOLEAN,
   framing : {"length", "chunked", "implicit", "none"}, chunks : Seq(Seq(Cells))]

Coded(m) == m.framing \in {"chunked", "implicit"} /\ m.method = "GET"

\* A chunk is not empty, the last one excepted, and its size can be written.
Messages ==
  {m \in Anything :
     Coded(m) => \A i \in DOMAIN m.chunks : Len(m.chunks[i]) \in 1 .. Len(Digits) - 1}

ASSUME ResponseAssumption ==
  /\ Digits \in Seq(STRING \ {"H", "r", "n"}) /\ Digits # <<>>
  /\ \A d, e \in DOMAIN Digits : Digits[d] = Digits[e] => d = e
  /\ Scripts \subseteq Seq(Messages)
  /\ CheckSize \in Nat /\ CheckSize > 2
  /\ BufSize \in Nat \ {0}
  /\ Pipelined \in BOOLEAN
  /\ FaultSets \subseteq SUBSET {"errno", "timeout", "reset", "fin"}

VARIABLES
  script,  \* the conversation
  faults,  \* what may go wrong in it
  asked,   \* requests invoked (the methods in invoked_info_id_list_)
  sent,    \* messages the server has sent
  net,     \* sent and not yet received
  eof,     \* the server has closed after its last message
  errno,   \* is errno non-zero?
  open,    \* mcn->O_sock_ # INVALID
  remain,  \* mcn->res_content_length_remain_
  ridx,    \* mcn->response_idx_
  pc,      \* where the thread is
  stream,  \* draft_info->stream_
  mode,    \* which branch of processResponse_forText is taken
  total,   \* result_size of the chunk reader
  cbegin,  \* chunk_begin
  csize,   \* chunk_size
  goal,    \* size of stream at which the running recvBySize ends
  mark,    \* old_bfr_size
  text,    \* was the body made ctx->text_?
  out      \* what the browser has received

query == <<script, faults, asked, sent>>
server == <<query, eof>>
chunk == <<total, cbegin, csize>>
loop == <<goal, mark>>
vars == <<script, faults, asked, sent, net, eof, errno, open, remain, ridx, pc, stream,
          mode, total, cbegin, csize, goal, mark, text, out>>

-----------------------------------------------------------------------------
\* Messages.

Body(m) == FlattenSeq(m.chunks)

Chunk(c) == <<Digits[Len(c) + 1], "r", "n">> \o c \o <<"r", "n">>

Wire(m) ==
  <<"H">> \o
  CASE m.method = "HEAD" -> <<>>
    [] Coded(m) -> FlattenSeq([i \in DOMAIN m.chunks |-> Chunk(m.chunks[i])]) \o Chunk(<<>>)
    [] OTHER -> Body(m)

WithoutLast(m) == SubSeq(Wire(m), 1, Len(Wire(m)) - Len(Chunk(<<>>)))

\* The server closes after a body whose length it does not tell; with other
\* states than 200 there may be none (304), which ends with its header.
Closing(m) == m.framing = "none" /\ m.method = "GET" /\ (m.ok \/ Body(m) # <<>>)

\* The message whose header comes next, and the one before it.
Coming == script[ridx + 1]
Current == script[ridx]

ContentLength(m) == IF m.framing = "length" THEN Len(Body(m)) ELSE 0

\* Mutant: is_unlimited_ is not reset for other states than 200.
UnlimitedAny(m) == m.framing # "chunked" /\ ContentLength(m) = 0
\* is_unlimited_ after parseHdr and the look at the status.
Unlimited(m) == m.framing # "chunked" /\ ContentLength(m) = 0 /\ m.ok

\* The method that decides whether a body is awaited: of the LAST request.
LastMethod == script[asked].method

\* Header items carry the Content-Length that Moai has put there, or -1.
Raw(s) == [i \in DOMAIN s |-> <<s[i], -1>>]
Headed(n, s) == <<<<"H", n>>>> \o Raw(s)

-----------------------------------------------------------------------------
\* Looking into a stream; positions count from 1, offsets from 0 as in C.

LineEnds(s, from) ==
  {i \in from + 1 .. Len(s) : s[i] = "H" \/ (s[i] = "r" /\ i < Len(s) /\ s[i + 1] = "n")}

HasLine(s, from) == LineEnds(s, from) # {}

FirstEnd(s, from) == CHOOSE i \in LineEnds(s, from) : \A j \in LineEnds(s, from) : i <= j

SizeLine(s, from) == SubSeq(s, from + 1, FirstEnd(s, from) - 1)

BrokenSize(line) ==
  Len(line) = 0 \/ Len(line) > CheckSize - 2 \/ \E i \in DOMAIN line : line[i] \notin Range(Digits)

SizeOf(line) == (CHOOSE d \in DOMAIN Digits : Digits[d] = line[Len(line)]) - 1

\* Mutant: one cell less is erased.
ErasedLess(s, pos, len) ==
  IF pos <= Len(s) THEN SubSeq(s, 1, pos) \o SubSeq(s, pos + len, Len(s))
  ELSE s \o [i \in 1 .. pos - Len(s) |-> "y"]
\* ZnkBfr_erase: beyond the end it makes the buffer grow, with old memory.
Erased(s, pos, len) ==
  IF pos <= Len(s) THEN SubSeq(s, 1, pos) \o SubSeq(s, pos + len + 1, Len(s))
  ELSE s \o [i \in 1 .. pos - Len(s) |-> "y"]

\* Mutant: the size_t is not kept from going below 0.
LessBelow(n, size) == n - size
\* updateContentLengthRemain
Less(n, size) == IF n >= size THEN n - size ELSE 0

-----------------------------------------------------------------------------
Init ==
  /\ script \in Scripts /\ faults \in FaultSets
  /\ asked = 0 /\ sent = 0 /\ net = <<>> /\ eof = FALSE
  /\ errno = FALSE /\ open = TRUE /\ remain = 0 /\ ridx = 0
  /\ pc = "Select" /\ stream = <<>> /\ mode = "length"
  /\ total = 0 /\ cbegin = 0 /\ csize = 0 /\ goal = 0 /\ mark = 0
  /\ text = FALSE /\ out = <<>>

\* What the browser should have when n responses have been passed on: the
\* same bytes, or the whole body under its length where Moai translates.
Translated(m) == m.method = "GET" /\ (m.text \/ Unlimited(m))
Expected(m) == IF Translated(m) THEN Headed(Len(Body(m)), Body(m)) ELSE Raw(Wire(m))
Answers(n) == FlattenSeq([i \in 1 .. n |-> Expected(script[i])])

\* The errno that may be left when a call has succeeded.
LeftErrno == {errno} \cup (IF "errno" \in faults THEN {TRUE} ELSE {})

\* The browser's next request is invoked; a closed O socket is opened anew.
Ask ==
  /\ pc = "Select" /\ asked < Len(script) /\ ~eof
  /\ Pipelined \/ out = Answers(asked)
  /\ asked' = asked + 1
  /\ open' = TRUE
  /\ sent' = IF open THEN sent ELSE asked
  /\ errno' \in LeftErrno
  /\ UNCHANGED <<script, faults, net, eof, remain, ridx, pc, stream, mode, chunk, loop, text, out>>

ServerSend ==
  LET m == script[sent + 1] IN
  /\ open /\ ~eof /\ sent < asked
  /\ sent' = sent + 1
  /\ \/ net' = net \o Wire(m) /\ eof' = Closing(m)
     \/ "fin" \in faults /\ Coded(m) /\ net' = net \o WithoutLast(m) /\ eof' = TRUE
  /\ UNCHANGED <<script, faults, asked, errno, open, remain, ridx, pc, stream, mode, chunk, loop, text, out>>

-----------------------------------------------------------------------------
\* ZnkSocket_recv: n cells; EAGAIN before them leaves its errno behind.
Recv(n) ==
  /\ open /\ n \in 1 .. BufSize /\ n <= Len(net)
  /\ net' = SubSeq(net, n + 1, Len(net))
  /\ errno' \in LeftErrno

RecvZero == open /\ eof /\ net = <<>>

\* Mutant: recv waits for as long as nothing comes.
RecvErrorNot == ~open \/ faults \cap {"timeout", "reset"} # {}
\* recv gives up after its retries, or fails at once on a closed socket.
RecvError ==
  \/ ~open
  \/ net = <<>> /\ ~eof /\ sent = asked
  \/ faults \cap {"timeout", "reset"} # {}

CloseO == open' = FALSE /\ net' = <<>> /\ eof' = FALSE

\* The receives that go on until stream is long enough.
Sized == {"Detect", "ChunkData", "Size"}

NeedsMore ==
  \/ pc = "Line" /\ ~HasLine(stream, 0)
  \/ pc \in Sized /\ Len(stream) < goal
  \/ pc = "ChunkWait" /\ ~HasLine(stream, mark)
  \/ pc = "Zero"

RecvMore ==
  /\ NeedsMore
  /\ \E n \in 1 .. BufSize : Recv(n) /\ stream' = stream \o SubSeq(net, 1, n)
  /\ UNCHANGED <<server, open, remain, ridx, pc, mode, chunk, loop, text, out>>

-----------------------------------------------------------------------------
\* scanHttpFirst: the first recv.  As long as remain says so, it is body.
FirstBody ==
  /\ pc = "Select" /\ remain > 0
  /\ \E n \in 1 .. remain :
       Recv(n) /\ remain' = remain - n /\ out' = out \o Raw(SubSeq(net, 1, n))
  /\ UNCHANGED <<server, open, ridx, pc, stream, mode, chunk, loop, text>>

FirstRecv ==
  /\ pc = "Select"
  /\ \E n \in remain + 1 .. BufSize : Recv(n) /\ stream' = SubSeq(net, 1, n)
  /\ remain' = 0
  /\ pc' = "Line"
  /\ UNCHANGED <<server, open, ridx, mode, chunk, loop, text, out>>

\* RecvZero or RecvError at the start: MoaiConnection_erase, which clears the
\* list of what was invoked; the browser connects anew.
FirstEof ==
  /\ pc = "Select" /\ open /\ (RecvZero \/ "reset" \in faults)
  /\ CloseO
  /\ remain' = 0
  /\ ridx' = asked
  /\ UNCHANGED <<query, errno, pc, stream, mode, chunk, loop, text, out>>

\* recvInPtn gives up: O is closed, what was received is dropped.
LineCut ==
  /\ pc = "Line" /\ NeedsMore /\ (RecvZero \/ RecvError)
  /\ CloseO
  /\ errno' \in {errno, TRUE}
  /\ pc' = "Select"
  /\ UNCHANGED <<query, remain, ridx, stream, mode, chunk, loop, text, out>>

\* NotHttpStart: relayed as it is.
LineBody ==
  /\ pc = "Line" /\ HasLine(stream, 0) /\ stream[1] # "H"
  /\ out' = out \o Raw(stream)
  /\ pc' = "Select"
  /\ UNCHANGED <<server, net, errno, open, remain, ridx, mode, chunk, loop, stream, text>>

\* A header: the length that remains, and what to do with the body.
\* Mutant: a body of unknown length is taken for one of the declared length.
ModeOfLength(m) == IF m.framing = "chunked" THEN "chunked" ELSE "length"
ModeOf(m) == IF Unlimited(m) THEN "unlimited" ELSE IF m.framing = "chunked" THEN "chunked" ELSE "length"

\* Mutant: the Content-Length of an answer to HEAD counts.
RemainingHead(m) == Less(ContentLength(m), Len(stream) - 1)
Remaining(m) == IF m.method = "HEAD" THEN 0 ELSE Less(ContentLength(m), Len(stream) - 1)

\* MoaiHttp_processResponse_forText is called for text and unlimited bodies.
Processed(m) == LastMethod # "HEAD" /\ (m.text \/ Unlimited(m))

\* (A header that nobody asked for is not modelled: see Headlike.)
LineHead ==
  LET m == Coming IN
  /\ pc = "Line" /\ stream # <<>> /\ stream[1] = "H" /\ ridx < asked
  /\ ridx' = ridx + 1
  /\ remain' = Remaining(m)
  /\ mode' = ModeOf(m)
  /\ text' = Processed(m)
  /\ total' = 0 /\ cbegin' = 1
  /\ pc' = IF ~Processed(m) THEN "Reply"
           ELSE IF ModeOf(m) = "chunked" THEN "Chunk"
           ELSE IF ModeOf(m) = "unlimited" \/ Remaining(m) > 0 THEN "Detect"
           ELSE "Reply"
  /\ mark' = Len(stream)
  /\ goal' = 1 + CheckSize
  /\ UNCHANGED <<server, net, errno, open, stream, csize, out>>

-----------------------------------------------------------------------------
\* detectChunkedBodyBegin reads CheckSize cells of the body and looks for a
\* chunk size, whatever the header said.
Detected == HasLine(stream, 1) /\ ~BrokenSize(SizeLine(stream, 1))

DetectDone ==
  /\ pc = "Detect" /\ Len(stream) >= goal
  /\ total' = Len(stream) - mark
  /\ remain' = IF mode = "unlimited" THEN remain ELSE Less(remain, Len(stream) - mark)
  /\ pc' = IF Detected THEN "Chunk" ELSE IF mode = "unlimited" THEN "Zero" ELSE "Size"
  /\ goal' = Len(stream) + remain'
  /\ UNCHANGED <<server, net, errno, open, ridx, stream, mode, cbegin, csize, mark, text, out>>

\* recvBySize fails: O is closed and the body taken for unchunked.
DetectCut ==
  /\ pc = "Detect" /\ NeedsMore /\ (RecvZero \/ RecvError)
  /\ CloseO
  /\ errno' \in {errno, TRUE}
  /\ pc' = IF mode = "unlimited" THEN "Zero" ELSE "Size"
  /\ goal' = Len(stream) + remain
  /\ UNCHANGED <<query, remain, ridx, stream, mode, chunk, mark, text, out>>

\* parseChunkData ends; a broken size line falls back to the declared length.
ChunkEnd(broken, received) ==
  /\ remain' = IF mode = "unlimited" THEN remain ELSE Less(remain, received)
  /\ pc' = IF ~broken THEN "Reply" ELSE IF mode = "unlimited" THEN "Zero" ELSE "Size"
  /\ goal' = Len(stream') + remain'

\* The size line is cut out of the stream, then its chunk is received.
ChunkSize ==
  LET line == SizeLine(stream, cbegin) IN
  /\ pc = "Chunk" /\ HasLine(stream, cbegin)
  /\ ~BrokenSize(line)
  /\ stream' = Erased(stream, cbegin, Len(line) + 2)
  /\ csize' = SizeOf(line)
  /\ pc' = "ChunkData"
  /\ goal' = cbegin + SizeOf(line) + 2
  /\ mark' = Len(stream')
  /\ UNCHANGED <<server, net, errno, open, remain, ridx, mode, total, cbegin, text, out>>

ChunkBroken ==
  /\ pc = "Chunk" /\ HasLine(stream, cbegin) /\ BrokenSize(SizeLine(stream, cbegin))
  /\ stream' = stream
  /\ ChunkEnd(TRUE, total)
  /\ UNCHANGED <<server, net, errno, open, ridx, mode, chunk, mark, text, out>>

\* recvByPtn2 looks for the line's end in what it receives itself only.
ChunkLineAbsent ==
  /\ pc = "Chunk" /\ ~HasLine(stream, cbegin)
  /\ pc' = "ChunkWait"
  /\ mark' = Len(stream)
  /\ UNCHANGED <<server, net, errno, open, remain, ridx, stream, mode, chunk, goal, text, out>>

ChunkLineCame ==
  /\ pc = "ChunkWait" /\ HasLine(stream, mark)
  /\ total' = total + FirstEnd(stream, mark) + 1 - mark
  /\ pc' = "Chunk"
  /\ UNCHANGED <<server, net, errno, open, remain, ridx, stream, mode, cbegin, csize, loop, text, out>>

ChunkLineEof ==
  /\ pc = "ChunkWait" /\ NeedsMore /\ RecvZero
  /\ total' = total + Len(stream) - mark
  /\ stream' = stream
  /\ \/ HasLine(stream, cbegin) /\ pc' = "Chunk" /\ UNCHANGED <<remain, goal>>
     \/ ~HasLine(stream, cbegin) /\ ChunkEnd(FALSE, total')
  /\ UNCHANGED <<server, net, errno, open, ridx, mode, cbegin, csize, mark, text, out>>

ChunkLineCut ==
  /\ pc = "ChunkWait" /\ NeedsMore /\ RecvError
  /\ CloseO
  /\ errno' = TRUE
  /\ stream' = stream
  /\ ChunkEnd(FALSE, total)
  /\ UNCHANGED <<query, ridx, mode, chunk, mark, text, out>>

\* The CRLF behind a chunk is cut out; a chunk of size 0 is the last.
ChunkTail == Erased(stream, cbegin + csize, 2)

ChunkNext ==
  /\ stream' = ChunkTail
  /\ total' = total + Len(stream) - mark
  /\ \/ csize = 0 /\ ChunkEnd(FALSE, total') /\ cbegin' = cbegin
     \/ csize > 0 /\ cbegin' = cbegin + csize /\ pc' = "Chunk" /\ UNCHANGED <<remain, goal>>

ChunkData ==
  /\ pc = "ChunkData" /\ Len(stream) >= goal
  /\ ChunkNext
  /\ UNCHANGED <<server, net, errno, open, ridx, mode, csize, mark, text, out>>

\* A chunk that breaks off: O is closed, the reader goes on.
ChunkDataCut ==
  /\ pc = "ChunkData" /\ NeedsMore /\ (RecvZero \/ RecvError)
  /\ CloseO
  /\ errno' \in {errno, TRUE}
  /\ ChunkNext
  /\ UNCHANGED <<query, ridx, mode, csize, mark, text, out>>

-----------------------------------------------------------------------------
\* recvBySize of the declared length.
SizeDone ==
  /\ pc = "Size" /\ Len(stream) >= goal
  /\ remain' = 0
  /\ pc' = "Reply"
  /\ UNCHANGED <<server, net, errno, open, ridx, stream, mode, chunk, loop, text, out>>

SizeCut ==
  /\ pc = "Size" /\ NeedsMore /\ (RecvZero \/ RecvError)
  /\ CloseO
  /\ errno' \in {errno, TRUE}
  /\ pc' = "Reply"
  /\ UNCHANGED <<query, remain, ridx, stream, mode, chunk, loop, text, out>>

\* recvByZero: the end of the connection is the end of the body, unless errno
\* is set, which an earlier recv may have done.
ZeroDone ==
  /\ pc = "Zero" /\ RecvZero /\ ~errno
  /\ pc' = "Reply"
  /\ UNCHANGED <<server, net, errno, open, remain, ridx, stream, mode, chunk, loop, text, out>>

ZeroCut ==
  /\ pc = "Zero" /\ (RecvError \/ (RecvZero /\ errno))
  /\ CloseO
  /\ errno' = TRUE
  /\ pc' = "Reply"
  /\ UNCHANGED <<query, remain, ridx, stream, mode, chunk, loop, text, out>>

\* doLocalProxy and sendToDst: nothing is sent if O is closed by now; text
\* goes out as ctx->text_, which is empty if the body was not processed.
Reply ==
  LET body == SubSeq(stream, 2, Len(stream)) IN
  /\ pc = "Reply"
  /\ out' = CASE ~open -> out
              [] open /\ text -> out \o Headed(Len(body), body)
              [] open /\ ~text /\ Current.text -> out \o Headed(-1, <<>>)
              [] OTHER -> out \o Headed(-1, body)
  /\ pc' = "Select"
  /\ UNCHANGED <<server, net, errno, open, remain, ridx, stream, mode, chunk, loop, text>>

-----------------------------------------------------------------------------
Receive == FirstBody \/ FirstRecv \/ FirstEof \/ RecvMore
Scan == LineCut \/ LineBody \/ LineHead
Chunks ==
  \/ ChunkSize \/ ChunkBroken \/ ChunkLineAbsent \/ ChunkLineCame \/ ChunkLineEof
  \/ ChunkLineCut \/ ChunkData \/ ChunkDataCut
Whole == DetectDone \/ DetectCut \/ SizeDone \/ SizeCut \/ ZeroDone \/ ZeroCut \/ Reply

Next == Ask \/ ServerSend \/ Receive \/ Scan \/ Chunks \/ Whole

Spec == Init /\ [][Next]_vars

\* The thread runs, the browser asks and the server answers.
FairSpec == Spec /\ WF_vars(Next)

-----------------------------------------------------------------------------
\* Properties

\* Type invariant.
Items == Cells \X (Nat \cup {-1})
TypeOK ==
  /\ script \in Scripts /\ faults \in FaultSets
  /\ asked \in 0 .. Len(script) /\ sent \in 0 .. asked /\ ridx \in 0 .. asked
  /\ net \in Seq(Cells) /\ stream \in Seq(Cells) /\ out \in Seq(Items)
  /\ {eof, errno, open, text} \subseteq BOOLEAN
  /\ {remain, total, cbegin, csize, goal, mark} \subseteq Nat
  /\ pc \in {"Select", "Line", "Detect", "Chunk", "ChunkWait", "ChunkData", "Size",
              "Zero", "Reply"}
  /\ mode \in {"unlimited", "chunked", "length"}

\* A body that begins like a chunk is taken for one, whatever the header says.
Chunklike(m) ==
  m.method = "GET" /\ ~Coded(m) /\ HasLine(Body(m), 0) /\ ~BrokenSize(SizeLine(Body(m), 0))

\* is_unlimited_ is for status 200 only: of a text with another status whose
\* length is not told only what came with the header is taken for its body.
Untold(m) ==
  /\ m.method = "GET" /\ m.text /\ ~m.ok
  /\ m.framing \in {"implicit", "none"} /\ Len(Wire(m)) > 1

\* Binary data that no length remains of is relayed line by line; data that
\* begins like a header there is not distinguished from one.
Linewise(m) ==
  /\ m.method = "GET" /\ ~m.text /\ ~Unlimited(m)
  /\ m.framing # "length" /\ Len(Wire(m)) > 1

Headlike(m) == Linewise(m) /\ \E i \in 2 .. Len(Wire(m)) : Wire(m)[i] = "H"

Plain ==
  \A i \in DOMAIN script :
    ~Chunklike(script[i]) /\ ~Untold(script[i]) /\ ~Headlike(script[i])

\* What the browser has is, at every moment, the beginning of what the server
\* sent for its requests, with bodies whole and their length right wherever
\* Moai puts a Content-Length: nothing is lost, doubled, cut or moved from one
\* response into another, however recv cuts the stream and whatever fails.
Intact == Plain => IsPrefix(out, Answers(Len(script)))

\* When the server waits, res_content_length_remain_ is exactly what is still
\* to come of a body that is relayed piece by piece, and 0 when a header is due.
FramingSync ==
  Plain /\ pc = "Select" /\ open =>
    remain = IF ridx > 0 /\ ridx = sent /\ Current.framing = "length" THEN Len(net) ELSE 0

\* What Moai drops: bodies shorter than check_size, an empty one with status
\* 200, the end of what is relayed line by line.
Refused(m) ==
  \/ m.method = "GET" /\ Len(Body(m)) \in 1 .. CheckSize - 1
  \/ m.method = "GET" /\ Body(m) = <<>> /\ m.ok
  \/ Linewise(m)

Served == Plain /\ faults = {} /\ \A i \in DOMAIN script : ~Refused(script[i])

\* Nothing is held back: when the server waits and all that came was received,
\* the browser has all the answers.
AllDelivered == Served /\ pc = "Select" /\ net = <<>> => out = Answers(sent)

\* Every request is answered, and the answer reaches the browser.
Delivered == Served => <>(out = Answers(Len(script)))

\* However a conversation goes on that ends some time - with less than the server
\* announced, with a silence, with a reset - the only thread of the process comes
\* back to select.
Returns == []<>(pc = "Select")
=============================================================================
