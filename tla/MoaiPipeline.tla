---------------------------- MODULE MoaiPipeline ----------------------------
(***************************************************************************)
(* The requests inside a connection of the Moai proxy (src/libMoai): the   *)
(* lists of request ids and the response index of Moai_connection.c, the   *)
(* registry of Moai_info.c, the handler doLocalProxy of Moai_server.c and  *)
(* the confirmation of POSTs (post_confirm).                               *)
(*                                                                         *)
(* MoaiServer models the sockets and the loop around them; here a          *)
(* connection's two sockets are only open, connecting or closed.  A host   *)
(* stands for a host name and a port.  A request is the id of its MoaiInfo *)
(* object: ids are issued in sequence and never issued again (issueNewID   *)
(* adds the time to a counter).  Each request is assumed to arrive whole.  *)
(*                                                                         *)
(* Assumed of browsers, as scanHttpFirst does: POST and CONNECT are not    *)
(* pipelined, and a tunnel carries no further requests.  Assumed of        *)
(* servers: they answer in order (but see "extra").                        *)
(***************************************************************************)
EXTENDS Naturals, Sequences

CONSTANTS
  Conns,         \* addresses of connection records
  Hosts,         \* hosts that requests are for
  ConfirmHosts,  \* post_confirm_hosts while post_confirm is on
  TunnelHosts,   \* hosts that are asked for with CONNECT
  ParentHosts,   \* hosts reached through the parent proxy
  NoHost,        \* hostname_ empty, or the name of the web server itself
  NoConn,        \* no connection
  MaxReq,        \* bound: number of requests
  Faults         \* "send": a send fails; "extra": servers send interim or
                 \* unsolicited responses (100 Continue, 408)

Ids == 1..MaxReq

ASSUME PipelineAssumption ==
  /\ ConfirmHosts \subseteq Hosts /\ TunnelHosts \subseteq Hosts
  /\ ParentHosts \subseteq Hosts
  /\ ConfirmHosts \cap TunnelHosts = {}
  /\ NoHost \notin Hosts
  /\ NoConn \notin Conns
  /\ MaxReq \in Nat
  /\ Faults \subseteq {"send", "extra"}

VARIABLES
  conn,      \* the connection records (one that is not in the table is Fresh)
  method,    \* req_method_ of the registered MoaiInfo, "none" if there is none
  next,      \* ids issued so far
  calling,   \* the connection MoaiConnection_invokeCallback works on
  at,        \* its loop index
  up,        \* the process is running
  wire,      \* servers: requests sent over the current O and not answered
  await,     \* browsers: number of requests that wait for a response
  tunnel,    \* browsers: the connection was answered to be a tunnel
  goal,      \* history: the host each request is for
  shown,     \* history: POSTs for which a confirmation page was sent
  approved,  \* history: those of them for which Send was pressed
  sent       \* history: requests sent to a server

code   == <<conn, method, next, calling, at, up>>
world  == <<wire, await, tunnel>>
hist   == <<goal, shown, approved, sent>>
vars   == <<code, world, hist>>

Methods == {"GET", "POST", "CONNECT"}

\* MoaiConnection_tag: I_sock_ is open, hostname_ and port_, O_sock_, cb_func_,
\* info_id_list_, invoked_info_id_list_, response_idx_
Conn == [I : BOOLEAN, host : Hosts \cup {NoHost},
         O : {"none", "connecting", "up"}, cb : Methods \cup {"none"},
         pend : Seq(Ids), inv : Seq(Ids), ridx : Nat]
Fresh == [I |-> FALSE, host |-> NoHost, O |-> "none", cb |-> "none",
          pend |-> <<>>, inv |-> <<>>, ridx |-> 0]

\* The thread waits in select, or serves a socket for which nothing is invoked.
Serving == up /\ calling = NoConn

Listed(q) == {q[i] : i \in DOMAIN q}

-----------------------------------------------------------------------------
\* Connection records

\* Mutant: the response index is not reset.
ClearedNot(r) == [Fresh EXCEPT !.cb = r.cb, !.ridx = r.ridx]
\* MoaiConnection_clear: everything but the callback
Cleared(r) == [Fresh EXCEPT !.cb = r.cb]

\* eraseInvokedInfo: the MoaiInfos in S go.  (MoaiInfo_erase leaves index 0
\* out, which is the draft of the context and in no list.)
Forget(S) == method' = [id \in Ids |-> IF id \in S THEN "none" ELSE method[id]]

\* What browser and server have of connection c is gone.
CutOff(c) ==
  /\ wire' = [wire EXCEPT ![c] = <<>>]
  /\ await' = [await EXCEPT ![c] = 0]
  /\ tunnel' = [tunnel EXCEPT ![c] = FALSE]

\* Mutant: O_sock_ is not set to ZnkSocket_INVALID after the close.
RecycledKept(r, h) == IF r.host = h THEN r
                      ELSE [r EXCEPT !.host = h, !.O = "closed"]
\* SrcRecycle: a request for another host closes O; the lists stay.
Recycled(r, h) == IF r.host = h THEN r
                  ELSE [r EXCEPT !.host = h, !.O = "none"]

\* Mutant: the pending requests are kept.
ConnectedNot(r, o) == IF r.O # "none" THEN r ELSE [r EXCEPT !.O = o]
\* MoaiConnection_connectO: a new O drops the pending requests.
Connected(r, o) == IF r.O # "none" THEN r
                   ELSE [r EXCEPT !.O = o, !.pend = <<>>]

\* Mutant: nothing is invoked.
CallNot(c) == UNCHANGED <<calling, at>>
\* MoaiConnection_invokeCallback is entered for c.
Call(c) == calling' = c /\ at' = 1

\* MoaiInfo_regist: a MoaiInfo for a request m for host h
NewInfo(h, m) ==
  /\ next < MaxReq
  /\ next' = next + 1
  /\ method' = [method EXCEPT ![next + 1] = m]
  /\ goal' = [goal EXCEPT ![next + 1] = h]

\* MoaiConnection_pushConnectedEvent
Pushed(r, cb, id) == [r EXCEPT !.cb = cb, !.pend = Append(@, id)]

-----------------------------------------------------------------------------
Init ==
  /\ conn = [c \in Conns |-> Fresh]
  /\ method = [id \in Ids |-> "none"] /\ next = 0
  /\ calling = NoConn /\ at = 1 /\ up = TRUE
  /\ wire = [c \in Conns |-> <<>>]
  /\ await = [c \in Conns |-> 0]
  /\ tunnel = [c \in Conns |-> FALSE]
  /\ goal = [id \in Ids |-> NoHost]
  /\ shown = {} /\ approved = {} /\ sent = {}

\* A browser connects: the first record without I is cleared for it, or a new
\* one is made.
Accept(c) ==
  /\ Serving /\ ~conn[c].I
  /\ conn[c] = Fresh => \A d \in Conns : conn[d] # Fresh => conn[d].I
  /\ conn' = [conn EXCEPT ![c] = [Cleared(@) EXCEPT !.I = TRUE]]
  /\ Forget(Listed(conn[c].inv))
  /\ CutOff(c)
  /\ UNCHANGED <<next, calling, at, up, hist>>

\* Either end closes, or the connection is exiled: the record is erased.
End(c) ==
  /\ Serving /\ conn[c] # Fresh
  /\ conn' = [conn EXCEPT ![c] = Fresh]
  /\ Forget(Listed(conn[c].inv))
  /\ CutOff(c)
  /\ UNCHANGED <<next, calling, at, up, hist>>

\* One socket alone is closed: a header or body breaks off, a reply is not
\* kept alive, a connect times out, the proxy settings change.
CloseI(c) ==
  /\ Serving /\ conn[c].I
  /\ conn' = [conn EXCEPT ![c].I = FALSE]
  /\ await' = [await EXCEPT ![c] = 0]
  /\ tunnel' = [tunnel EXCEPT ![c] = FALSE]
  /\ UNCHANGED <<method, next, calling, at, up, wire, hist>>

CloseO(c) ==
  /\ Serving /\ conn[c].O # "none"
  /\ conn' = [conn EXCEPT ![c].O = "none"]
  /\ wire' = [wire EXCEPT ![c] = <<>>]
  /\ UNCHANGED <<method, next, calling, at, up, await, tunnel, hist>>

-----------------------------------------------------------------------------
\* Requests

\* A request m for host h arrives on c; its MoaiInfo is registered, and id is
\* pushed with callback cb.  o is what a new O becomes.
Request(c, h, m, cb, id, o) ==
  LET r == Recycled(conn[c], h)
      q == Connected(r, o)
  IN
  /\ Serving /\ conn[c].I /\ ~tunnel[c]
  /\ m # "GET" => await[c] = 0
  /\ r.O # "none" => o = "up"
  /\ NewInfo(h, m)
  /\ conn' = [conn EXCEPT ![c] = Pushed(q, cb, id)]
  /\ wire' = [wire EXCEPT ![c] = IF r.O = "none" THEN <<>> ELSE @]
  /\ IF q.O = "up" THEN Call(c) ELSE UNCHANGED <<calling, at>>
  /\ UNCHANGED <<up, tunnel, sent>>

\* A request that is sent on as it is
Direct(h, m) == \/ m = "CONNECT" /\ h \in TunnelHosts
                \/ m = "GET" /\ h \notin TunnelHosts
                \/ m = "POST" /\ h \notin TunnelHosts \cup ConfirmHosts

Ask(c, h, m, o) ==
  /\ Direct(h, m)
  /\ Request(c, h, m, m, next + 1, o)
  /\ await' = [await EXCEPT ![c] = @ + 1]
  /\ UNCHANGED <<shown, approved>>

\* A POST that waits for the user: the browser gets a page with its id, the
\* callback is NULL.
AskConfirm(c, h, o) ==
  /\ h \in ConfirmHosts
  /\ Request(c, h, "POST", "none", next + 1, o)
  /\ shown' = shown \cup {next + 1}
  /\ UNCHANGED <<await, approved>>

\* The user presses Send: the POST of the page has an id of its own, but the
\* one it names is pushed.
Submit(c, id, o) ==
  /\ id \in shown \ approved
  /\ Request(c, goal[id], "POST", "POST", id, o)
  /\ approved' = approved \cup {id}
  /\ await' = [await EXCEPT ![c] = @ + 1]
  /\ UNCHANGED shown

\* No O socket can be had: the pending requests are dropped and I is closed.
RequestFail(c, h, m) ==
  LET r == Recycled(conn[c], h) IN
  /\ Serving /\ conn[c].I /\ ~tunnel[c]
  /\ m # "GET" => await[c] = 0
  /\ r.O = "none"
  /\ NewInfo(h, m)
  /\ conn' = [conn EXCEPT ![c] = [Connected(r, "none") EXCEPT !.I = FALSE]]
  /\ CutOff(c)
  /\ UNCHANGED <<calling, at, up, sent>>

AskFail(c, h, m) ==
  /\ Direct(h, m)
  /\ RequestFail(c, h, m)
  /\ UNCHANGED <<shown, approved>>

AskConfirmFail(c, h) ==
  /\ h \in ConfirmHosts
  /\ RequestFail(c, h, "POST")
  /\ shown' = shown \cup {next + 1}
  /\ UNCHANGED approved

SubmitFail(c, id) ==
  /\ id \in shown \ approved
  /\ RequestFail(c, goal[id], "POST")
  /\ approved' = approved \cup {id}
  /\ UNCHANGED shown

\* A request that Moai answers itself, or refuses (close), and that is not for
\* the host of the last one: O is recycled.  Nothing is registered.
AskWeb(c, h, close) ==
  /\ Serving /\ conn[c].I /\ ~tunnel[c]
  /\ conn[c].host # h
  /\ close \/ h = NoHost
  /\ conn' = [conn EXCEPT ![c] = [Recycled(@, h) EXCEPT !.I = ~close]]
  /\ wire' = [wire EXCEPT ![c] = <<>>]
  /\ await' = [await EXCEPT ![c] = IF close THEN 0 ELSE @]
  /\ UNCHANGED <<method, next, calling, at, up, tunnel, hist>>

\* A connect in progress completes.
ConnectDone(c) ==
  /\ Serving /\ conn[c].O = "connecting"
  /\ conn' = [conn EXCEPT ![c].O = "up"]
  /\ Call(c)
  /\ UNCHANGED <<method, next, up, world, hist>>

-----------------------------------------------------------------------------
\* MoaiConnection_invokeCallback: cb_func_ is called for each pending id

Return == calling' = NoConn /\ at' = 1

\* cb_func_ is NULL.
InvokeNull(c) ==
  /\ up /\ calling = c /\ conn[c].cb = "none"
  /\ Return
  /\ UNCHANGED <<conn, method, next, up, world, hist>>

\* The callback is about to be called for the id at the loop index.
Invoking(c) ==
  /\ up /\ calling = c /\ conn[c].cb # "none" /\ at <= Len(conn[c].pend)
  /\ method[conn[c].pend[at]] # "none"

\* sendOnConnected_GET or _POST
InvokeSend(c) ==
  /\ Invoking(c) /\ conn[c].cb \in {"GET", "POST"}
  /\ LET id == conn[c].pend[at] IN
     /\ conn' = [conn EXCEPT ![c].inv = Append(@, id)]
     /\ wire' = [wire EXCEPT ![c] = Append(@, id)]
     /\ sent' = sent \cup {id}
  /\ at' = at + 1
  /\ UNCHANGED <<method, next, calling, up, await, tunnel, goal, shown, approved>>

\* Mutant: the method is cleared when there is no parent proxy, too.
MethodLost(c) == [method EXCEPT ![conn[c].pend[at]] = "Unknown"]
\* MoaiInfo_clear, called only when the parent proxy is asked
MethodAfter(c) == IF conn[c].host \in ParentHosts
                  THEN [method EXCEPT ![conn[c].pend[at]] = "Unknown"]
                  ELSE method

\* sendOnConnected_CONNECT: the browser is told whether the tunnel is there;
\* only the parent proxy can refuse it.
InvokeConnect(c, ok) ==
  /\ Invoking(c) /\ conn[c].cb = "CONNECT" /\ conn[c].I
  /\ ok \/ conn[c].host \in ParentHosts
  /\ conn' = [conn EXCEPT ![c].inv = Append(@, conn[c].pend[at])]
  /\ method' = MethodAfter(c)
  /\ tunnel' = [tunnel EXCEPT ![c] = ok]
  /\ await' = [await EXCEPT ![c] = 0]
  /\ sent' = IF conn[c].host \in ParentHosts THEN sent \cup {conn[c].pend[at]}
             ELSE sent
  /\ at' = at + 1
  /\ UNCHANGED <<next, calling, up, wire, goal, shown, approved>>

\* The send fails and the record is erased, the loop given up.
InvokeFail(c) ==
  /\ Invoking(c) /\ conn[c].cb \in {"GET", "CONNECT"}
  /\ "send" \in Faults \/ (conn[c].cb = "CONNECT" /\ ~conn[c].I)
  /\ conn' = [conn EXCEPT ![c] = Fresh]
  /\ Forget(Listed(conn[c].inv))
  /\ CutOff(c) /\ Return
  /\ UNCHANGED <<next, up, hist>>

\* The parent proxy's answer breaks off: O is closed, the pending ids stay.
InvokeProxyFail(c) ==
  /\ Invoking(c) /\ conn[c].cb = "CONNECT" /\ conn[c].host \in ParentHosts
  /\ "send" \in Faults
  /\ conn' = [conn EXCEPT ![c].O = "none"]
  /\ wire' = [wire EXCEPT ![c] = <<>>]
  /\ method' = MethodAfter(c)
  /\ Return
  /\ UNCHANGED <<next, up, await, tunnel, hist>>

\* MoaiInfo_find returns NULL, which is read through.
InvokeStale(c) ==
  /\ up /\ calling = c /\ conn[c].cb # "none" /\ at <= Len(conn[c].pend)
  /\ method[conn[c].pend[at]] = "none"
  /\ up' = FALSE
  /\ UNCHANGED <<conn, method, next, calling, at, world, hist>>

\* Mutants: the list is not cleared, or the objects are erased as well.
EmptiedNot(r) == r
KeptNot(c) == Forget(Listed(conn[c].pend))

\* The list is cleared, the MoaiInfo objects stay for the responses.
Emptied(r) == [r EXCEPT !.pend = <<>>]
Kept(c) == UNCHANGED method

InvokeEnd(c) ==
  /\ up /\ calling = c /\ conn[c].cb # "none" /\ at > Len(conn[c].pend)
  /\ conn' = [conn EXCEPT ![c] = Emptied(@)]
  /\ Kept(c)
  /\ Return
  /\ UNCHANGED <<next, up, world, hist>>

-----------------------------------------------------------------------------
\* A response header is parsed: the index advances, whatever it answers.
\* In a tunnel that is recognised nothing is parsed.
LastMethod(c) == LET q == conn[c].inv IN
                 IF q = <<>> THEN "none" ELSE method[q[Len(q)]]

Response(c, extra) ==
  /\ Serving /\ conn[c].O = "up" /\ LastMethod(c) # "CONNECT"
  /\ IF extra THEN "extra" \in Faults ELSE wire[c] # <<>>
  /\ conn[c].ridx < MaxReq
  /\ conn' = [conn EXCEPT ![c].ridx = @ + 1]
  /\ IF extra THEN UNCHANGED <<wire, await>>
     ELSE /\ wire' = [wire EXCEPT ![c] = Tail(@)]
          /\ await' = [await EXCEPT ![c] = IF @ > 0 THEN @ - 1 ELSE 0]
  /\ UNCHANGED <<method, next, calling, at, up, tunnel, hist>>

\* MoaiServer_main is called again: MoaiConnection_clearAll.
Restart ==
  /\ Serving
  /\ conn' = [c \in Conns |-> Cleared(conn[c])]
  /\ Forget(UNION {Listed(conn[c].inv) : c \in Conns})
  /\ wire' = [c \in Conns |-> <<>>]
  /\ await' = [c \in Conns |-> 0]
  /\ tunnel' = [c \in Conns |-> FALSE]
  /\ UNCHANGED <<next, calling, at, up, hist>>

\* A new process.  Browsers still have their confirmation pages.
Relaunch ==
  /\ ~up
  /\ conn' = [c \in Conns |-> Fresh]
  /\ method' = [id \in Ids |-> "none"]
  /\ Return /\ up' = TRUE
  /\ wire' = [c \in Conns |-> <<>>]
  /\ await' = [c \in Conns |-> 0]
  /\ tunnel' = [c \in Conns |-> FALSE]
  /\ UNCHANGED <<next, hist>>

-----------------------------------------------------------------------------
Lifetime == \/ Restart \/ Relaunch
            \/ \E c \in Conns : Accept(c) \/ End(c) \/ CloseI(c) \/ CloseO(c)
Asking == \E c \in Conns :
  \/ \E h \in Hosts : \/ \E m \in Methods : AskFail(c, h, m)
                      \/ AskConfirmFail(c, h)
  \/ \E id \in Ids : SubmitFail(c, id)
  \/ \E h \in Hosts \cup {NoHost}, close \in BOOLEAN : AskWeb(c, h, close)
  \/ \E o \in {"connecting", "up"} :
       \/ \E h \in Hosts : \/ \E m \in Methods : Ask(c, h, m, o)
                           \/ AskConfirm(c, h, o)
       \/ \E id \in Ids : Submit(c, id, o)
Calling == \E c \in Conns :
  \/ ConnectDone(c) \/ InvokeNull(c) \/ InvokeSend(c) \/ InvokeFail(c)
  \/ InvokeProxyFail(c) \/ InvokeStale(c) \/ InvokeEnd(c)
  \/ \E ok \in BOOLEAN : InvokeConnect(c, ok)
Answering == \E c \in Conns, extra \in BOOLEAN : Response(c, extra)

Next == Lifetime \/ Asking \/ Calling \/ Answering

Spec == Init /\ [][Next]_vars

-----------------------------------------------------------------------------
\* Properties

\* Type invariant.
TypeOK ==
  /\ conn \in [Conns -> Conn]
  /\ method \in [Ids -> Methods \cup {"Unknown", "none"}]
  /\ next \in 0..MaxReq
  /\ calling \in Conns \cup {NoConn} /\ at \in Nat \ {0} /\ up \in BOOLEAN
  /\ wire \in [Conns -> Seq(Ids)]
  /\ await \in [Conns -> Nat]
  /\ tunnel \in [Conns -> BOOLEAN]
  /\ goal \in [Ids -> Hosts \cup {NoHost}]
  /\ shown \subseteq Ids /\ approved \subseteq Ids /\ sent \subseteq Ids

\* What is sent goes to the host that it is for, although the callback sends
\* to whatever O socket the connection has when it is called, and a connection
\* serves one host after another.
Sends(c, id) == wire'[c] = Append(wire[c], id)
RightHost ==
  [][\A c \in Conns, id \in Ids : Sends(c, id) => goal[id] = conn[c].host]_vars

\* When the server waits, a request can only be pending on an established
\* O socket if its POST was put before the user: nothing else is forgotten.
NotStranded ==
  Serving =>
    \A c \in Conns : conn[c].O = "up" => Listed(conn[c].pend) \subseteq shown

\* Without extra responses, a response is paired with an invoked request: the
\* index never outruns the list, even when O is replaced under way.  (The list
\* is read at the index without a check.)
IndexBehind ==
  "extra" \notin Faults =>
    \A c \in Conns : conn[c].ridx + Len(wire[c]) <= Len(conn[c].inv)

\* The MoaiInfo of a request that was never put before the user is there for
\* as long as a connection lists it, as pending or as invoked.
Plain(id) == goal[id] \in Hosts \ TunnelHosts /\ id \notin shown
Registered ==
  up => \A c \in Conns : \A id \in Listed(conn[c].pend) \cup Listed(conn[c].inv) :
          Plain(id) => method[id] # "none"

\* What comes over a tunnel is recognised as such: the last invoked request is
\* the CONNECT.  (The tunnels that no parent proxy takes part in.)
Recognised(c) == LastMethod(c) = "CONNECT"
DirectTunnelKnown ==
  \A c \in Conns :
    Serving /\ tunnel[c] /\ conn[c].host \notin ParentHosts => Recognised(c)

\* The comment in requestOnConnectCompleted_CONNECT says it of all tunnels.
TunnelKnown == \A c \in Conns : Serving /\ tunnel[c] => Recognised(c)

\* A POST that is put before the user is not sent before Send is pressed.
OnlyApproved == sent \cap shown \subseteq approved

\* The comment in MoaiConnection_invokeCallback: nothing is invoked twice.
SentOnce == [][\A c \in Conns, id \in Ids : Sends(c, id) => id \notin sent]_vars

\* No MoaiInfo is looked up after it was erased.
NoStaleInfo == up

\* The pipeline keeps the promise of RequestQueue.  Free are the POSTs that are
\* put before the user and the requests for a tunnel.
Waiting(c) == LET r == conn[c] IN
              IF ~up \/ r.O = "none" THEN <<>>
              ELSE IF calling = c THEN SubSeq(r.pend, at, Len(r.pend))
              ELSE r.pend
Free       == {id \in Ids : id \in shown \/ goal[id] \in TunnelHosts}
queueBar   == [c \in Conns |-> Waiting(c)]
flightBar  == [c \in Conns |-> IF up THEN wire[c] ELSE <<>>]
doneBar    == sent \ Free
Queue      == INSTANCE RequestQueue WITH Reqs <- Ids, queue <- queueBar,
                flight <- flightBar, done <- doneBar, free <- Free
QueueSpec  == Queue!Spec
=============================================================================
