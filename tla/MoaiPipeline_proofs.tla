-------------------------- MODULE MoaiPipeline_proofs --------------------------
(***************************************************************************)
(* Proofs about the request lists of MoaiPipeline, for any number of       *)
(* connections, hosts and requests.                                        *)
(***************************************************************************)
EXTENDS MoaiPipeline, TLAPS

OStates == {"none", "connecting", "up"}

-----------------------------------------------------------------------------
(***************************************************************************)
(* Types.  The operators on connection records stay within their type.     *)
(***************************************************************************)

LEMMA RecordType ==
  ASSUME NEW r \in Conn
  PROVE  /\ Fresh \in Conn /\ Cleared(r) \in Conn /\ Emptied(r) \in Conn
         /\ \A b \in BOOLEAN : [r EXCEPT !.I = b] \in Conn
         /\ \A o \in OStates : [r EXCEPT !.O = o] \in Conn
         /\ \A id \in Ids : [r EXCEPT !.inv = Append(@, id)] \in Conn
         /\ [r EXCEPT !.ridx = @ + 1] \in Conn
<1>1. <<>> \in Seq(Ids)
  OBVIOUS
<1>2. Fresh \in Conn
  BY <1>1 DEF Conn, Fresh
<1>3. Cleared(r) \in Conn
  BY <1>2 DEF Conn, Cleared
<1>4. Emptied(r) \in Conn
  BY <1>1 DEF Conn, Emptied
<1>5. \A b \in BOOLEAN : [r EXCEPT !.I = b] \in Conn
  BY DEF Conn
<1>7. \A o \in OStates : [r EXCEPT !.O = o] \in Conn
  BY DEF Conn, OStates
<1>8. [r EXCEPT !.ridx = @ + 1] \in Conn
  BY DEF Conn
<1>6. ASSUME NEW id \in Ids PROVE [r EXCEPT !.inv = Append(@, id)] \in Conn
  <2>1. Append(r.inv, id) \in Seq(Ids)
    BY DEF Conn
  <2> QED BY <2>1 DEF Conn
<1> QED BY <1>2, <1>3, <1>4, <1>5, <1>6, <1>7, <1>8

LEMMA RequestType ==
  ASSUME NEW r \in Conn, NEW h \in Hosts \cup {NoHost}, NEW o \in OStates
  PROVE  /\ Recycled(r, h) \in Conn
         /\ Connected(r, o) \in Conn
         /\ \A cb \in Methods \cup {"none"}, id \in Ids : Pushed(r, cb, id) \in Conn
<1>1. \A id \in Ids : Append(r.pend, id) \in Seq(Ids)
  BY DEF Conn
<1>2. <<>> \in Seq(Ids)
  OBVIOUS
<1> QED
  BY <1>1, <1>2 DEF Conn, Recycled, Connected, Pushed, OStates

LEMMA ForgetType ==
  ASSUME NEW S, TypeOK, Forget(S)
  PROVE  method' \in [Ids -> Methods \cup {"Unknown", "none"}]
BY DEF TypeOK, Forget

LEMMA CutOffType ==
  ASSUME NEW c \in Conns, TypeOK, CutOff(c)
  PROVE  /\ wire' \in [Conns -> Seq(Ids)] /\ await' \in [Conns -> Nat]
         /\ tunnel' \in [Conns -> BOOLEAN]
<1>1. <<>> \in Seq(Ids)
  OBVIOUS
<1> QED BY <1>1 DEF TypeOK, CutOff

LEMMA NewInfoType ==
  ASSUME NEW h \in Hosts \cup {NoHost}, NEW m \in Methods, TypeOK, NewInfo(h, m)
  PROVE  /\ next + 1 \in Ids /\ next' \in 0..MaxReq
         /\ method' \in [Ids -> Methods \cup {"Unknown", "none"}]
         /\ goal' \in [Ids -> Hosts \cup {NoHost}]
<1>1. next + 1 \in Ids
  BY PipelineAssumption DEF TypeOK, NewInfo, Ids
<1> QED
  BY <1>1, PipelineAssumption DEF TypeOK, NewInfo

LEMMA InitType == Init => TypeOK
<1>1. <<>> \in Seq(Ids) /\ Fresh \in Conn
  BY DEF Fresh, Conn, Methods
<1> QED
  BY <1>1, PipelineAssumption DEF Init, TypeOK

\* The part of TypeOK that a request determines
LEMMA RequestStep ==
  ASSUME TypeOK, NEW c \in Conns, NEW h \in Hosts \cup {NoHost}, NEW m \in Methods,
         NEW cb \in Methods \cup {"none"}, NEW id \in Ids,
         NEW o \in {"connecting", "up"}, Request(c, h, m, cb, id, o)
  PROVE  /\ conn' \in [Conns -> Conn]
         /\ method' \in [Ids -> Methods \cup {"Unknown", "none"}]
         /\ next + 1 \in Ids /\ next' \in 0..MaxReq
         /\ calling' \in Conns \cup {NoConn} /\ at' \in Nat \ {0} /\ up' \in BOOLEAN
         /\ wire' \in [Conns -> Seq(Ids)]
         /\ tunnel' \in [Conns -> BOOLEAN]
         /\ goal' \in [Ids -> Hosts \cup {NoHost}]
         /\ sent' \subseteq Ids
<1> DEFINE r == Recycled(conn[c], h)
           q == Connected(r, o)
<1>1. conn[c] \in Conn
  BY DEF TypeOK
<1>2. r \in Conn
  BY <1>1, RequestType DEF OStates
<1> HIDE DEF r
<1>3. q \in Conn
  BY <1>2, RequestType DEF OStates
<1> HIDE DEF q
<1>4. Pushed(q, cb, id) \in Conn
  BY <1>3, RequestType DEF OStates
<1>5. NewInfo(h, m)
  BY DEF Request
<1>6. conn' = [conn EXCEPT ![c] = Pushed(q, cb, id)]
  BY DEF Request, q, r
<1>7. conn' \in [Conns -> Conn]
  BY <1>4, <1>6 DEF TypeOK
<1>8. wire' \in [Conns -> Seq(Ids)]
  <2>1. <<>> \in Seq(Ids)
    OBVIOUS
  <2>2. wire' = [wire EXCEPT ![c] = IF r.O = "none" THEN <<>> ELSE @]
    BY DEF Request, r
  <2> QED BY <2>1, <2>2 DEF TypeOK
<1>9. calling' \in Conns \cup {NoConn} /\ at' \in Nat \ {0} /\ up' \in BOOLEAN
  BY DEF Request, Call, TypeOK
<1>10. tunnel' \in [Conns -> BOOLEAN] /\ sent' \subseteq Ids
  BY DEF Request, TypeOK
<1> QED BY <1>5, <1>7, <1>8, <1>9, <1>10, NewInfoType

LEMMA RequestFailStep ==
  ASSUME TypeOK, NEW c \in Conns, NEW h \in Hosts \cup {NoHost}, NEW m \in Methods,
         RequestFail(c, h, m)
  PROVE  /\ conn' \in [Conns -> Conn]
         /\ method' \in [Ids -> Methods \cup {"Unknown", "none"}]
         /\ next + 1 \in Ids /\ next' \in 0..MaxReq
         /\ calling' \in Conns \cup {NoConn} /\ at' \in Nat \ {0} /\ up' \in BOOLEAN
         /\ wire' \in [Conns -> Seq(Ids)] /\ await' \in [Conns -> Nat]
         /\ tunnel' \in [Conns -> BOOLEAN]
         /\ goal' \in [Ids -> Hosts \cup {NoHost}]
         /\ sent' \subseteq Ids
<1> DEFINE r == Recycled(conn[c], h)
           q == Connected(r, "none")
           p == [q EXCEPT !.I = FALSE]
<1>1. conn[c] \in Conn
  BY DEF TypeOK
<1>2. r \in Conn
  BY <1>1, RequestType DEF OStates
<1> HIDE DEF r
<1>3. q \in Conn
  BY <1>2, RequestType DEF OStates
<1> HIDE DEF q
<1>4. p \in Conn
  BY <1>3, RecordType
<1> HIDE DEF p
<1>5. NewInfo(h, m) /\ CutOff(c)
  BY DEF RequestFail
<1>6. conn' = [conn EXCEPT ![c] = p]
  BY DEF RequestFail, p, q, r
<1>7. conn' \in [Conns -> Conn]
  BY <1>4, <1>6 DEF TypeOK
<1>8. UNCHANGED <<calling, at, up, sent>>
  BY DEF RequestFail
<1> QED BY <1>5, <1>7, <1>8, NewInfoType, CutOffType DEF TypeOK

LEMMA LifetimeType == TypeOK /\ Lifetime => TypeOK'
<1> SUFFICES ASSUME TypeOK, Lifetime PROVE TypeOK'
  OBVIOUS
<1> USE DEF hist
<1>e. <<>> \in Seq(Ids)
  OBVIOUS
<1>1. CASE Restart
  <2>1. \A c \in Conns : Cleared(conn[c]) \in Conn
    BY RecordType DEF TypeOK
  <2>2. method' \in [Ids -> Methods \cup {"Unknown", "none"}]
    BY <1>1, ForgetType DEF Restart
  <2> QED BY <1>1, <1>e, <2>1, <2>2 DEF Restart, TypeOK
<1>2. CASE Relaunch
  <2>1. Fresh \in Conn
    BY <1>e DEF Fresh, Conn
  <2> QED BY <1>2, <1>e, <2>1 DEF Relaunch, Return, TypeOK
<1>3. ASSUME NEW c \in Conns, Accept(c) PROVE TypeOK'
  <2>1. conn[c] \in Conn
    BY DEF TypeOK
  <2>2. [Cleared(conn[c]) EXCEPT !.I = TRUE] \in Conn
    BY <2>1, RecordType
  <2>3. conn' \in [Conns -> Conn]
    BY <1>3, <2>2 DEF Accept, TypeOK
  <2>4. Forget(Listed(conn[c].inv)) /\ CutOff(c)
    BY <1>3 DEF Accept
  <2> QED BY <1>3, <2>3, <2>4, ForgetType, CutOffType DEF Accept, TypeOK
<1>4. ASSUME NEW c \in Conns, End(c) PROVE TypeOK'
  <2>1. Fresh \in Conn
    BY <1>e DEF Fresh, Conn
  <2>2. conn' \in [Conns -> Conn]
    BY <1>4, <2>1 DEF End, TypeOK
  <2>3. Forget(Listed(conn[c].inv)) /\ CutOff(c)
    BY <1>4 DEF End
  <2> QED BY <1>4, <2>2, <2>3, ForgetType, CutOffType DEF End, TypeOK
<1>5. ASSUME NEW c \in Conns, CloseI(c) PROVE TypeOK'
  <2>1. [conn[c] EXCEPT !.I = FALSE] \in Conn
    BY RecordType DEF TypeOK
  <2> QED BY <1>5, <2>1 DEF CloseI, TypeOK
<1>6. ASSUME NEW c \in Conns, CloseO(c) PROVE TypeOK'
  <2>1. [conn[c] EXCEPT !.O = "none"] \in Conn
    BY RecordType DEF TypeOK, OStates
  <2> QED BY <1>6, <1>e, <2>1 DEF CloseO, TypeOK
<1> QED BY <1>1, <1>2, <1>3, <1>4, <1>5, <1>6 DEF Lifetime

LEMMA AskingType == TypeOK /\ Asking => TypeOK'
<1> SUFFICES ASSUME TypeOK, NEW c \in Conns, Asking PROVE TypeOK'
  BY DEF Asking
<1>1. ASSUME NEW d \in Conns, NEW h \in Hosts, NEW m \in Methods,
             NEW o \in {"connecting", "up"}, Ask(d, h, m, o)
      PROVE  TypeOK'
  <2>1. Request(d, h, m, m, next + 1, o)
    BY <1>1 DEF Ask
  <2>2. next + 1 \in Ids
    BY <2>1, PipelineAssumption DEF Request, NewInfo, TypeOK, Ids
  <2>3. await' \in [Conns -> Nat] /\ UNCHANGED <<shown, approved>>
    BY <1>1 DEF Ask, TypeOK
  <2> QED BY <2>1, <2>2, <2>3, RequestStep, SMTT(30) DEF TypeOK
<1>2. ASSUME NEW d \in Conns, NEW h \in Hosts, NEW o \in {"connecting", "up"},
             AskConfirm(d, h, o)
      PROVE  TypeOK'
  <2>1. Request(d, h, "POST", "none", next + 1, o)
    BY <1>2 DEF AskConfirm
  <2>2. next + 1 \in Ids
    BY <2>1, PipelineAssumption DEF Request, NewInfo, TypeOK, Ids
  <2>3. UNCHANGED <<await, approved>> /\ shown' \subseteq Ids
    BY <1>2, <2>2 DEF AskConfirm, TypeOK
  <2>4. "POST" \in Methods
    BY DEF Methods
  <2>5. /\ conn' \in [Conns -> Conn] /\ next' \in 0..MaxReq
          /\ method' \in [Ids -> Methods \cup {"Unknown", "none"}]
          /\ calling' \in Conns \cup {NoConn} /\ at' \in Nat \ {0} /\ up' \in BOOLEAN
          /\ wire' \in [Conns -> Seq(Ids)] /\ tunnel' \in [Conns -> BOOLEAN]
          /\ goal' \in [Ids -> Hosts \cup {NoHost}] /\ sent' \subseteq Ids
    BY <2>1, <2>2, <2>4, RequestStep
  <2> QED BY <2>3, <2>5 DEF TypeOK
<1>3. ASSUME NEW d \in Conns, NEW id \in Ids, NEW o \in {"connecting", "up"},
             Submit(d, id, o)
      PROVE  TypeOK'
  <2>1. Request(d, goal[id], "POST", "POST", id, o)
    BY <1>3 DEF Submit
  <2>2. goal[id] \in Hosts \cup {NoHost} /\ "POST" \in Methods
    BY DEF TypeOK, Methods
  <2>3. await' \in [Conns -> Nat] /\ approved' \subseteq Ids /\ UNCHANGED shown
    BY <1>3 DEF Submit, TypeOK
  <2>4. /\ conn' \in [Conns -> Conn] /\ next' \in 0..MaxReq
          /\ method' \in [Ids -> Methods \cup {"Unknown", "none"}]
          /\ calling' \in Conns \cup {NoConn} /\ at' \in Nat \ {0} /\ up' \in BOOLEAN
          /\ wire' \in [Conns -> Seq(Ids)] /\ tunnel' \in [Conns -> BOOLEAN]
          /\ goal' \in [Ids -> Hosts \cup {NoHost}] /\ sent' \subseteq Ids
    BY <2>1, <2>2, RequestStep
  <2> QED BY <2>3, <2>4 DEF TypeOK
<1>4. ASSUME NEW d \in Conns, NEW h \in Hosts, NEW m \in Methods, AskFail(d, h, m)
      PROVE  TypeOK'
  <2>1. RequestFail(d, h, m) /\ UNCHANGED <<shown, approved>>
    BY <1>4 DEF AskFail
  <2> QED BY <2>1, RequestFailStep DEF TypeOK
<1>5. ASSUME NEW d \in Conns, NEW h \in Hosts, AskConfirmFail(d, h)
      PROVE  TypeOK'
  <2>1. RequestFail(d, h, "POST") /\ "POST" \in Methods
    BY <1>5 DEF AskConfirmFail, Methods
  <2>2. next + 1 \in Ids
    BY <2>1, RequestFailStep
  <2>3. shown' \subseteq Ids /\ UNCHANGED approved
    BY <1>5, <2>2 DEF AskConfirmFail, TypeOK
  <2> QED BY <2>1, <2>3, RequestFailStep DEF TypeOK
<1>6. ASSUME NEW d \in Conns, NEW id \in Ids, SubmitFail(d, id)
      PROVE  TypeOK'
  <2>1. RequestFail(d, goal[id], "POST")
    BY <1>6 DEF SubmitFail
  <2>2. goal[id] \in Hosts \cup {NoHost} /\ "POST" \in Methods
    BY DEF TypeOK, Methods
  <2>3. approved' \subseteq Ids /\ UNCHANGED shown
    BY <1>6 DEF SubmitFail, TypeOK
  <2> QED BY <2>1, <2>2, <2>3, RequestFailStep DEF TypeOK
<1>7. ASSUME NEW d \in Conns, NEW h \in Hosts \cup {NoHost}, NEW close \in BOOLEAN,
             AskWeb(d, h, close)
      PROVE  TypeOK'
  <2> DEFINE r == Recycled(conn[d], h)
             q == [r EXCEPT !.I = ~close]
  <2>1. r \in Conn
    BY RequestType DEF TypeOK, OStates
  <2>2. q \in Conn
    BY <2>1, RecordType
  <2>3. conn' \in [Conns -> Conn]
    BY <1>7, <2>2 DEF AskWeb, TypeOK
  <2>4. <<>> \in Seq(Ids)
    OBVIOUS
  <2> HIDE DEF r, q
  <2> QED BY <1>7, <2>3, <2>4 DEF AskWeb, TypeOK, hist
<1> QED BY <1>1, <1>2, <1>3, <1>4, <1>5, <1>6, <1>7 DEF Asking

LEMMA CallingType == TypeOK /\ Calling => TypeOK'
<1> SUFFICES ASSUME TypeOK, NEW c \in Conns,
                    \/ ConnectDone(c) \/ InvokeNull(c) \/ InvokeSend(c)
                    \/ InvokeFail(c) \/ InvokeProxyFail(c) \/ InvokeStale(c)
                    \/ InvokeEnd(c) \/ \E ok \in BOOLEAN : InvokeConnect(c, ok)
             PROVE  TypeOK'
  BY DEF Calling
<1> USE DEF world, hist
<1>c. conn[c] \in Conn
  BY DEF TypeOK
<1>i. Invoking(c) => conn[c].pend[at] \in Ids
  BY <1>c DEF Invoking, TypeOK, Conn
<1>m. Invoking(c) => MethodAfter(c) \in [Ids -> Methods \cup {"Unknown", "none"}]
  BY DEF MethodAfter, TypeOK
<1>e. <<>> \in Seq(Ids)
  OBVIOUS
<1>1. CASE ConnectDone(c)
  <2>1. [conn[c] EXCEPT !.O = "up"] \in Conn
    BY <1>c, RecordType DEF OStates
  <2> QED BY <1>1, <2>1 DEF ConnectDone, Call, TypeOK
<1>2. CASE InvokeNull(c)
  BY <1>2 DEF InvokeNull, Return, TypeOK
<1>3. CASE InvokeSend(c)
  <2> DEFINE id == conn[c].pend[at]
  <2>1. id \in Ids
    BY <1>3, <1>i DEF InvokeSend
  <2>2. [conn[c] EXCEPT !.inv = Append(@, id)] \in Conn
    BY <1>c, <2>1, RecordType
  <2>3. conn' \in [Conns -> Conn]
    BY <1>3, <2>2 DEF InvokeSend, TypeOK
  <2>4. wire' \in [Conns -> Seq(Ids)]
    <3>1. Append(wire[c], id) \in Seq(Ids)
      BY <2>1 DEF TypeOK
    <3> QED BY <1>3, <3>1 DEF InvokeSend, TypeOK
  <2> QED BY <1>3, <2>1, <2>3, <2>4 DEF InvokeSend, TypeOK
<1>4. ASSUME NEW ok \in BOOLEAN, InvokeConnect(c, ok) PROVE TypeOK'
  <2> DEFINE id == conn[c].pend[at]
  <2>1. id \in Ids /\ method' \in [Ids -> Methods \cup {"Unknown", "none"}]
    BY <1>4, <1>i, <1>m DEF InvokeConnect
  <2>2. [conn[c] EXCEPT !.inv = Append(@, id)] \in Conn
    BY <1>c, <2>1, RecordType
  <2>3. conn' \in [Conns -> Conn]
    BY <1>4, <2>2 DEF InvokeConnect, TypeOK
  <2> QED BY <1>4, <2>1, <2>3 DEF InvokeConnect, TypeOK
<1>5. CASE InvokeFail(c)
  <2>1. Fresh \in Conn
    BY <1>c, RecordType
  <2>2. conn' \in [Conns -> Conn]
    BY <1>5, <2>1 DEF InvokeFail, TypeOK
  <2>3. Forget(Listed(conn[c].inv)) /\ CutOff(c)
    BY <1>5 DEF InvokeFail
  <2>4. /\ method' \in [Ids -> Methods \cup {"Unknown", "none"}]
        /\ wire' \in [Conns -> Seq(Ids)] /\ await' \in [Conns -> Nat]
        /\ tunnel' \in [Conns -> BOOLEAN]
    BY <2>3, ForgetType, CutOffType
  <2> QED BY <1>5, <2>2, <2>4 DEF InvokeFail, Return, TypeOK
<1>6. CASE InvokeProxyFail(c)
  <2>1. [conn[c] EXCEPT !.O = "none"] \in Conn
    BY <1>c, RecordType DEF OStates
  <2>2. method' \in [Ids -> Methods \cup {"Unknown", "none"}]
    BY <1>6, <1>m DEF InvokeProxyFail
  <2> QED BY <1>6, <1>e, <2>1, <2>2 DEF InvokeProxyFail, Return, TypeOK
<1>7. CASE InvokeStale(c)
  BY <1>7 DEF InvokeStale, TypeOK
<1>8. CASE InvokeEnd(c)
  <2>1. Emptied(conn[c]) \in Conn
    BY <1>c, RecordType
  <2>2. conn' \in [Conns -> Conn]
    BY <1>8, <2>1 DEF InvokeEnd, TypeOK
  <2> QED BY <1>8, <2>2 DEF InvokeEnd, Kept, Return, TypeOK
<1> QED BY <1>1, <1>2, <1>3, <1>4, <1>5, <1>6, <1>7, <1>8

LEMMA AnsweringType == TypeOK /\ Answering => TypeOK'
<1> SUFFICES ASSUME TypeOK, NEW c \in Conns, NEW extra \in BOOLEAN, Response(c, extra)
             PROVE  TypeOK'
  BY DEF Answering
<1>1. conn' \in [Conns -> Conn]
  <2>1. [conn[c] EXCEPT !.ridx = @ + 1] \in Conn
    BY RecordType DEF TypeOK
  <2> QED BY <2>1 DEF Response, TypeOK
<1>2. wire' \in [Conns -> Seq(Ids)] /\ await' \in [Conns -> Nat]
  <2>1. CASE extra
    BY <2>1 DEF Response, TypeOK
  <2>2. CASE ~extra
    <3>1. wire[c] # <<>> /\ wire[c] \in Seq(Ids)
      BY <2>2 DEF Response, TypeOK
    <3>2. Tail(wire[c]) \in Seq(Ids)
      BY <3>1
    <3>3. wire' = [wire EXCEPT ![c] = Tail(wire[c])]
      BY <2>2 DEF Response
    <3>4. await' = [await EXCEPT ![c] = IF await[c] > 0 THEN await[c] - 1 ELSE 0]
      BY <2>2 DEF Response
    <3>5. await[c] \in Nat
      BY DEF TypeOK
    <3>6. (IF await[c] > 0 THEN await[c] - 1 ELSE 0) \in Nat
      BY <3>5
    <3> QED BY <3>2, <3>3, <3>4, <3>6 DEF TypeOK
  <2> QED BY <2>1, <2>2
<1> QED BY <1>1, <1>2 DEF Response, TypeOK, hist

\* The type invariant of the request lists: the records, lists and indexes
\* stay within their types in every behaviour of the server and its users.
THEOREM TypeCorrect == Spec => []TypeOK
<1>1. TypeOK /\ [Next]_vars => TypeOK'
  <2>1. TypeOK /\ UNCHANGED vars => TypeOK'
    BY DEF vars, code, world, hist, TypeOK
  <2> QED BY <2>1, LifetimeType, AskingType, CallingType, AnsweringType DEF Next
<1> QED BY <1>1, InitType, PTL DEF Spec

-----------------------------------------------------------------------------
(***************************************************************************)
(* What the lists of a connection hold.  Good(c) is what makes the pending *)
(* ids safe to send: they are for the host the connection is at, and when  *)
(* nobody is about to invoke them they are all confirmation pages.  The    *)
(* conjunct about await says why the callback can be NULL while a connect  *)
(* is in progress: a POST is not pipelined behind a request.               *)
(***************************************************************************)

Confirmed(c) == Listed(conn[c].pend) \subseteq shown
Awaits(c)    == await[c] > 0

Good(c) ==
  /\ Listed(conn[c].pend) \subseteq 1..next
  /\ conn[c].O # "none" => \A id \in Listed(conn[c].pend) : goal[id] = conn[c].host
  /\ conn[c].O = "up" /\ (calling # c \/ conn[c].cb = "none") => Confirmed(c)
  /\ conn[c].O = "connecting" /\ conn[c].cb = "none" => Confirmed(c)
  /\ conn[c].O = "connecting" /\ conn[c].I /\ ~Confirmed(c) => Awaits(c)
  /\ calling = c => conn[c].O = "up"

Lists == shown \subseteq 1..next /\ \A c \in Conns : Good(c)

\* The ghosts only grow, and a host once noted stays.
Grows == /\ shown \subseteq shown'
         /\ next \in Nat /\ next' \in Nat /\ next <= next'
         /\ \A id \in 1..next : goal'[id] = goal[id]

LEMMA ListedEmpty == Listed(<<>>) = {}
BY DEF Listed

LEMMA ListedAppend ==
  ASSUME NEW q \in Seq(Ids), NEW id \in Ids
  PROVE  Listed(Append(q, id)) = Listed(q) \cup {id}
<1>1. DOMAIN Append(q, id) = 1..(Len(q) + 1) /\ DOMAIN q = 1..Len(q)
  OBVIOUS
<1>2. \A i \in 1..Len(q) : Append(q, id)[i] = q[i]
  OBVIOUS
<1>3. Append(q, id)[Len(q) + 1] = id
  OBVIOUS
<1>4. Len(q) \in Nat
  OBVIOUS
<1> QED BY <1>1, <1>2, <1>3, <1>4, Z3 DEF Listed

\* A step leaves the connections alone that it does not work on.
LEMMA GoodOthers ==
  ASSUME NEW c \in Conns, Good(c), Grows, conn'[c] = conn[c], await'[c] = await[c],
         calling' = c <=> calling = c
  PROVE  Good(c)'
<1>1. Confirmed(c) => Confirmed(c)'
  BY DEF Confirmed, Grows
<1>2. 1..next \subseteq 1..next'
  BY DEF Grows
<1>3. Listed(conn[c].pend) \subseteq 1..next'
  BY <1>2 DEF Good
<1>4. conn[c].O # "none" => \A id \in Listed(conn[c].pend) : goal'[id] = conn[c].host
  BY DEF Good, Grows
<1>5. Confirmed(c)' => ~(~Confirmed(c)')
  OBVIOUS
<1> QED BY <1>1, <1>3, <1>4 DEF Good, Awaits

\* An empty list is good, and so is a list without an O socket.
LEMMA GoodEmpty ==
  ASSUME NEW c, conn'[c].pend = <<>>, calling' # c
  PROVE  Good(c)'
BY ListedEmpty DEF Good, Confirmed, Awaits

LEMMA GoodNoSocket ==
  ASSUME NEW c, Listed(conn'[c].pend) \subseteq 1..next', conn'[c].O = "none", calling' # c
  PROVE  Good(c)'
BY DEF Good

\* Steps that change one record and note nothing new
LEMMA GoodOne ==
  ASSUME TypeOK, Lists, NEW d \in Conns, Good(d)', UNCHANGED <<shown, next, goal>>,
         \A c \in Conns \ {d} : /\ conn'[c] = conn[c] /\ await'[c] = await[c]
                                /\ (calling' = c <=> calling = c)
  PROVE  Lists'
<1>1. Grows
  BY PipelineAssumption DEF Grows, TypeOK
<1>2. ASSUME NEW c \in Conns, c # d PROVE Good(c)'
  BY <1>1, <1>2, GoodOthers DEF Lists
<1> QED BY <1>2 DEF Lists
LEMMA ListsInit == Init => Lists
BY ListedEmpty, PipelineAssumption DEF Init, Lists, Good, Confirmed, Awaits, Fresh

\* Every step of Lifetime empties a list or takes a socket away.
LEMMA LifetimeLists == TypeOK /\ Lists /\ Lifetime => Lists'
<1> SUFFICES ASSUME TypeOK, Lists, Lifetime PROVE Lists'
  OBVIOUS
<1> USE DEF hist
<1>n. \A c \in Conns : c # NoConn
  BY PipelineAssumption
<1>1. CASE Restart
  <2>1. \A c \in Conns : conn'[c].pend = <<>> /\ calling' # c
    BY <1>1, <1>n DEF Restart, Serving, Cleared, Fresh
  <2> QED BY <1>1, <2>1, GoodEmpty DEF Restart, Lists
<1>2. CASE Relaunch
  <2>1. \A c \in Conns : conn'[c].pend = <<>> /\ calling' # c
    BY <1>2, <1>n DEF Relaunch, Return, Fresh
  <2> QED BY <1>2, <2>1, GoodEmpty DEF Relaunch, Lists
<1>3. ASSUME NEW d \in Conns, Accept(d) PROVE Lists'
  <2>1. conn'[d].pend = <<>> /\ calling' # d
    BY <1>3, <1>n DEF Accept, Serving, Cleared, Fresh, TypeOK
  <2>2. \A c \in Conns \ {d} : /\ conn'[c] = conn[c] /\ await'[c] = await[c]
                               /\ (calling' = c <=> calling = c)
    BY <1>3 DEF Accept, CutOff, TypeOK
  <2>3. UNCHANGED <<shown, next, goal>>
    BY <1>3 DEF Accept
  <2> QED BY <2>1, <2>2, <2>3, GoodEmpty, GoodOne
<1>4. ASSUME NEW d \in Conns, End(d) PROVE Lists'
  <2>1. conn'[d].pend = <<>> /\ calling' # d
    BY <1>4, <1>n DEF End, Serving, Fresh, TypeOK
  <2>2. \A c \in Conns \ {d} : /\ conn'[c] = conn[c] /\ await'[c] = await[c]
                               /\ (calling' = c <=> calling = c)
    BY <1>4 DEF End, CutOff, TypeOK
  <2>3. UNCHANGED <<shown, next, goal>>
    BY <1>4 DEF End
  <2> QED BY <2>1, <2>2, <2>3, GoodEmpty, GoodOne
<1>5. ASSUME NEW d \in Conns, CloseI(d) PROVE Lists'
  <2>1. conn' = [conn EXCEPT ![d] = [conn[d] EXCEPT !.I = FALSE]]
    BY <1>5 DEF CloseI
  <2>2. conn[d] \in Conn
    BY DEF TypeOK
  <2>3. /\ conn'[d].pend = conn[d].pend /\ conn'[d].O = conn[d].O
        /\ conn'[d].cb = conn[d].cb /\ conn'[d].host = conn[d].host /\ ~conn'[d].I
    BY <2>1, <2>2 DEF TypeOK, Conn
  <2>4. UNCHANGED <<shown, next, goal, calling>>
    BY <1>5 DEF CloseI
  <2>5. Good(d)'
    BY <2>3, <2>4 DEF Lists, Good, Confirmed, Awaits
  <2>6. \A c \in Conns \ {d} : conn'[c] = conn[c] /\ await'[c] = await[c]
    BY <1>5, <2>1 DEF CloseI, TypeOK
  <2> QED BY <2>4, <2>5, <2>6, GoodOne
<1>6. ASSUME NEW d \in Conns, CloseO(d) PROVE Lists'
  <2>1. conn' = [conn EXCEPT ![d] = [conn[d] EXCEPT !.O = "none"]]
    BY <1>6 DEF CloseO
  <2>2. conn'[d].pend = conn[d].pend /\ conn'[d].O = "none"
    BY <2>1 DEF TypeOK, Conn
  <2>3. UNCHANGED <<shown, next, goal, calling, await>> /\ calling' # d
    BY <1>6, <1>n DEF CloseO, Serving
  <2>4. Listed(conn'[d].pend) \subseteq 1..next'
    BY <2>2, <2>3 DEF Lists, Good
  <2>5. \A c \in Conns \ {d} : conn'[c] = conn[c]
    BY <2>1 DEF TypeOK
  <2> QED BY <2>2, <2>3, <2>4, <2>5, GoodNoSocket, GoodOne
<1> QED BY <1>1, <1>2, <1>3, <1>4, <1>5, <1>6 DEF Lifetime

LEMMA CallingLists == TypeOK /\ Lists /\ Calling => Lists'
<1> SUFFICES ASSUME TypeOK, Lists, NEW d \in Conns,
                    \/ ConnectDone(d) \/ InvokeNull(d) \/ InvokeSend(d)
                    \/ InvokeFail(d) \/ InvokeProxyFail(d) \/ InvokeStale(d)
                    \/ InvokeEnd(d) \/ \E ok \in BOOLEAN : InvokeConnect(d, ok)
             PROVE  Lists'
  BY DEF Calling
<1> USE DEF world, hist
<1>n. d # NoConn
  BY PipelineAssumption
<1>d. conn[d] \in Conn /\ Good(d)
  BY DEF TypeOK, Lists
<1>1. CASE ConnectDone(d)
  <2>1. conn' = [conn EXCEPT ![d] = [conn[d] EXCEPT !.O = "up"]]
    BY <1>1 DEF ConnectDone
  <2>2. /\ conn'[d].pend = conn[d].pend /\ conn'[d].O = "up"
        /\ conn'[d].cb = conn[d].cb /\ conn'[d].host = conn[d].host
    BY <2>1, <1>d DEF TypeOK, Conn
  <2>3. UNCHANGED <<shown, next, goal, await>> /\ calling = NoConn /\ calling' = d
    BY <1>1 DEF ConnectDone, Serving, Call
  <2>4. conn[d].O = "connecting"
    BY <1>1 DEF ConnectDone
  <2>5. Good(d)'
    BY <1>d, <2>2, <2>3, <2>4 DEF Good, Confirmed, Awaits
  <2>6. \A c \in Conns \ {d} : conn'[c] = conn[c] /\ (calling' = c <=> calling = c)
    BY <2>1, <2>3, PipelineAssumption DEF TypeOK
  <2> QED BY <2>3, <2>5, <2>6, GoodOne
<1>2. CASE InvokeNull(d)
  <2>1. UNCHANGED <<conn, shown, next, goal, await>> /\ calling' = NoConn
    BY <1>2 DEF InvokeNull, Return
  <2>2. calling = d /\ conn[d].cb = "none"
    BY <1>2 DEF InvokeNull
  <2>3. Good(d)'
    BY <1>d, <1>n, <2>1, <2>2 DEF Good, Confirmed, Awaits
  <2>4. \A c \in Conns \ {d} : calling' = c <=> calling = c
    BY <2>1, <2>2, PipelineAssumption
  <2> QED BY <2>1, <2>3, <2>4, GoodOne
<1>3. CASE InvokeSend(d)
  <2>1. conn' = [conn EXCEPT ![d] = [conn[d] EXCEPT !.inv = Append(@, conn[d].pend[at])]]
    BY <1>3 DEF InvokeSend
  <2>2. /\ conn'[d].pend = conn[d].pend /\ conn'[d].O = conn[d].O
        /\ conn'[d].cb = conn[d].cb /\ conn'[d].host = conn[d].host
        /\ conn'[d].I = conn[d].I
    BY <2>1, <1>d DEF TypeOK, Conn
  <2>3. UNCHANGED <<shown, next, goal, await, calling>>
    BY <1>3 DEF InvokeSend
  <2>4. Good(d)'
    BY <1>d, <2>2, <2>3 DEF Good, Confirmed, Awaits
  <2>5. \A c \in Conns \ {d} : conn'[c] = conn[c]
    BY <2>1 DEF TypeOK
  <2> QED BY <2>3, <2>4, <2>5, GoodOne
<1>4. ASSUME NEW ok \in BOOLEAN, InvokeConnect(d, ok) PROVE Lists'
  <2>1. conn' = [conn EXCEPT ![d] = [conn[d] EXCEPT !.inv = Append(@, conn[d].pend[at])]]
    BY <1>4 DEF InvokeConnect
  <2>2. /\ conn'[d].pend = conn[d].pend /\ conn'[d].O = conn[d].O
        /\ conn'[d].cb = conn[d].cb /\ conn'[d].host = conn[d].host
    BY <2>1, <1>d DEF TypeOK, Conn
  <2>3. UNCHANGED <<shown, next, goal, calling>> /\ calling = d
    BY <1>4 DEF InvokeConnect, Invoking
  <2>4. Good(d)'
    BY <1>d, <2>2, <2>3 DEF Good, Confirmed, Awaits
  <2>5. \A c \in Conns \ {d} : conn'[c] = conn[c] /\ await'[c] = await[c]
    BY <1>4, <2>1 DEF InvokeConnect, TypeOK
  <2> QED BY <2>3, <2>4, <2>5, GoodOne
<1>5. CASE InvokeFail(d)
  <2>1. conn'[d].pend = <<>> /\ calling' = NoConn /\ calling = d
    BY <1>5 DEF InvokeFail, Invoking, Return, Fresh, TypeOK
  <2>2. \A c \in Conns \ {d} : /\ conn'[c] = conn[c] /\ await'[c] = await[c]
                               /\ (calling' = c <=> calling = c)
    BY <1>5, <2>1, PipelineAssumption DEF InvokeFail, CutOff, TypeOK
  <2>3. UNCHANGED <<shown, next, goal>>
    BY <1>5 DEF InvokeFail
  <2> QED BY <1>n, <2>1, <2>2, <2>3, GoodEmpty, GoodOne
<1>6. CASE InvokeProxyFail(d)
  <2>1. conn' = [conn EXCEPT ![d] = [conn[d] EXCEPT !.O = "none"]]
    BY <1>6 DEF InvokeProxyFail
  <2>2. conn'[d].pend = conn[d].pend /\ conn'[d].O = "none"
    BY <2>1, <1>d DEF TypeOK, Conn
  <2>3. /\ UNCHANGED <<shown, next, goal, await>>
        /\ calling' = NoConn /\ calling = d
    BY <1>6 DEF InvokeProxyFail, Invoking, Return
  <2>4. Listed(conn'[d].pend) \subseteq 1..next'
    BY <1>d, <2>2, <2>3 DEF Good
  <2>5. \A c \in Conns \ {d} : conn'[c] = conn[c] /\ (calling' = c <=> calling = c)
    BY <2>1, <2>3, PipelineAssumption DEF TypeOK
  <2> QED BY <1>n, <2>2, <2>3, <2>4, <2>5, GoodNoSocket, GoodOne
<1>7. CASE InvokeStale(d)
  BY <1>7 DEF InvokeStale, Lists, Good, Confirmed, Awaits
<1>8. CASE InvokeEnd(d)
  <2>1. conn' = [conn EXCEPT ![d] = Emptied(conn[d])]
    BY <1>8 DEF InvokeEnd
  <2>2. conn'[d].pend = <<>>
    BY <2>1, <1>d DEF Emptied, TypeOK, Conn
  <2>3. /\ UNCHANGED <<shown, next, goal, await>>
        /\ calling' = NoConn /\ calling = d
    BY <1>8 DEF InvokeEnd, Return
  <2>4. \A c \in Conns \ {d} : conn'[c] = conn[c] /\ (calling' = c <=> calling = c)
    BY <2>1, <2>3, PipelineAssumption DEF TypeOK
  <2> QED BY <1>n, <2>2, <2>3, <2>4, GoodEmpty, GoodOne
<1> QED BY <1>1, <1>2, <1>3, <1>4, <1>5, <1>6, <1>7, <1>8

LEMMA AnsweringLists == TypeOK /\ Lists /\ Answering => Lists'
<1> SUFFICES ASSUME TypeOK, Lists, NEW d \in Conns, NEW extra \in BOOLEAN,
                    Response(d, extra)
             PROVE  Lists'
  BY DEF Answering
<1>d. conn[d] \in Conn /\ Good(d)
  BY DEF TypeOK, Lists
<1>1. conn' = [conn EXCEPT ![d] = [conn[d] EXCEPT !.ridx = @ + 1]]
  BY DEF Response
<1>2. /\ conn'[d].pend = conn[d].pend /\ conn'[d].O = "up" /\ conn[d].O = "up"
      /\ conn'[d].cb = conn[d].cb /\ conn'[d].host = conn[d].host
  BY <1>1, <1>d DEF Response, TypeOK, Conn
<1>3. UNCHANGED <<shown, next, goal, calling>>
  BY DEF Response, hist
<1>4. Good(d)'
  BY <1>d, <1>2, <1>3 DEF Good, Confirmed, Awaits
<1>5. \A c \in Conns \ {d} : conn'[c] = conn[c] /\ await'[c] = await[c]
  BY <1>1 DEF Response, TypeOK
<1> QED BY <1>3, <1>4, <1>5, GoodOne
LEMMA RequestGrows ==
  ASSUME TypeOK, Lists, NEW h, NEW m, NewInfo(h, m), shown \subseteq shown'
  PROVE  Grows /\ next' = next + 1 /\ goal'[next + 1] = h
<1>1. next \in Nat /\ next < MaxReq /\ next' = next + 1
  BY PipelineAssumption DEF TypeOK, NewInfo
<1>2. goal' = [goal EXCEPT ![next + 1] = h] /\ DOMAIN goal = Ids
  BY DEF NewInfo, TypeOK
<1>3. next + 1 \in Ids /\ 1..next \subseteq Ids
  BY <1>1, PipelineAssumption DEF Ids
<1> QED BY <1>1, <1>2, <1>3 DEF Grows

\* Only the browser of d is concerned.
AwaitOnly(d) == \A c \in Conns \ {d} : await'[c] = await[c]

\* A request either finds a new socket, whose list is its own id, or joins the
\* ids of the same host.
LEMMA RequestLists ==
  ASSUME TypeOK, Lists, NEW d \in Conns, NEW h \in Hosts \cup {NoHost},
         NEW m \in Methods, NEW cb \in Methods \cup {"none"}, NEW id \in Ids,
         NEW o \in {"connecting", "up"}, Request(d, h, m, cb, id, o),
         shown \subseteq shown', shown' \subseteq 1..next', id \in 1..next', goal'[id] = h,
         cb = "none" => id \in shown' /\ m = "POST",
         cb # "none" => Awaits(d)', AwaitOnly(d)
  PROVE  Lists'
<1> DEFINE r == Recycled(conn[d], h)
           q == Connected(r, o)
<1>d. conn[d] \in Conn /\ Good(d) /\ d # NoConn
  BY PipelineAssumption DEF TypeOK, Lists
<1>g. Grows
  BY RequestGrows DEF Request
<1>1. conn' = [conn EXCEPT ![d] = Pushed(q, cb, id)]
  BY DEF Request
<1>2. q \in Conn /\ r \in Conn
  BY <1>d, RequestType DEF OStates
<1>3. /\ conn'[d].pend = Append(q.pend, id) /\ conn'[d].O = q.O
      /\ conn'[d].cb = cb /\ conn'[d].host = q.host /\ conn'[d].I = q.I
  BY <1>1, <1>2 DEF Pushed, TypeOK, Conn
<1>4. Listed(conn'[d].pend) = Listed(q.pend) \cup {id}
  BY <1>2, <1>3, ListedAppend DEF Conn
<1>5. /\ calling = NoConn /\ conn[d].I
      /\ m # "GET" => await[d] = 0
      /\ r.O # "none" => o = "up"
      /\ calling' = IF q.O = "up" THEN d ELSE calling
  BY DEF Request, Serving, Call
<1>6. r.host = h /\ (r.O # "none" => r = conn[d])
  BY <1>d DEF Recycled, Conn
<1>7. Good(d)'
  <2>1. CASE r.O = "none"
    <3>1. q.O = o /\ q.pend = <<>> /\ q.host = h
      BY <2>1, <1>2, <1>6 DEF Connected, Conn
    <3>2. Listed(conn'[d].pend) = {id}
      BY <3>1, <1>4, ListedEmpty
    <3> QED BY <1>3, <1>5, <1>d, <3>1, <3>2 DEF Good, Confirmed, Awaits
  <2>2. CASE r.O # "none"
    <3>1. q = conn[d] /\ conn[d].host = h
      BY <2>2, <1>6 DEF Connected
    <3>2. Listed(conn[d].pend) \subseteq 1..next /\ Listed(conn'[d].pend) \subseteq 1..next'
      BY <3>1, <1>4, <1>d, <1>g DEF Good, Grows
    <3>3. \A i \in Listed(conn'[d].pend) : goal'[i] = h
      <4>1. \A i \in Listed(conn[d].pend) : goal[i] = h
        BY <3>1, <1>6, <1>d, <2>2 DEF Good
      <4>2. \A i \in Listed(conn[d].pend) : goal'[i] = h
        BY <4>1, <3>2, <1>g DEF Grows
      <4>3. Listed(conn'[d].pend) = Listed(conn[d].pend) \cup {id}
        BY <3>1, <1>4
      <4> QED BY <4>2, <4>3
    <3>4. conn[d].O = "up" => Confirmed(d)
      BY <1>d, <1>5 DEF Good
    <3>5. cb = "none" => Confirmed(d)
      <4>1. cb = "none" => ~Awaits(d)
        BY <1>5 DEF Awaits
      <4>2. conn[d].O \in {"connecting", "up"}
        BY <2>2, <3>1, <1>d, <1>6 DEF Conn
      <4> QED BY <3>4, <4>1, <4>2, <1>5, <1>d DEF Good
    <3>6. cb = "none" => Listed(conn'[d].pend) \subseteq shown'
      BY <3>1, <3>5, <1>4 DEF Confirmed
    <3>7. conn'[d].O = "up" <=> calling' = d
      BY <3>1, <1>3, <1>5, <1>d
    <3>8. conn'[d].O # "none" => \A i \in Listed(conn'[d].pend) : goal'[i] = conn'[d].host
      BY <3>1, <3>3, <1>3
    <3>9. cb # "none" => Awaits(d)'
      OBVIOUS
    <3>10. Confirmed(d)' <=> Listed(conn'[d].pend) \subseteq shown'
      BY DEF Confirmed
    <3> QED BY <3>2, <3>6, <3>7, <3>8, <3>9, <3>10, <1>3 DEF Good
  <2> QED BY <2>1, <2>2
<1> HIDE DEF q, r
<1>8. ASSUME NEW c \in Conns, c # d PROVE Good(c)'
  <2>1. conn'[c] = conn[c] /\ await'[c] = await[c] /\ (calling' = c <=> calling = c)
    BY <1>8, <1>1, <1>5, PipelineAssumption DEF TypeOK, AwaitOnly
  <2> QED BY <2>1, <1>g, GoodOthers DEF Lists
<1> QED BY <1>7, <1>8 DEF Lists

LEMMA RequestFailLists ==
  ASSUME TypeOK, Lists, NEW d \in Conns, NEW h \in Hosts \cup {NoHost},
         NEW m \in Methods, RequestFail(d, h, m),
         shown \subseteq shown', shown' \subseteq 1..next'
  PROVE  Lists'
<1> DEFINE r == Recycled(conn[d], h)
           q == Connected(r, "none")
<1>d. conn[d] \in Conn /\ Good(d) /\ d # NoConn
  BY PipelineAssumption DEF TypeOK, Lists
<1>g. Grows
  BY RequestGrows DEF RequestFail
<1>1. conn' = [conn EXCEPT ![d] = [q EXCEPT !.I = FALSE]] /\ r.O = "none"
  BY DEF RequestFail
<1>r. r \in Conn
  BY <1>d, RequestType DEF OStates
<1>q. q = [r EXCEPT !.O = "none", !.pend = <<>>] /\ q \in Conn
  BY <1>1, <1>r, RequestType DEF Connected, OStates
<1>2. q \in Conn /\ q.O = "none" /\ q.pend = <<>>
  BY <1>q, <1>r DEF Conn
<1>3. conn'[d].pend = <<>>
  BY <1>1, <1>2 DEF TypeOK, Conn
<1>4. calling = NoConn /\ calling' = calling
  BY DEF RequestFail, Serving
<1>5. ASSUME NEW c \in Conns, c # d PROVE Good(c)'
  <2>1. conn'[c] = conn[c] /\ await'[c] = await[c]
    BY <1>5, <1>1 DEF RequestFail, CutOff, TypeOK
  <2> QED BY <2>1, <1>4, <1>g, GoodOthers DEF Lists
<1> QED BY <1>3, <1>4, <1>5, <1>d, GoodEmpty DEF Lists

LEMMA AskingLists == TypeOK /\ Lists /\ Asking => Lists'
<1> SUFFICES ASSUME TypeOK, Lists, Asking PROVE Lists'
  OBVIOUS
<1>p. "POST" \in Methods
  BY DEF Methods
<1>s. shown \subseteq 1..next
  BY DEF Lists
<1>n. ASSUME NEW h, NEW m, NewInfo(h, m), shown \subseteq shown'
      PROVE  /\ next + 1 \in Ids /\ next + 1 \in 1..next' /\ goal'[next + 1] = h
             /\ shown \cup {next + 1} \subseteq 1..next'
             /\ \A id \in shown : id \in 1..next' /\ goal'[id] = goal[id]
  <2>1. Grows /\ next' = next + 1 /\ goal'[next + 1] = h
    BY <1>n, RequestGrows
  <2>2. next + 1 \in Ids
    BY <1>n, PipelineAssumption DEF NewInfo, TypeOK, Ids
  <2>3. shown \subseteq 1..next' /\ next + 1 \in 1..next'
    BY <2>1, <1>s DEF Grows
  <2> QED BY <2>1, <2>2, <2>3, <1>s DEF Grows
<1>1. ASSUME NEW d \in Conns, NEW h \in Hosts, NEW m \in Methods,
             NEW o \in {"connecting", "up"}, Ask(d, h, m, o)
      PROVE  Lists'
  <2>1. /\ Request(d, h, m, m, next + 1, o) /\ NewInfo(h, m) /\ shown' = shown
        /\ await' = [await EXCEPT ![d] = await[d] + 1]
    BY <1>1 DEF Ask, Request
  <2>2. Awaits(d)' /\ AwaitOnly(d)
    BY <2>1 DEF TypeOK, Awaits, AwaitOnly
  <2>3. m # "none" /\ m \in Methods \cup {"none"} /\ h \in Hosts \cup {NoHost}
    BY DEF Methods
  <2> DEFINE id == next + 1
  <2>4. /\ id \in Ids /\ id \in 1..next' /\ goal'[id] = h
        /\ shown' \subseteq 1..next' /\ shown \subseteq shown'
    BY <2>1, <1>n
  <2>5. Request(d, h, m, m, id, o)
    BY <2>1
  <2>6. (m = "none" => id \in shown' /\ m = "POST") /\ (m # "none" => Awaits(d)')
    BY <2>2, <2>3
  <2> HIDE DEF id
  <2> QED BY <2>2, <2>3, <2>4, <2>5, <2>6, RequestLists
<1>2. ASSUME NEW d \in Conns, NEW h \in Hosts, NEW o \in {"connecting", "up"},
             AskConfirm(d, h, o)
      PROVE  Lists'
  <2>1. /\ Request(d, h, "POST", "none", next + 1, o) /\ NewInfo(h, "POST")
        /\ shown' = shown \cup {next + 1} /\ await' = await
    BY <1>2 DEF AskConfirm, Request
  <2>2. /\ next + 1 \in Ids /\ next + 1 \in 1..next' /\ goal'[next + 1] = h
        /\ shown' \subseteq 1..next' /\ next + 1 \in shown' /\ shown \subseteq shown'
    BY <2>1, <1>n
  <2> DEFINE id == next + 1
  <2>3. Request(d, h, "POST", "none", id, o) /\ AwaitOnly(d)
    BY <2>1 DEF AwaitOnly
  <2>4. id \in Ids /\ id \in 1..next' /\ goal'[id] = h /\ id \in shown'
    BY <2>2
  <2> HIDE DEF id
  <2> QED BY <2>2, <2>3, <2>4, <1>p, RequestLists
<1>3. ASSUME NEW d \in Conns, NEW id \in Ids, NEW o \in {"connecting", "up"},
             Submit(d, id, o)
      PROVE  Lists'
  <2>1. /\ Request(d, goal[id], "POST", "POST", id, o) /\ NewInfo(goal[id], "POST")
        /\ shown' = shown /\ await' = [await EXCEPT ![d] = await[d] + 1] /\ id \in shown
    BY <1>3 DEF Submit, Request
  <2>2. Awaits(d)' /\ AwaitOnly(d)
    BY <2>1 DEF TypeOK, Awaits, AwaitOnly
  <2> DEFINE h == goal[id]
  <2>3. /\ id \in 1..next' /\ goal'[id] = h
        /\ shown' \subseteq 1..next' /\ shown \subseteq shown'
    BY <2>1, <1>n
  <2>4. h \in Hosts \cup {NoHost}
    BY DEF TypeOK
  <2>5. Request(d, h, "POST", "POST", id, o)
    BY <2>1
  <2> DEFINE m == "POST"
  <2>6. (m = "none" => id \in shown' /\ m = "POST") /\ (m # "none" => Awaits(d)')
    BY <2>2
  <2>7. m \in Methods /\ m \in Methods \cup {"none"} /\ Request(d, h, m, m, id, o)
    BY <2>5, <1>p
  <2> HIDE DEF h, m
  <2> QED BY <2>2, <2>3, <2>4, <2>6, <2>7, RequestLists
<1>4. ASSUME NEW d \in Conns, NEW h \in Hosts, NEW m \in Methods, AskFail(d, h, m)
      PROVE  Lists'
  <2>1. RequestFail(d, h, m) /\ NewInfo(h, m) /\ shown' = shown
    BY <1>4 DEF AskFail, RequestFail
  <2>2. shown' \subseteq 1..next'
    BY <2>1, <1>n
  <2> QED BY <2>1, <2>2, RequestFailLists
<1>5. ASSUME NEW d \in Conns, NEW h \in Hosts, AskConfirmFail(d, h)
      PROVE  Lists'
  <2>1. /\ RequestFail(d, h, "POST") /\ NewInfo(h, "POST")
        /\ shown' = shown \cup {next + 1}
    BY <1>5 DEF AskConfirmFail, RequestFail
  <2>2. shown' \subseteq 1..next'
    BY <2>1, <1>n
  <2> QED BY <2>1, <2>2, <1>p, RequestFailLists
<1>6. ASSUME NEW d \in Conns, NEW id \in Ids, SubmitFail(d, id)
      PROVE  Lists'
  <2>1. /\ RequestFail(d, goal[id], "POST") /\ NewInfo(goal[id], "POST")
        /\ shown' = shown
    BY <1>6 DEF SubmitFail, RequestFail
  <2>2. shown' \subseteq 1..next' /\ goal[id] \in Hosts \cup {NoHost}
    BY <2>1, <1>n DEF TypeOK
  <2> QED BY <2>1, <2>2, <1>p, RequestFailLists
<1>7. ASSUME NEW d \in Conns, NEW h \in Hosts \cup {NoHost}, NEW close \in BOOLEAN,
             AskWeb(d, h, close)
      PROVE  Lists'
  <2> DEFINE r == Recycled(conn[d], h)
             q == [r EXCEPT !.I = ~close]
  <2>1. conn' = [conn EXCEPT ![d] = q] /\ conn[d].host # h
    BY <1>7 DEF AskWeb
  <2>2. conn[d] \in Conn /\ Good(d) /\ d # NoConn
    BY PipelineAssumption DEF TypeOK, Lists
  <2>3. q.O = "none" /\ q.pend = conn[d].pend
    BY <2>1, <2>2 DEF Recycled, Conn
  <2> HIDE DEF q
  <2>4. /\ UNCHANGED <<shown, next, goal, calling>> /\ calling = NoConn
    BY <1>7 DEF AskWeb, Serving, hist
  <2>5. Listed(conn'[d].pend) \subseteq 1..next' /\ conn'[d].O = "none"
    BY <2>1, <2>2, <2>3, <2>4 DEF Good, TypeOK
  <2>6. \A c \in Conns \ {d} : conn'[c] = conn[c] /\ await'[c] = await[c]
    BY <1>7, <2>1 DEF AskWeb, TypeOK
  <2> QED BY <2>2, <2>4, <2>5, <2>6, GoodNoSocket, GoodOne
<1> QED BY <1>1, <1>2, <1>3, <1>4, <1>5, <1>6, <1>7 DEF Asking
-----------------------------------------------------------------------------
\* The lists hold what Good says in every reachable state.
THEOREM ListsCorrect == Spec => []Lists
<1>1. TypeOK /\ Lists /\ [Next]_vars => Lists'
  <2>1. Lists /\ UNCHANGED vars => Lists'
    BY DEF vars, code, world, hist, Lists, Good, Confirmed, Awaits
  <2> QED BY <2>1, LifetimeLists, AskingLists, CallingLists, AnsweringLists DEF Next
<1> QED BY <1>1, ListsInit, TypeCorrect, PTL DEF Spec

\* When the server waits, only a POST that was put before the user can be
\* pending on an established O socket: no request is forgotten by the callback.
THEOREM NotStrandedHolds == Spec => []NotStranded
<1>1. Lists => NotStranded
  BY PipelineAssumption DEF Lists, Good, Confirmed, NotStranded, Serving
<1> QED BY <1>1, ListsCorrect, PTL

-----------------------------------------------------------------------------
(***************************************************************************)
(* What is sent goes to the right host: only the callback sends, and the   *)
(* list it works through is for the host that O leads to.                  *)
(***************************************************************************)

\* No other change of a list looks like a request that is sent.
LEMMA NotAppended ==
  ASSUME NEW w \in Seq(Ids), NEW id
  PROVE  /\ w # Append(w, id) /\ <<>> # Append(w, id)
         /\ (w # <<>> => Tail(w) # Append(w, id))
<1>1. Len(Append(w, id)) = Len(w) + 1 /\ Len(w) \in Nat
  OBVIOUS
<1>2. w # <<>> => Len(Tail(w)) = Len(w) - 1
  OBVIOUS
<1>3. Len(<<>>) = 0
  OBVIOUS
<1>4. w # Append(w, id) /\ <<>> # Append(w, id)
  BY <1>1, <1>3
<1>5. w # <<>> => Len(Tail(w)) # Len(Append(w, id))
  BY <1>1, <1>2
<1> QED BY <1>4, <1>5

LEMMA AppendedOnce ==
  ASSUME NEW w \in Seq(Ids), NEW x, NEW y, Append(w, x) = Append(w, y)
  PROVE  x = y
<1>1. Append(w, x)[Len(w) + 1] = x /\ Append(w, y)[Len(w) + 1] = y
  OBVIOUS
<1> QED BY <1>1

Quiet == \A c \in Conns : \/ wire'[c] = wire[c] \/ wire'[c] = <<>>
                          \/ wire[c] # <<>> /\ wire'[c] = Tail(wire[c])

LEMMA QuietSends == TypeOK /\ Quiet => \A c \in Conns, id \in Ids : ~Sends(c, id)
<1> SUFFICES ASSUME TypeOK, Quiet, NEW c \in Conns, NEW id \in Ids, Sends(c, id)
             PROVE  FALSE
  OBVIOUS
<1>1. wire[c] \in Seq(Ids)
  BY DEF TypeOK
<1> QED BY <1>1, NotAppended DEF Quiet, Sends

LEMMA RequestQuiet ==
  ASSUME TypeOK, NEW d \in Conns,
         \/ wire' = [wire EXCEPT ![d] = <<>>] \/ wire' = wire
  PROVE  Quiet
BY DEF Quiet, TypeOK

LEMMA OthersQuiet ==
  TypeOK /\ Next => Quiet \/ \E c \in Conns : InvokeSend(c)
<1> SUFFICES ASSUME TypeOK, Next, \A c \in Conns : ~InvokeSend(c) PROVE Quiet
  OBVIOUS
<1> USE DEF world, hist
<1>1. CASE Lifetime
  <2>1. ASSUME Restart \/ Relaunch PROVE Quiet
    BY <2>1 DEF Restart, Relaunch, Quiet
  <2>2. ASSUME NEW d \in Conns, Accept(d) \/ End(d) \/ CloseI(d) \/ CloseO(d) PROVE Quiet
    BY <2>2, RequestQuiet DEF Accept, End, CloseI, CloseO, CutOff
  <2> QED BY <1>1, <2>1, <2>2 DEF Lifetime
<1>2. CASE Asking
  <2>1. ASSUME NEW d \in Conns, NEW h, NEW m, NEW cb, NEW id, NEW o,
               Request(d, h, m, cb, id, o)
        PROVE  Quiet
    <3> DEFINE r == Recycled(conn[d], h)
    <3>1. wire' = [wire EXCEPT ![d] = IF r.O = "none" THEN <<>> ELSE wire[d]]
      BY <2>1 DEF Request
    <3> QED BY <3>1 DEF Quiet, TypeOK
  <2>2. ASSUME NEW d \in Conns, NEW h, NEW m, RequestFail(d, h, m) PROVE Quiet
    BY <2>2, RequestQuiet DEF RequestFail, CutOff
  <2>3. ASSUME NEW d \in Conns, NEW h, NEW close, AskWeb(d, h, close) PROVE Quiet
    BY <2>3, RequestQuiet DEF AskWeb
  <2> QED BY <1>2, <2>1, <2>2, <2>3
          DEF Asking, Ask, AskConfirm, Submit, AskFail, AskConfirmFail, SubmitFail
<1>3. CASE Calling
  <2>1. PICK d \in Conns :
          \/ ConnectDone(d) \/ InvokeNull(d) \/ InvokeSend(d)
          \/ InvokeFail(d) \/ InvokeProxyFail(d) \/ InvokeStale(d)
          \/ InvokeEnd(d) \/ \E ok \in BOOLEAN : InvokeConnect(d, ok)
    BY <1>3 DEF Calling
  <2>2. \/ wire' = [wire EXCEPT ![d] = <<>>] \/ wire' = wire
    BY <2>1 DEF ConnectDone, InvokeNull, InvokeFail, InvokeProxyFail, InvokeStale,
                InvokeEnd, InvokeConnect, CutOff
  <2> QED BY <2>2, RequestQuiet
<1>4. CASE Answering
  <2>1. PICK d \in Conns, extra \in BOOLEAN : Response(d, extra)
    BY <1>4 DEF Answering
  <2> QED BY <2>1 DEF Response, Quiet, TypeOK
<1> QED BY <1>1, <1>2, <1>3, <1>4 DEF Next

\* A request is sent to the host that it is for, although the callback sends to
\* whatever O socket the connection has when it is called.
THEOREM RightHostHolds == Spec => RightHost
<1>1. ASSUME TypeOK, Lists, [Next]_vars, NEW c \in Conns, NEW id \in Ids, Sends(c, id)
      PROVE  goal[id] = conn[c].host
  <2>1. CASE UNCHANGED vars
    <3>1. wire' = wire
      BY <2>1 DEF vars, world
    <3> QED BY <3>1, <1>1, RequestQuiet, QuietSends
  <2>2. CASE Quiet
    BY <2>2, <1>1, QuietSends
  <2>3. ASSUME NEW d \in Conns, InvokeSend(d) PROVE goal[id] = conn[c].host
    <3> DEFINE sending == conn[d].pend[at]
    <3>1. conn[d] \in Conn /\ Good(d) /\ calling = d
      BY <1>1, <2>3 DEF InvokeSend, Invoking, TypeOK, Lists
    <3>2. sending \in Listed(conn[d].pend)
      BY <1>1, <2>3, <3>1 DEF InvokeSend, Invoking, Listed, TypeOK, Conn
    <3>3. goal[sending] = conn[d].host
      BY <3>1, <3>2 DEF Good
    <3>4. wire' = [wire EXCEPT ![d] = Append(wire[d], sending)]
      BY <2>3 DEF InvokeSend
    <3> HIDE DEF sending
    <3>5. wire[c] \in Seq(Ids) /\ wire'[c] = Append(wire[c], id)
      BY <1>1 DEF TypeOK, Sends
    <3>6. c = d
      <4>1. c # d => wire'[c] = wire[c]
        BY <3>4, <1>1 DEF TypeOK
      <4> QED BY <4>1, <3>5, NotAppended
    <3>7. sending = id
      BY <3>4, <3>5, <3>6, <1>1, AppendedOnce DEF TypeOK
    <3> QED BY <3>3, <3>6, <3>7
  <2> QED BY <1>1, <2>1, <2>2, <2>3, OthersQuiet
<1>2. TypeOK /\ Lists /\ [Next]_vars =>
        [\A c \in Conns, id \in Ids : Sends(c, id) => goal[id] = conn[c].host]_vars
  BY <1>1
<1> QED BY <1>2, ListsCorrect, TypeCorrect, PTL DEF Spec, RightHost
-----------------------------------------------------------------------------
(***************************************************************************)
(* The response index.  What a server owes (wire) is counted against the   *)
(* invoked ids that have no response yet, and this is inductive.           *)
(***************************************************************************)

Behind(c) == conn[c].ridx + Len(wire[c]) <= Len(conn[c].inv)

\* The step leaves list and index of d, and the server owes no more.
KeepsIndex(d) ==
  /\ conn'[d].inv = conn[d].inv /\ conn'[d].ridx = conn[d].ridx
  /\ wire'[d] = wire[d] \/ wire'[d] = <<>>

\* The step starts d again.
StartsAgain(d) == conn'[d].inv = <<>> /\ conn'[d].ridx = 0 /\ wire'[d] = <<>>

Leaves(d) == \A c \in Conns \ {d} : conn'[c] = conn[c] /\ wire'[c] = wire[c]

LEMMA BehindOne ==
  ASSUME TypeOK, \A c \in Conns : Behind(c), NEW d \in Conns, Leaves(d),
         Behind(d)' \/ KeepsIndex(d) \/ StartsAgain(d)
  PROVE  \A c \in Conns : Behind(c)'
<1>1. ASSUME NEW c \in Conns, c # d PROVE Behind(c)'
  <2>1. conn'[c] = conn[c] /\ wire'[c] = wire[c]
    BY <1>1 DEF Leaves
  <2> QED BY <2>1 DEF Behind
<1>2. Behind(d)'
  <2>1. /\ Len(<<>>) = 0 /\ Len(wire[d]) \in Nat
        /\ Len(conn[d].inv) \in Nat /\ conn[d].ridx \in Nat
    BY DEF TypeOK, Conn
  <2>2. CASE KeepsIndex(d)
    BY <2>1, <2>2 DEF Behind, KeepsIndex
  <2>3. CASE StartsAgain(d)
    BY <2>1, <2>3 DEF Behind, StartsAgain
  <2> QED BY <2>2, <2>3
<1> QED BY <1>1, <1>2

LEMMA BehindLifetime ==
  ASSUME TypeOK, \A c \in Conns : Behind(c), Lifetime
  PROVE  \A c \in Conns : Behind(c)'
<1> USE DEF hist
<1>1. CASE Restart \/ Relaunch
  <2>1. \A c \in Conns : StartsAgain(c)
    BY <1>1 DEF Restart, Relaunch, StartsAgain, Cleared, Fresh
  <2>2. Len(<<>>) = 0
    OBVIOUS
  <2> QED BY <2>1, <2>2 DEF StartsAgain, Behind
<1>2. ASSUME NEW d \in Conns, Accept(d) \/ End(d) PROVE \A c \in Conns : Behind(c)'
  <2>1. \/ conn' = [conn EXCEPT ![d] = [Cleared(conn[d]) EXCEPT !.I = TRUE]]
        \/ conn' = [conn EXCEPT ![d] = Fresh]
    BY <1>2 DEF Accept, End
  <2>2. /\ Fresh.inv = <<>> /\ Fresh.ridx = 0
        /\ [Cleared(conn[d]) EXCEPT !.I = TRUE].inv = <<>>
        /\ [Cleared(conn[d]) EXCEPT !.I = TRUE].ridx = 0
    BY DEF Cleared, Fresh
  <2>3. conn'[d].inv = <<>> /\ conn'[d].ridx = 0
    BY <2>1, <2>2 DEF TypeOK
  <2>4. wire' = [wire EXCEPT ![d] = <<>>]
    BY <1>2 DEF Accept, End, CutOff
  <2>5. StartsAgain(d) /\ Leaves(d)
    BY <2>1, <2>3, <2>4 DEF StartsAgain, Leaves, TypeOK
  <2> QED BY <2>5, BehindOne
<1>3. ASSUME NEW d \in Conns, CloseI(d) \/ CloseO(d) PROVE \A c \in Conns : Behind(c)'
  <2>1. KeepsIndex(d) /\ Leaves(d)
    BY <1>3 DEF CloseI, CloseO, KeepsIndex, Leaves, TypeOK, Conn
  <2> QED BY <2>1, BehindOne
<1> QED BY <1>1, <1>2, <1>3 DEF Lifetime

LEMMA BehindAsking ==
  ASSUME TypeOK, \A c \in Conns : Behind(c), Asking
  PROVE  \A c \in Conns : Behind(c)'
<1>r. ASSUME NEW d \in Conns, NEW h, NEW o
      PROVE  LET q == Connected(Recycled(conn[d], h), o) IN
             /\ q.inv = conn[d].inv /\ q.ridx = conn[d].ridx
             /\ DOMAIN q = DOMAIN conn[d]
  <2>1. conn[d] \in Conn
    BY DEF TypeOK
  <2> QED BY <2>1 DEF Connected, Recycled, Conn
<1>1. ASSUME NEW d \in Conns, NEW h, NEW m, NEW cb, NEW id, NEW o,
             Request(d, h, m, cb, id, o)
      PROVE  \A c \in Conns : Behind(c)'
  <2> DEFINE r == Recycled(conn[d], h)
             q == Connected(r, o)
  <2>1. conn' = [conn EXCEPT ![d] = Pushed(q, cb, id)]
    BY <1>1 DEF Request
  <2>2. wire' = [wire EXCEPT ![d] = IF r.O = "none" THEN <<>> ELSE wire[d]]
    BY <1>1 DEF Request
  <2>3. Pushed(q, cb, id).inv = conn[d].inv /\ Pushed(q, cb, id).ridx = conn[d].ridx
    BY <1>r DEF Pushed
  <2> HIDE DEF q, r
  <2>4. KeepsIndex(d) /\ Leaves(d)
    BY <2>1, <2>2, <2>3 DEF KeepsIndex, Leaves, TypeOK
  <2> QED BY <2>4, BehindOne
<1>2. ASSUME NEW d \in Conns, NEW h, NEW m, RequestFail(d, h, m)
      PROVE  \A c \in Conns : Behind(c)'
  <2> DEFINE q == Connected(Recycled(conn[d], h), "none")
  <2>1. conn' = [conn EXCEPT ![d] = [q EXCEPT !.I = FALSE]]
    BY <1>2 DEF RequestFail
  <2>2. /\ [q EXCEPT !.I = FALSE].inv = conn[d].inv
        /\ [q EXCEPT !.I = FALSE].ridx = conn[d].ridx
    BY <1>r
  <2> HIDE DEF q
  <2>3. wire' = [wire EXCEPT ![d] = <<>>]
    BY <1>2 DEF RequestFail, CutOff
  <2>4. KeepsIndex(d) /\ Leaves(d)
    BY <2>1, <2>2, <2>3 DEF KeepsIndex, Leaves, TypeOK
  <2> QED BY <2>4, BehindOne
<1>3. ASSUME NEW d \in Conns, NEW h, NEW close, AskWeb(d, h, close)
      PROVE  \A c \in Conns : Behind(c)'
  <2>1. conn' = [conn EXCEPT ![d] = [Recycled(conn[d], h) EXCEPT !.I = ~close]]
    BY <1>3 DEF AskWeb
  <2>2. /\ [Recycled(conn[d], h) EXCEPT !.I = ~close].inv = conn[d].inv
        /\ [Recycled(conn[d], h) EXCEPT !.I = ~close].ridx = conn[d].ridx
    BY DEF Recycled, TypeOK, Conn
  <2>3. wire' = [wire EXCEPT ![d] = <<>>]
    BY <1>3 DEF AskWeb
  <2>4. KeepsIndex(d) /\ Leaves(d)
    BY <2>1, <2>2, <2>3 DEF KeepsIndex, Leaves, TypeOK
  <2> QED BY <2>4, BehindOne
<1> QED BY <1>1, <1>2, <1>3
        DEF Asking, Ask, AskConfirm, Submit, AskFail, AskConfirmFail, SubmitFail

LEMMA BehindCalling ==
  ASSUME TypeOK, \A c \in Conns : Behind(c), Calling
  PROVE  \A c \in Conns : Behind(c)'
<1> USE DEF world, hist
<1>1. PICK d \in Conns :
        \/ ConnectDone(d) \/ InvokeNull(d) \/ InvokeSend(d)
        \/ InvokeFail(d) \/ InvokeProxyFail(d) \/ InvokeStale(d)
        \/ InvokeEnd(d) \/ \E ok \in BOOLEAN : InvokeConnect(d, ok)
  BY DEF Calling
<1>d. /\ conn[d] \in Conn /\ wire[d] \in Seq(Ids) /\ Behind(d)
      /\ Len(wire[d]) \in Nat /\ conn[d].inv \in Seq(Ids)
      /\ Len(conn[d].inv) \in Nat /\ conn[d].ridx \in Nat
  BY DEF TypeOK, Conn
<1>2. CASE InvokeFail(d)
  <2>1. StartsAgain(d) /\ Leaves(d)
    BY <1>2 DEF InvokeFail, CutOff, StartsAgain, Leaves, Fresh, TypeOK
  <2> QED BY <2>1, BehindOne
<1>3. CASE \/ ConnectDone(d) \/ InvokeNull(d) \/ InvokeProxyFail(d)
           \/ InvokeStale(d) \/ InvokeEnd(d)
  <2>1. KeepsIndex(d) /\ Leaves(d)
    BY <1>3 DEF ConnectDone, InvokeNull, InvokeProxyFail, InvokeStale, InvokeEnd,
                Emptied, KeepsIndex, Leaves, TypeOK, Conn
  <2> QED BY <2>1, BehindOne
<1>4. ASSUME NEW id, Invoking(d), id = conn[d].pend[at],
             conn' = [conn EXCEPT ![d] = [conn[d] EXCEPT !.inv = Append(@, id)]],
             wire' = wire \/ wire' = [wire EXCEPT ![d] = Append(wire[d], id)]
      PROVE  \A c \in Conns : Behind(c)'
  <2>1. conn'[d].inv = Append(conn[d].inv, id) /\ conn'[d].ridx = conn[d].ridx
    BY <1>4, <1>d DEF TypeOK, Conn
  <2>2. Len(Append(conn[d].inv, id)) = Len(conn[d].inv) + 1
    BY <1>d
  <2>3. wire'[d] = wire[d] \/ wire'[d] = Append(wire[d], id)
    BY <1>4 DEF TypeOK
  <2>4. Len(wire'[d]) = Len(wire[d]) \/ Len(wire'[d]) = Len(wire[d]) + 1
    BY <2>3, <1>d
  <2>5. Behind(d)'
    BY <1>d, <2>1, <2>2, <2>4 DEF Behind
  <2>6. Leaves(d)
    BY <1>4 DEF Leaves, TypeOK
  <2> QED BY <2>5, <2>6, BehindOne
<1>5. CASE InvokeSend(d)
  BY <1>4, <1>5 DEF InvokeSend
<1>6. CASE \E ok \in BOOLEAN : InvokeConnect(d, ok)
  BY <1>4, <1>6 DEF InvokeConnect
<1> QED BY <1>1, <1>2, <1>3, <1>5, <1>6

LEMMA BehindAnswering ==
  ASSUME TypeOK, \A c \in Conns : Behind(c), Answering, "extra" \notin Faults
  PROVE  \A c \in Conns : Behind(c)'
<1>1. PICK d \in Conns, extra \in BOOLEAN : Response(d, extra)
  BY DEF Answering
<1>2. /\ wire[d] # <<>> /\ wire' = [wire EXCEPT ![d] = Tail(wire[d])]
      /\ conn' = [conn EXCEPT ![d] = [conn[d] EXCEPT !.ridx = @ + 1]]
  BY <1>1 DEF Response
<1>3. /\ conn[d] \in Conn /\ wire[d] \in Seq(Ids) /\ Behind(d)
      /\ Len(conn[d].inv) \in Nat /\ conn[d].ridx \in Nat /\ Len(wire[d]) \in Nat
  BY DEF TypeOK, Conn
<1>4. conn'[d].inv = conn[d].inv /\ conn'[d].ridx = conn[d].ridx + 1
  BY <1>2, <1>3 DEF TypeOK, Conn
<1>5. Len(Tail(wire[d])) = Len(wire[d]) - 1
  BY <1>2, <1>3
<1>6. wire'[d] = Tail(wire[d])
  BY <1>2 DEF TypeOK
<1>7. Behind(d)'
  BY <1>3, <1>4, <1>5, <1>6 DEF Behind
<1>8. Leaves(d)
  BY <1>2 DEF Leaves, TypeOK
<1> QED BY <1>7, <1>8, BehindOne

\* If servers answer what they are asked and nothing else, every response finds
\* an invoked request at the index, also when O is replaced under way.
THEOREM IndexBehindHolds == Spec => []IndexBehind
<1> DEFINE Inv == "extra" \notin Faults => \A c \in Conns : Behind(c)
<1>1. Init => Inv
  <2>1. Len(<<>>) = 0
    OBVIOUS
  <2>2. Fresh.ridx = 0 /\ Fresh.inv = <<>>
    BY DEF Fresh
  <2>3. Init => \A c \in Conns : conn[c] = Fresh /\ wire[c] = <<>>
    BY DEF Init
  <2>4. ASSUME Init, NEW c \in Conns PROVE Behind(c)
    <3>1. conn[c].ridx = 0 /\ conn[c].inv = <<>> /\ wire[c] = <<>>
      BY <2>2, <2>3, <2>4
    <3> QED BY <2>1, <3>1 DEF Behind
  <2> QED BY <2>4
<1>2. TypeOK /\ Inv /\ [Next]_vars => Inv'
  <2> SUFFICES ASSUME TypeOK, [Next]_vars, \A c \in Conns : Behind(c), "extra" \notin Faults
               PROVE  \A c \in Conns : Behind(c)'
    OBVIOUS
  <2>1. CASE UNCHANGED vars
    BY <2>1 DEF vars, code, world, Behind
  <2>2. CASE Next
    BY <2>2, BehindLifetime, BehindAsking, BehindCalling, BehindAnswering DEF Next
  <2> QED BY <2>1, <2>2
<1>3. Inv => IndexBehind
  BY DEF Behind, IndexBehind
<1> QED BY <1>1, <1>2, <1>3, TypeCorrect, PTL DEF Spec
=============================================================================
