------------------------------ MODULE MoaiServer ------------------------------
(***************************************************************************)
(* The event loop of the Moai web server and local proxy (src/libMoai):    *)
(* the connection table of Moai_connection.c, the descriptor sets of       *)
(* Moai_fdset.c and the receive-and-send handler of Moai_server.c.  The    *)
(* server is one thread: it waits in select, then makes one pass over what *)
(* select reported, in three phases (listening sockets, connects that      *)
(* completed, readable sockets).                                           *)
(*                                                                         *)
(* A descriptor is a member of Socks; the kernel may hand a closed one out *)
(* again.  A connection record (MoaiConnection) is a member of Recs and    *)
(* joins the socket I of a browser to the socket O of a server.  Payloads, *)
(* host names and clocks are abstracted to the choices the code makes from *)
(* them.  The array searches return the first match: here it is any match, *)
(* and readable sockets are served in any order (POSIX builds go through   *)
(* them in ascending order, Windows builds in insertion order).            *)
(***************************************************************************)
EXTENDS Naturals, Sequences, FiniteSets

CONSTANTS
  Socks,      \* descriptors
  Recs,       \* addresses of connection records
  INVALID,    \* ZnkSocket_INVALID
  NULL,       \* no record
  Alias,      \* the descriptor whose bit FD_SET/CLR/ISSET(-1) touches
  Cap,        \* how many sockets an fd_set has room for
  NListen,    \* number of listening sockets
  Faults,     \* failures of the outside world that the run allows
  Kinds       \* kinds of connected callbacks that the run allows

\* Alias: ZnkFdSet_* pass ZnkSocket_INVALID (-1) on to the FD_* macros, which
\* is undefined.  With glibc on x86-64 they touch bit 63; with Cygwin the call
\* is skipped and with Windows no entry matches: Alias = {} there.
ASSUME ServerAssumption ==
  /\ INVALID \notin Socks
  /\ NULL \notin Recs
  /\ Alias \subseteq Socks /\ \A s, t \in Alias : s = t
  /\ Cap \in Nat
  /\ NListen \in Nat
  /\ Faults \subseteq {"send", "proxy", "post"}
  /\ Kinds \subseteq {"GET", "POST", "CONNECT", "CONFIRM"}

VARIABLES
  open,        \* kernel: descriptors this process holds open
  live,        \* records in st_connection_ary
  mcn,         \* their fields (a record that is not live is NoConn)
  obsR,        \* fdst_observe_r_ without the listening sockets
  obsW,        \* fdst_observe_w_
  connecting,  \* connecting_socks_
  resA,        \* reserve_accept_socks_
  resC,        \* reserve_connect_socks_
  acc,         \* listening sockets still to be accepted from in this pass
  todo,        \* fdst_read_: reported readable and not served yet
  rdyW,        \* fdst_write_: reported writable
  wk,          \* wk_sock_ary_: copy of connecting_socks_
  idx,         \* index of the loop over wk
  pc,          \* where the server thread is
  cur,         \* the socket being served
  ptr,         \* the record recv_and_send found for it (parameter mcn)
  cb,          \* the record whose callback is being invoked
  ret,         \* where the invoked callback returns to
  scan,        \* what scanHttpFirst made of the data
  alp,         \* ctx->as_local_proxy_
  result       \* ras_result of MoaiFdSet_process

table == <<open, live, mcn>>
sets  == <<obsR, obsW, connecting, resA, resC>>
pass  == <<acc, todo, rdyW, wk, idx>>
frame == <<cur, ptr, cb, ret, scan>>
vars  == <<table, sets, pass, pc, frame, alp, result>>

Sock == Socks \cup {INVALID}
Rec  == Recs \cup {NULL}
Events == {"none", "GET", "POST", "CONNECT", "CONFIRM"}

\* I and O sockets; is_connect_inprogress_ (connect_begin_time_ is nonzero
\* exactly when an in-progress connect has an O socket); and ev, the last
\* cb_func_ pushed while info_id_list_ is not empty.  "CONFIRM" is a NULL
\* cb_func_: the POST waits for the user's confirmation.
Conn == [I : Sock, O : Sock, prog : BOOLEAN, ev : Events]
NoConn == [I |-> INVALID, O |-> INVALID, prog |-> FALSE, ev |-> "none"]

-----------------------------------------------------------------------------
\* Descriptor sets

Fd(s) == IF s = INVALID THEN Alias ELSE {s}
FdIsset(S, s) == S \cap Fd(s) # {}
HasRoom(S, s) == /\ Fd(s) # {}
                 /\ Fd(s) \subseteq S \/ Cardinality(S) < Cap

\* MoaiFdSet_removeConnectingSock, the array part: the entries of q that are
\* not in S, in their order.  (It is SelectSeq, of which the provers know
\* nothing: MCMoaiServer checks that the two agree.)
InOrder(K) == CHOOSE f \in [1..Cardinality(K) -> K] :
                \A i, j \in DOMAIN f : i < j => f[i] < f[j]
Without(q, S) == LET f == InOrder({i \in DOMAIN q : q[i] \notin S})
                 IN  [i \in DOMAIN f |-> q[f[i]]]
Entries(q) == {q[i] : i \in DOMAIN q}

\* MoaiFdSet_addConnectingSock: the write set holds no listening sockets, so
\* it has room for Cap + NListen; whether s found room is not looked at.
RoomW == Cap + NListen
Noted(s) == IF s \in obsW \/ Cardinality(obsW) < RoomW
            THEN obsW \cup {s} ELSE obsW
AddConnecting(s) ==
  /\ connecting' = IF s \in Entries(connecting) THEN connecting
                   ELSE Append(connecting, s)
  /\ obsW' = Noted(s)

\* Mutant of Observe: a socket that does not fit is not kept in reserve.
ObserveOrForget(S, o) ==
  /\ obsR' = IF HasRoom(S, o) THEN S \cup Fd(o) ELSE S
  /\ UNCHANGED resC

\* A connected callback ends by observing the O socket it started with,
\* or by keeping it in reserve when the fd_set is full.
Observe(S, o) ==
  IF HasRoom(S, o)
  THEN obsR' = S \cup Fd(o) /\ UNCHANGED resC
  ELSE obsR' = S /\ resC' = resC \cup {o}

Bits(A) == UNION {Fd(s) : s \in A}
\* Mutant: all of them, whether there is room or not.
AdoptedAll(S, Q) == {Q}

\* adoptReserveSocks: as many of the reserved sockets Q as S has room for
Adopted(S, Q) ==
  {A \in SUBSET Q :
     /\ Bits(A) \subseteq S \/ Cardinality(S \cup Bits(A)) <= Cap
     /\ \A s \in Q : HasRoom(S \cup Bits(A), s) <=> s \in A}

\* Connection table
ByI(s) == {r \in live : mcn[r].I = s}
ByO(s) == {r \in live : mcn[r].O = s}
Fresh  == Recs \ live
OwnedBy(r) == {mcn[r].I, mcn[r].O} \ {INVALID}
Owned  == UNION {OwnedBy(r) : r \in Recs}

\* Mutant: a free record is taken before the one that has the socket.
RecordForAnew(s) ==
  IF ByI(INVALID) # {} THEN ByI(INVALID)
  ELSE IF ByI(s) # {} THEN ByI(s) ELSE Fresh

\* The record that a new I socket, or a connect for one, is put into
RecordFor(s) ==
  IF ByI(s) # {} THEN ByI(s)
  ELSE IF ByI(INVALID) # {} THEN ByI(INVALID) ELSE Fresh

\* Mutant: only the I socket is closed.
CloseOwnedI(r) ==
  /\ open' = open \ {mcn[r].I}
  /\ obsW' = obsW \ ({mcn[r].O} \ {INVALID})
  /\ connecting' = Without(connecting, {mcn[r].O} \ {INVALID})

\* MoaiConnection_clear closes both sockets and withdraws them everywhere
CloseOwned(r) ==
  /\ open' = open \ OwnedBy(r)
  /\ obsW' = obsW \ ({mcn[r].O} \ {INVALID})
  /\ connecting' = Without(connecting, {mcn[r].O} \ {INVALID})

\* MoaiConnection_erase
Erase(r) ==
  /\ CloseOwned(r)
  /\ mcn' = [mcn EXCEPT ![r] = NoConn]
  /\ live' = live \ {r}

\* MoaiIO_close_ISock and MoaiIO_close_OSock for every socket in S: an owner
\* is looked up and forgets the socket, which is closed and withdrawn.  (They
\* do nothing for a listening socket; those are no members of Socks.)
DropI(m, S) == [r \in Recs |-> IF r \in live /\ m[r].I \in S
                               THEN [m[r] EXCEPT !.I = INVALID] ELSE m[r]]
\* Mutant: the owner keeps the O socket.
DropONot(m, S) == m
DropO(m, S) == [r \in Recs |-> IF r \in live /\ m[r].O \in S
                               THEN [m[r] EXCEPT !.O = INVALID] ELSE m[r]]
HeldI(S) == {s \in S : ByI(s) # {}}
HeldO(S) == {s \in S : ByO(s) # {}}

-----------------------------------------------------------------------------
Init ==
  /\ open = {} /\ live = {} /\ mcn = [r \in Recs |-> NoConn]
  /\ obsR = {} /\ obsW = {} /\ connecting = <<>> /\ resA = {} /\ resC = {}
  /\ acc = 0 /\ todo = {} /\ rdyW = {} /\ wk = <<>> /\ idx = 1
  /\ pc = "Select"
  /\ cur = INVALID /\ ptr = NULL /\ cb = NULL /\ ret = "Read" /\ scan = "none"
  /\ alp = FALSE /\ result = "OK"

-----------------------------------------------------------------------------
\* select

\* select reports some of the observed sockets, and connections to accept.
SelectReady ==
  /\ pc = "Select"
  /\ obsR \cup obsW \subseteq open
  /\ \E R \in SUBSET obsR, W \in SUBSET obsW, a \in 0..NListen :
       /\ R # {} \/ W # {} \/ a # 0
       /\ acc' = a /\ todo' = R /\ rdyW' = W
  /\ pc' = "Accept"
  /\ result' = "OK"
  /\ UNCHANGED <<table, sets, wk, idx, frame, alp>>

\* select fails with EBADF: MoaiServer_main gives up and is called again.
SelectError ==
  /\ pc = "Select"
  /\ ~(obsR \cup obsW \subseteq open)
  /\ pc' = "Restart"
  /\ UNCHANGED <<table, sets, pass, frame, alp, result>>

\* select times out: procExile erases at most one connection without an O
\* socket, then procConnectionTimeout gives up the connects in E, which have
\* been in progress for more than 45 seconds by clock().  On Unix that is CPU
\* time, which waiting does not add to: nothing here says that a connect ever
\* gets so old, or that select times out when one has.
Pending == {s \in Entries(connecting) \ {INVALID} :
              \E r \in ByO(s) : mcn[r].prog}
Exiles  == {r \in live : mcn[r].I \in obsR /\ mcn[r].O = INVALID}
ExiledI(X) == {mcn[r].I : r \in X}

TimeoutStep(X, E) ==
  /\ pc = "Select"
  /\ obsR \cup obsW \subseteq open
  /\ open' = open \ (ExiledI(X) \cup E)
  /\ live' = live \ X
  /\ mcn' = [r \in Recs |-> IF r \in X THEN NoConn ELSE DropO(mcn, E)[r]]
  /\ obsR' = obsR \ ExiledI(X)
  /\ obsW' = obsW \ (E \cup
               (IF INVALID \in Entries(connecting) THEN Alias ELSE {}))
  /\ connecting' = Without(connecting, E \cup {INVALID})
  /\ UNCHANGED <<resA, resC, pass, pc, frame, alp, result>>

SelectTimeout ==
  \E X \in SUBSET Exiles, E \in SUBSET Pending :
    Cardinality(X) <= 1 /\ TimeoutStep(X, E)

-----------------------------------------------------------------------------
\* Phase 1: listening sockets

\* accept failed, or the peer's address is refused and its socket closed.
AcceptDeny ==
  /\ pc = "Accept" /\ acc > 0
  /\ acc' = acc - 1
  /\ UNCHANGED <<table, sets, todo, rdyW, wk, idx, pc, frame, alp, result>>

\* MoaiConnection_regist: a new record, or the clearing of one whose I is gone
AcceptAllow(s, r) ==
  /\ pc = "Accept" /\ acc > 0
  /\ s \in Socks \ open
  /\ r \in RecordFor(s)
  /\ acc' = acc - 1
  /\ live' = live \cup {r}
  /\ IF mcn[r].I = s
     THEN /\ open' = open \cup {s}
          /\ UNCHANGED <<mcn, obsW, connecting>>
     ELSE /\ open' = (open \ OwnedBy(r)) \cup {s}
          /\ mcn' = [mcn EXCEPT ![r] = [NoConn EXCEPT !.I = s]]
          /\ obsW' = obsW \ OwnedBy(r)
          /\ connecting' = Without(connecting, OwnedBy(r))
  /\ LET S == IF mcn[r].I = s THEN obsR ELSE obsR \ OwnedBy(r) IN
     IF HasRoom(S, s)
     THEN obsR' = S \cup {s} /\ UNCHANGED resA
     ELSE obsR' = S /\ resA' = resA \cup {s}
  /\ UNCHANGED <<resC, todo, rdyW, wk, idx, pc, frame, alp, result>>

AcceptDone ==
  /\ pc = "Accept" /\ acc = 0
  /\ wk' = connecting /\ idx' = 1
  /\ pc' = "Connecting"
  /\ UNCHANGED <<table, sets, acc, todo, rdyW, frame, alp, result>>

-----------------------------------------------------------------------------
\* Phase 2: connects that completed

\* Mutant: the loop goes on without the next index.
ConnectingStay ==
  /\ pc = "Connecting" /\ idx <= Len(wk)
  /\ ~FdIsset(rdyW, wk[idx])
  /\ UNCHANGED vars

ConnectingNext ==
  /\ pc = "Connecting" /\ idx <= Len(wk)
  /\ ~FdIsset(rdyW, wk[idx])
  /\ idx' = idx + 1
  /\ UNCHANGED <<table, sets, acc, todo, rdyW, wk, pc, frame, alp, result>>

\* Mutants of MarkDone: the entry is erased while the loop is running, or
\* set to 0 where it should be INVALID.
MarkErases == connecting' = Without(connecting, {wk[idx]})
MarkZero   == connecting' = IF idx \in DOMAIN connecting
                            THEN [connecting EXCEPT ![idx] = 0]
                            ELSE connecting

\* The live array is marked at the index of the copy.
MarkDone == connecting' = IF idx \in DOMAIN connecting
                          THEN [connecting EXCEPT ![idx] = INVALID]
                          ELSE connecting

ConnectingReady(r) ==
  /\ pc = "Connecting" /\ idx <= Len(wk)
  /\ FdIsset(rdyW, wk[idx])
  /\ r \in ByO(wk[idx])
  /\ MarkDone
  /\ mcn' = [mcn EXCEPT ![r].prog = FALSE]
  /\ cb' = r /\ ret' = "Completed" /\ pc' = "Callback"
  /\ UNCHANGED <<open, live, obsR, obsW, resA, resC, pass, cur, ptr, scan,
                 alp, result>>

ConnectingUnknown ==
  /\ pc = "Connecting" /\ idx <= Len(wk)
  /\ FdIsset(rdyW, wk[idx])
  /\ ByO(wk[idx]) = {}
  /\ MarkDone
  /\ pc' = "Completed"
  /\ UNCHANGED <<table, obsR, obsW, resA, resC, pass, frame, alp, result>>

\* Mutant: the entry is read again, which has just been marked.
DoneAgain == IF idx \in DOMAIN connecting THEN Fd(connecting[idx]) ELSE {}
Done == Fd(wk[idx])

\* Back in the loop: the socket is no longer observed for writing.
Completed ==
  /\ pc = "Completed"
  /\ obsW' = obsW \ Done
  /\ idx' = idx + 1
  /\ pc' = "Connecting" /\ cb' = NULL /\ ret' = "Read"
  /\ UNCHANGED <<table, obsR, connecting, resA, resC, acc, todo, rdyW, wk,
                 cur, ptr, scan, alp, result>>

\* Mutant: no compaction.
CompactedNot(q) == q

\* The compaction loop runs from the end of the array down to index 1: an
\* INVALID at index 0 stays.
Compacted(q) == IF q = <<>> THEN q
                ELSE <<Head(q)>> \o Without(Tail(q), {INVALID})

ConnectingDone ==
  /\ pc = "Connecting" /\ idx > Len(wk)
  /\ connecting' = IF wk = <<>> THEN connecting ELSE Compacted(connecting)
  /\ wk' = <<>> /\ idx' = 1 /\ rdyW' = {}
  /\ pc' = "Read"
  /\ UNCHANGED <<table, obsR, obsW, resA, resC, acc, todo, frame, alp, result>>

-----------------------------------------------------------------------------
\* MoaiConnection_invokeCallback on record cb

\* No event is pending, or it has no callback.
CallbackNone ==
  /\ pc = "Callback" /\ mcn[cb].ev \in {"none", "CONFIRM"}
  /\ pc' = ret
  /\ UNCHANGED <<table, sets, pass, frame, alp, result>>

\* The request is sent to O (GET, POST), or I is told that its tunnel is
\* established (CONNECT).  A failing send goes unnoticed for a POST.
CallbackOk ==
  LET c == mcn[cb] IN
  /\ pc = "Callback" /\ c.ev \in {"GET", "POST", "CONNECT"}
  /\ c.ev = "GET" => c.O # INVALID
  /\ c.ev = "CONNECT" => c.I # INVALID
  /\ mcn' = [mcn EXCEPT ![cb].ev = "none"]
  /\ Observe(obsR, c.O)
  /\ pc' = ret
  /\ UNCHANGED <<open, live, obsW, connecting, resA, pass, frame, alp, result>>

\* The send fails: the record is erased, and its O socket observed all the same.
CallbackFail ==
  LET c == mcn[cb] IN
  /\ pc = "Callback"
  /\ \/ c.ev = "GET" /\ ("send" \in Faults \/ c.O = INVALID)
     \/ c.ev = "CONNECT" /\ ("send" \in Faults \/ c.I = INVALID)
  /\ Erase(cb)
  /\ Observe(obsR \ OwnedBy(cb), c.O)
  /\ pc' = ret
  /\ UNCHANGED <<resA, pass, frame, alp, result>>

\* CONNECT through a parent proxy whose answer breaks off: recvInPtn closes O.
CallbackProxyFail ==
  LET c == mcn[cb] IN
  /\ pc = "Callback" /\ c.ev = "CONNECT" /\ "proxy" \in Faults
  /\ open' = open \ {c.O}
  /\ mcn' = [mcn EXCEPT ![cb].O = INVALID]
  /\ obsW' = obsW \ {c.O}
  /\ connecting' = Without(connecting, {c.O} \ {INVALID})
  /\ Observe(obsR \ {c.O}, c.O)
  /\ pc' = ret
  /\ UNCHANGED <<live, resA, pass, frame, alp, result>>

-----------------------------------------------------------------------------
\* Phase 3: readable sockets (recv_and_send)

Idle == cur' = INVALID /\ ptr' = NULL /\ cb' = NULL /\ ret' = "Read"
        /\ scan' = "none"

ReadKnown(s, r) ==
  /\ pc = "Read" /\ s \in todo
  /\ r \in IF ByI(s) # {} THEN ByI(s) ELSE ByO(s)
  /\ todo' = todo \ {s}
  /\ cur' = s /\ ptr' = r /\ pc' = "Scan"
  /\ UNCHANGED <<table, sets, acc, rdyW, wk, idx, cb, ret, scan, alp, result>>

\* NotFoundConnection
ReadUnknown(s) ==
  /\ pc = "Read" /\ s \in todo
  /\ ByI(s) \cup ByO(s) = {}
  /\ todo' = todo \ {s}
  /\ open' = open \ {s} /\ obsR' = obsR \ {s}
  /\ result' = "OK"
  /\ UNCHANGED <<live, mcn, obsW, connecting, resA, resC, acc, rdyW, wk, idx,
                 pc, frame, alp>>

\* The first recv returns 0 or -1.  On a socket whose connect is still in
\* progress it answers EAGAIN until ZnkSocket_recv gives up.
ScanFail ==
  /\ pc = "Scan"
  /\ Erase(ptr)
  /\ obsR' = obsR \ OwnedBy(ptr)
  /\ Idle /\ pc' = "Read" /\ result' = "OK"
  /\ UNCHANGED <<resA, resC, pass, alp>>

Inner == mcn[ptr].I = cur
Readable == cur \in open /\ (Inner \/ ~mcn[ptr].prog)

\* The peer stops in the middle of the first line or of the header.
ScanCut ==
  /\ pc = "Scan" /\ Readable
  /\ open' = open \ {cur}
  /\ mcn' = DropO(DropI(mcn, {cur}), {cur})
  /\ obsR' = obsR \ {cur}
  /\ obsW' = obsW \ HeldO({cur})
  /\ connecting' = Without(connecting, HeldO({cur}))
  /\ Idle /\ pc' = "Read" /\ result' = "OK"
  /\ UNCHANGED <<live, resA, resC, pass, alp>>

\* scanHttpFirst tells requests from responses by the first line alone,
\* whichever side it comes from.  The model assumes of its peers that browsers
\* send requests and data, and servers responses and data: a response from a
\* browser, or a request from a server, is left out.

\* A request from a browser.  MoaiInfo_parseHdr decides whether it is for the
\* local proxy; when it names another host or port than the last one on this
\* I socket (recycle), the O socket is closed, even when it is INVALID.
Recycled(recycle) == IF recycle THEN {mcn[ptr].O} ELSE {}
\* Mutant: the closed O socket stays observed.
RecycledFdNot(recycle) == {}
RecycledFd(recycle) == IF recycle THEN Fd(mcn[ptr].O) ELSE {}

ScanRequest(local, recycle) ==
  /\ pc = "Scan" /\ Readable /\ Inner
  /\ alp' = local
  /\ open' = open \ Recycled(recycle)
  /\ mcn' = IF recycle THEN [mcn EXCEPT ![ptr].O = INVALID] ELSE mcn
  /\ obsR' = obsR \ RecycledFd(recycle)
  /\ obsW' = obsW \ RecycledFd(recycle)
  /\ connecting' = Without(connecting, Recycled(recycle))
  /\ scan' = "Request" /\ pc' = "Dispatch"
  /\ UNCHANGED <<live, resA, resC, pass, cur, ptr, cb, ret, result>>

\* UnknownMethod and CannotGetHost (before the recycling), or a blocked host
\* (after it): I is closed.
ScanReject(local, recycle) ==
  /\ pc = "Scan" /\ Readable /\ Inner
  /\ alp' = local
  /\ open' = open \ (Recycled(recycle) \cup {cur})
  /\ mcn' = [mcn EXCEPT ![ptr].I = INVALID,
                        ![ptr].O = IF recycle THEN INVALID ELSE @]
  /\ obsR' = obsR \ (RecycledFd(recycle) \cup {cur})
  /\ obsW' = obsW \ RecycledFd(recycle)
  /\ connecting' = Without(connecting, Recycled(recycle))
  /\ Idle /\ pc' = "Read" /\ result' = "OK"
  /\ UNCHANGED <<live, resA, resC, pass>>

\* Body data or tunnelled data, from either side
ScanData ==
  /\ pc = "Scan" /\ Readable
  /\ scan' = "Data" /\ pc' = "Dispatch"
  /\ UNCHANGED <<table, sets, pass, cur, ptr, cb, ret, alp, result>>

\* The head of a response of a server.  A text body is received to its end at once; when
\* the server stops in the middle of it (cut), O is closed.
ScanResponse(cut) ==
  /\ pc = "Scan" /\ Readable /\ ~Inner
  /\ LET S == IF cut THEN {cur} ELSE {} IN
     /\ open' = open \ S
     /\ mcn' = DropO(mcn, S)
     /\ obsR' = obsR \ S
     /\ obsW' = obsW \ S
     /\ connecting' = Without(connecting, S)
  /\ scan' = "Response" /\ pc' = "Dispatch"
  /\ UNCHANGED <<live, resA, resC, pass, cur, ptr, cb, ret, alp, result>>

-----------------------------------------------------------------------------
\* doLocalProxy

\* The rest of a POST body cannot be received: recvBySize closes I, and the
\* handler goes on with the number of the closed socket.
PostBodyCut ==
  /\ pc = "Dispatch" /\ alp /\ scan = "Request" /\ "post" \in Faults
  /\ cur \in open /\ mcn[ptr].I = cur
  /\ open' = open \ {cur}
  /\ mcn' = [mcn EXCEPT ![ptr].I = INVALID]
  /\ obsR' = obsR \ {cur}
  /\ scan' = "CutPost"
  /\ UNCHANGED <<live, obsW, connecting, resA, resC, pass, pc, cur, ptr, cb,
                 ret, alp, result>>

RequestKinds == IF scan = "CutPost" THEN Kinds \cap {"POST", "CONFIRM"}
                                    ELSE Kinds

\* The O socket of r as MoaiConnection_connectO finds it: one of a record
\* that is taken over for another I is forgotten without being closed.
FoundO(r) == IF mcn[r].I = cur THEN mcn[r].O ELSE INVALID

ConnectTo(r, kind) ==
  /\ pc = "Dispatch" /\ alp /\ scan \in {"Request", "CutPost"}
  /\ r \in RecordFor(cur)
  /\ kind \in RequestKinds

\* The connection to this host is still there, or under way.
ConnectReuse(r, kind) ==
  /\ ConnectTo(r, kind)
  /\ FoundO(r) # INVALID
  /\ mcn' = [mcn EXCEPT ![r].ev = kind]
  /\ IF mcn[r].prog
     THEN /\ AddConnecting(mcn[r].O)
          /\ pc' = "Connected"
          /\ UNCHANGED <<cb, ret>>
     ELSE /\ cb' = r /\ ret' = "Connected" /\ pc' = "Callback"
          /\ UNCHANGED <<connecting, obsW>>
  /\ UNCHANGED <<open, live, obsR, resA, resC, pass, cur, ptr, scan, alp,
                 result>>

\* A new O socket s, connected at once or in progress
ConnectNew(r, kind, s, inprogress) ==
  /\ ConnectTo(r, kind)
  /\ FoundO(r) = INVALID
  /\ s \in Socks \ open
  /\ open' = open \cup {s}
  /\ live' = live \cup {r}
  /\ mcn' = [mcn EXCEPT ![r] =
               [I |-> cur, O |-> s, prog |-> inprogress, ev |-> kind]]
  /\ IF inprogress
     THEN /\ AddConnecting(s)
          /\ pc' = "Connected"
          /\ UNCHANGED <<cb, ret>>
     ELSE /\ cb' = r /\ ret' = "Connected" /\ pc' = "Callback"
          /\ UNCHANGED <<connecting, obsW>>
  /\ UNCHANGED <<obsR, resA, resC, pass, cur, ptr, scan, alp, result>>

\* The name cannot be resolved, the connect fails, or no descriptor is left:
\* the browser gets an error page and I is closed.
ConnectFail(r, kind) ==
  /\ ConnectTo(r, kind)
  /\ FoundO(r) = INVALID
  /\ open' = open \ {cur}
  /\ live' = live \cup {r}
  /\ mcn' = [mcn EXCEPT ![r] = NoConn]
  /\ obsR' = obsR \ {cur}
  /\ Idle /\ pc' = "Read" /\ result' = "OK"
  /\ UNCHANGED <<obsW, connecting, resA, resC, pass, alp>>

\* Back in doLocalProxy, which reads the sockets of its record ptr again
Connected ==
  /\ pc = "Connected"
  /\ Idle /\ pc' = "Read" /\ result' = "OK"
  /\ UNCHANGED <<table, sets, pass, alp>>

\* Anything that is not a request is sent on to the other side.
Relay ==
  /\ pc = "Dispatch" /\ alp /\ scan \in {"Data", "Response"}
  /\ Idle /\ pc' = "Read" /\ result' = "OK"
  /\ UNCHANGED <<table, sets, pass, alp>>

-----------------------------------------------------------------------------
\* MoaiWebServer_do

\* GET, HEAD and most POSTs: I is closed unless it is kept alive.  Data that
\* is not a request has an unknown method, for which nothing is done.
WebReply(close) ==
  /\ pc = "Dispatch" /\ ~alp
  /\ close => scan = "Request"
  /\ LET S == IF close THEN {cur} ELSE {} IN
     /\ open' = open \ S
     /\ mcn' = DropI(mcn, S)
     /\ obsR' = obsR \ S
  /\ Idle /\ pc' = "Read" /\ result' = "OK"
  /\ UNCHANGED <<live, obsW, connecting, resA, resC, pass, alp>>

Results == {"OK", "RestartServer", "RestartProcess"}

\* A POST to the configuration pages.  An updated proxy setting closes every
\* observed socket; a restart closes I.
WebConfig(close, updated, res) ==
  /\ pc = "Dispatch" /\ ~alp /\ scan = "Request"
  /\ updated \/ res # "OK"
  /\ res # "OK" => close
  /\ LET SI == IF close THEN {cur} ELSE {}
         S  == IF updated THEN obsR \ SI ELSE {}
         O  == HeldO(S)
     IN /\ open' = open \ (SI \cup HeldI(S) \cup O)
        /\ mcn' = DropO(DropI(mcn, SI \cup S), S)
        /\ obsR' = obsR \ (SI \cup HeldI(S) \cup O)
        /\ obsW' = obsW \ O
        /\ connecting' = Without(connecting, O)
  /\ Idle
  /\ IF res = "RestartServer"
     THEN pc' = "Restart" /\ UNCHANGED result
     ELSE pc' = "Read" /\ result' = res
  /\ UNCHANGED <<live, resA, resC, pass, alp>>

-----------------------------------------------------------------------------
\* End of the pass: reserved sockets are adopted, and MoaiServer_main looks at
\* the result of the last socket served.
ReadDone ==
  /\ pc = "Read" /\ todo = {}
  /\ \E A \in Adopted(obsR, resA) :
       /\ resA' = resA \ A
       /\ \E C \in Adopted(obsR \cup Bits(A), resC) :
            /\ resC' = resC \ C
            /\ obsR' = obsR \cup Bits(A) \cup Bits(C)
  /\ pc' = IF result = "RestartProcess" THEN "Exit" ELSE "Select"
  /\ UNCHANGED <<table, obsW, connecting, pass, frame, alp, result>>

\* MoaiServer_main ends and is called again: the descriptor sets are new, and
\* clearAll, called with no MoaiFdSet, forgets the sockets without closing them.
Restart ==
  /\ pc = "Restart"
  /\ mcn' = [r \in Recs |-> NoConn]
  /\ obsR' = {} /\ obsW' = {} /\ connecting' = <<>> /\ resA' = {} /\ resC' = {}
  /\ acc' = 0 /\ todo' = {} /\ rdyW' = {} /\ wk' = <<>> /\ idx' = 1
  /\ Idle /\ alp' = FALSE /\ result' = "OK"
  /\ pc' = "Select"
  /\ UNCHANGED <<open, live>>

\* The process is replaced by birdman, which starts moai again: a new process.
Relaunch ==
  /\ pc = "Exit"
  /\ open' = {} /\ live' = {} /\ mcn' = [r \in Recs |-> NoConn]
  /\ obsR' = {} /\ obsW' = {} /\ connecting' = <<>> /\ resA' = {} /\ resC' = {}
  /\ acc' = 0 /\ todo' = {} /\ rdyW' = {} /\ wk' = <<>> /\ idx' = 1
  /\ Idle /\ alp' = FALSE /\ result' = "OK"
  /\ pc' = "Select"

-----------------------------------------------------------------------------
Select == SelectReady \/ SelectError \/ SelectTimeout

Accept == \/ AcceptDeny \/ AcceptDone
          \/ \E s \in Socks, r \in Recs : AcceptAllow(s, r)

Complete == \/ ConnectingNext \/ ConnectingUnknown \/ Completed \/ ConnectingDone
            \/ \E r \in Recs : ConnectingReady(r)

Callback == CallbackNone \/ CallbackOk \/ CallbackFail \/ CallbackProxyFail

Scan == \/ \E s \in Socks : ReadUnknown(s) \/ \E r \in Recs : ReadKnown(s, r)
        \/ ScanFail \/ ScanCut \/ ScanData
        \/ \E b, c \in BOOLEAN : ScanRequest(b, c) \/ ScanReject(b, c)
        \/ \E b \in BOOLEAN : ScanResponse(b)

Proxy == \/ PostBodyCut \/ Relay \/ Connected
         \/ \E r \in Recs, kind \in Kinds :
              \/ ConnectReuse(r, kind) \/ ConnectFail(r, kind)
              \/ \E s \in Socks, b \in BOOLEAN : ConnectNew(r, kind, s, b)

Web == \/ \E b \in BOOLEAN : WebReply(b)
       \/ \E b, u \in BOOLEAN, res \in Results : WebConfig(b, u, res)

Next == Select \/ Accept \/ Complete \/ Callback \/ Scan \/ Proxy \/ Web
        \/ ReadDone \/ Restart \/ Relaunch

Spec == Init /\ [][Next]_vars

-----------------------------------------------------------------------------
\* Properties

\* Type invariant of the server's state.
TypeOK ==
  /\ open \subseteq Socks /\ live \subseteq Recs /\ mcn \in [Recs -> Conn]
  /\ obsR \subseteq Socks /\ obsW \subseteq Socks
  /\ connecting \in Seq(Sock)
  /\ resA \subseteq Socks /\ resC \subseteq Sock
  /\ acc \in 0..NListen
  /\ todo \subseteq Socks /\ rdyW \subseteq Socks
  /\ wk \in Seq(Sock) /\ idx \in Nat \ {0}
  /\ pc \in {"Select", "Accept", "Connecting", "Completed", "Callback", "Read",
            "Scan", "Dispatch", "Connected", "Restart", "Exit"}
  /\ cur \in Sock /\ ptr \in Rec /\ cb \in Rec
  /\ ret \in {"Read", "Completed", "Connected"}
  /\ scan \in {"none", "Request", "CutPost", "Data", "Response"}
  /\ alp \in BOOLEAN /\ result \in {"OK", "RestartProcess"}

\* A record that is not in the table holds no socket; the sockets of the
\* records are open descriptors; and no socket has two roles: not in two
\* records, and not as I and O of one.  Every search by socket in
\* Moai_connection.c, and every close, relies on it.
DeadHoldNothing == \A r \in Recs \ live : mcn[r] = NoConn
OwnedIsOpen     == Owned \subseteq open
NoSharedSocket  == \A r, q \in Recs : r # q => OwnedBy(r) \cap OwnedBy(q) = {}
TwoSides        == \A r \in Recs : mcn[r].I = mcn[r].O => mcn[r].O = INVALID
Ownership == DeadHoldNothing /\ OwnedIsOpen /\ NoSharedSocket /\ TwoSides

\* When the server waits, the sockets observed for writing, the entries of
\* connecting_socks_ and the records with an in-progress connect are the same
\* thing, and the compaction has left at most an INVALID at index 0.
ConnectingMirrors ==
  pc = "Select" =>
    /\ Entries(connecting) \ {INVALID} = obsW
    /\ obsW = {mcn[r].O : r \in {q \in live : mcn[q].prog}} \ {INVALID}
    /\ \A i, j \in DOMAIN connecting :
         connecting[i] = connecting[j] => i = j
    /\ \A i \in DOMAIN connecting : connecting[i] = INVALID => i = 1

\* Every socket that select is to report as writable is one that the loop over
\* connecting_socks_ looks at; select would report any other at once, and again
\* in every pass.  It holds whatever breaks off, whichever bit FD_CLR(-1)
\* clears, and when the write set had no room for some of the entries.
WritableHandled == pc = "Select" => obsW \subseteq Entries(connecting)

\* A browser's socket is that of one record only, also where the body of a POST
\* broke off and doLocalProxy went on with the number of the socket that was
\* closed: the next browser that is given the number gets that record.
OneRecordPerISock ==
  \A r, q \in live : mcn[r].I = mcn[q].I /\ mcn[r].I # INVALID => r = q

\* Throughout the loop over the copy of connecting_socks_, whose callbacks may
\* erase connections, the live array, which is marked at the index of the
\* copy, still agrees with the copy from that index on.
InConnectingLoop == \/ pc = "Connecting"
                    \/ pc \in {"Callback", "Completed"} /\ wk # <<>>
SnapshotAligned ==
  InConnectingLoop =>
    /\ Len(connecting) = Len(wk)
    /\ \A i \in DOMAIN wk : i > idx => connecting[i] = wk[i]

\* When the server waits, every socket of every connection is watched: it is
\* observed, in reserve, or connecting.  A socket that is not would be deaf
\* for ever.  (The O socket of a POST that waits for the user's confirmation
\* is the one exception the code makes.)
Watched ==
  pc = "Select" =>
    \A r \in live, s \in Socks :
      s \in OwnedBy(r) /\ ~(s = mcn[r].O /\ mcn[r].ev = "CONFIRM")
        => s \in obsR \cup obsW \cup resA \cup resC

\* When the server waits, select is given open descriptors only: with a closed
\* one it fails with EBADF and the server drops everything and restarts.
ObservedOpen == pc = "Select" => obsR \cup obsW \subseteq open

\* The same of the sockets kept in reserve while the fd_set is full.
ReservedOpen == pc = "Select" => resA \cup resC \subseteq open

\* No step but the restart of the server loses track of an open descriptor.
NoLeak == [][pc # "Restart" => (open' \ Owned') \subseteq (open \ Owned)]_vars

\* The handler of one connection changes no other connection: their records
\* stay, their sockets stay open, and what was observed is still observed.
\* (Only a proxy setting changed in the configuration pages closes those of
\* all connections, and is meant to.)
Serving(r) == r \in {ptr, cb}
Handling == {"Scan", "Dispatch", "Callback", "Connected"}
ProxyChanged ==
  \E close \in BOOLEAN, res \in Results : WebConfig(close, TRUE, res)
Isolation ==
  [][\A r \in Recs :
       pc \in Handling /\ ~ProxyChanged /\ ~Serving(r)
       => /\ mcn'[r] = mcn[r]
          /\ OwnedBy(r) \cap open \subseteq open'
          /\ OwnedBy(r) \cap obsR \subseteq obsR']_vars

\* Neither fd_set holds more sockets than it has room for; and a pass ends
\* with sockets left in reserve only when there is no room for them.
CapacityRespected ==
  [][/\ Cardinality(obsR') <= Cap /\ Cardinality(obsW') <= RoomW
     /\ pc = "Read" /\ pc' = "Select" =>
          \A s \in resA' \cup resC' : ~HasRoom(obsR', s)]_vars

\* The readable sockets that are served are connected: none has its connect
\* still in progress.
ReadOnlyConnected ==
  pc = "Scan" => (cur = mcn[ptr].O => ~mcn[ptr].prog)

\* The answer of a server is relayed to the browser that asked for it.
ResponsesAreRelayed == pc = "Dispatch" /\ scan = "Response" => alp

\* The record that doLocalProxy goes on with after the callback still exists.
NoDanglingRecord == pc = "Connected" => ptr \in live

-----------------------------------------------------------------------------
\* Fairness: the single thread keeps running.
FairSpec == Spec /\ WF_vars(Next)

\* Every pass over the reported sockets ends, so that select is called again.
PassEnds == (pc # "Select") ~> (pc = "Select")

\* A restart of the process that was asked for takes place.
RestartHappens == (pc = "Read" /\ result = "RestartProcess") ~> (pc = "Exit")
=============================================================================
