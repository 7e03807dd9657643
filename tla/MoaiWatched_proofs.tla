--------------------------- MODULE MoaiWatched_proofs ---------------------------
(***************************************************************************)
(* Proof that no connection of MoaiServer goes deaf: whenever the server   *)
(* waits, each socket of each connection is observed, in reserve or        *)
(* connecting, for any number of sockets and records and any capacity.     *)
(***************************************************************************)
EXTENDS MoaiConnecting_proofs

\* The callback of r is being invoked.
InCallback(r) == pc = "Callback" /\ cb = r

\* Watched, in every state: an I socket is observed from the start; an O socket
\* is once its callback has been invoked, and a connect in progress always has
\* an event pending, so that there is a callback which observes it.
HeardI(r) == mcn[r].I # INVALID => mcn[r].I \in obsR \cup resA
HeardO(r) == mcn[r].O # INVALID =>
  \/ mcn[r].prog
  \/ mcn[r].O \in obsR \cup resC
  \/ mcn[r].ev = "CONFIRM"
  \/ InCallback(r) /\ mcn[r].ev # "none"
Awaits(r) == mcn[r].prog /\ mcn[r].O # INVALID
               => mcn[r].ev # "none" /\ ~InCallback(r)
HeardOne(r) == HeardI(r) /\ HeardO(r) /\ Awaits(r)
Heard == \A r \in live : HeardOne(r)

\* A record that the step does not serve
LEMMA RestHeard ==
  ASSUME IInv, NEW r \in Recs, HeardOne(r), Spares(r), resA \subseteq resA',
         resC \subseteq resC', ~InCallback(r), ~InCallback(r)'
  PROVE  HeardOne(r)'
BY DEF HeardOne, HeardI, HeardO, Awaits, Spares, OwnedBy

\* A record that loses sockets, and whose others stay observed
LEMMA LessHeard ==
  ASSUME NEW r \in Recs, HeardOne(r), ~InCallback(r), ~InCallback(r)',
         mcn'[r].prog = mcn[r].prog, mcn'[r].ev = mcn[r].ev,
         mcn'[r].I # INVALID => /\ mcn'[r].I = mcn[r].I
                                /\ mcn[r].I \in obsR => mcn[r].I \in obsR',
         mcn'[r].O # INVALID => /\ mcn'[r].O = mcn[r].O
                                /\ mcn[r].O \in obsR => mcn[r].O \in obsR',
         resA \subseteq resA', resC \subseteq resC'
  PROVE  HeardOne(r)'
BY DEF HeardOne, HeardI, HeardO, Awaits, InCallback

LEMMA FreshHeard ==
  ASSUME NEW r \in Recs, mcn'[r].O = INVALID,
         mcn'[r].I # INVALID => mcn'[r].I \in obsR' \cup resA'
  PROVE  HeardOne(r)'
BY DEF HeardOne, HeardI, HeardO, Awaits

\* The steps that are about the sets only
LEMMA SetsHeard ==
  ASSUME Heard, UNCHANGED table, pc # "Callback", pc' # "Callback",
         \A s \in Socks : /\ s \in obsR \cup resA => s \in obsR' \cup resA'
                          /\ s \in obsR \cup resC => s \in obsR' \cup resC',
         TypeOK
  PROVE  Heard'
<1> SUFFICES ASSUME NEW r \in live' PROVE HeardOne(r)'
  BY DEF Heard
<1>1. HeardOne(r) /\ mcn'[r] = mcn[r] /\ mcn[r].I \in Sock /\ mcn[r].O \in Sock
  BY HelperTypes DEF Heard, table, TypeOK
<1> QED BY <1>1 DEF HeardOne, HeardI, HeardO, Awaits, InCallback, Sock

LEMMA SelectHeard ==
  ASSUME "post" \notin Faults, IInv, Heard, Select \/ Accept
  PROVE  Heard'
<1> USE ServerAssumption, HelperTypes DEF IInv
<1>0. live \subseteq Recs
  BY DEF TypeOK
<1>1. CASE SelectReady \/ SelectError \/ AcceptDeny \/ AcceptDone
  BY <1>1, SetsHeard
  DEF SelectReady, SelectError, AcceptDeny, AcceptDone, sets
<1>2. CASE SelectTimeout
  <2>1. PICK X \in SUBSET Exiles, E \in SUBSET Pending : TimeoutStep(X, E)
    BY <1>2 DEF SelectTimeout
  <2>2. /\ live' = live \ X /\ obsR' = obsR \ ExiledI(X) /\ X \subseteq live
        /\ resA' = resA /\ resC' = resC /\ pc # "Callback" /\ pc' # "Callback"
        /\ \A r \in Recs : mcn'[r] = IF r \in X THEN NoConn ELSE DropO(mcn, E)[r]
        /\ \A q \in X : mcn[q].I \in Socks
    BY <2>1 DEF TimeoutStep, Exiles, TypeOK
  <2> SUFFICES ASSUME NEW r \in live \ X PROVE HeardOne(r)'
    BY <2>2 DEF Heard
  <2>3. r \in Recs /\ mcn'[r] = DropO(mcn, E)[r] /\ HeardOne(r)
    BY <1>0, <2>2 DEF Heard
  <2>4. /\ mcn'[r].prog = mcn[r].prog /\ mcn'[r].ev = mcn[r].ev
        /\ mcn'[r].I = mcn[r].I /\ mcn'[r].O \in {mcn[r].O, INVALID}
    BY <2>3 DEF DropO, TypeOK, Conn
  <2>5. mcn[r].I \notin ExiledI(X) /\ mcn[r].O \notin ExiledI(X)
    <3>1. \A q \in X : mcn[r].I # mcn[q].I /\ mcn[r].O # mcn[q].I
      <4> TAKE q \in X
      <4>1. q \in Recs /\ q # r /\ mcn[q].I \in Socks
        BY <1>0, <2>2
      <4> QED BY <4>1, <2>3, Unique
    <3> QED BY <3>1 DEF ExiledI
  <2>6. ~InCallback(r) /\ ~InCallback(r)'
    BY <2>2 DEF InCallback
  <2> QED BY <2>2, <2>3, <2>4, <2>5, <2>6, LessHeard
<1>3. ASSUME NEW s \in Socks, NEW q \in Recs, AcceptAllow(s, q) PROVE Heard'
  <2>1. s \notin open /\ mcn[q].I # s
    BY <1>3, Unique DEF AcceptAllow
  <2>2. /\ mcn' = [mcn EXCEPT ![q] = [NoConn EXCEPT !.I = s]] /\ live' = live \cup {q}
        /\ resC' = resC /\ resA \subseteq resA' /\ s \in obsR' \cup resA'
        /\ obsR \ OwnedBy(q) \subseteq obsR' /\ open \ OwnedBy(q) \subseteq open'
        /\ pc # "Callback" /\ pc' # "Callback"
    BY <1>3, <2>1 DEF AcceptAllow
  <2> SUFFICES ASSUME NEW r \in live' PROVE HeardOne(r)'
    BY DEF Heard
  <2>3. r \in Recs /\ ~InCallback(r) /\ ~InCallback(r)'
    BY <1>0, <2>2 DEF InCallback
  <2>4. CASE r = q
    <3>1. mcn'[r] = [NoConn EXCEPT !.I = s]
      BY <2>2, <2>4 DEF TypeOK
    <3>2. mcn'[r].I = s /\ mcn'[r].O = INVALID
      BY <3>1 DEF NoConn
    <3> QED BY <2>2, <2>3, <3>2, FreshHeard
  <2>5. CASE r # q
    <3>1. r \in live /\ mcn'[r] = mcn[r] /\ HeardOne(r)
      BY <2>2, <2>3, <2>5 DEF TypeOK, Heard
    <3>2. Spares(r)
      <4> DEFINE C == OwnedBy(q)
      <4>1. C \subseteq {mcn[q].I, mcn[q].O} /\ open \ C \subseteq open'
            /\ obsR \ C \subseteq obsR'
        BY <2>2 DEF OwnedBy
      <4> HIDE DEF C
      <4> QED BY <4>1, <3>1, <2>3, <2>5, SparesOthers
    <3> QED BY <2>2, <2>3, <3>1, <3>2, RestHeard
  <2> QED BY <2>4, <2>5
<1> QED BY <1>1, <1>2, <1>3 DEF Select, Accept

LEMMA LoopHeard ==
  ASSUME "post" \notin Faults, Alias = {}, IInv, Aligned, Mirror, Heard, Complete
  PROVE  Heard'
<1> USE ServerAssumption, HelperTypes DEF IInv
<1>1. CASE ConnectingNext \/ ConnectingUnknown \/ Completed \/ ConnectingDone
  BY <1>1, SetsHeard
  DEF ConnectingNext, ConnectingUnknown, Completed, ConnectingDone, sets
<1>2. ASSUME NEW q \in Recs, ConnectingReady(q) PROVE Heard'
  <2> DEFINE w == wk[idx]
  <2>1. /\ pc = "Connecting" /\ idx <= Len(wk) /\ FdIsset(rdyW, w) /\ MarkDone
        /\ q \in live /\ mcn[q].O = w /\ mcn' = [mcn EXCEPT ![q].prog = FALSE]
        /\ cb' = q /\ pc' = "Callback"
        /\ UNCHANGED <<obsR, resA, resC, open, live>>
    BY <1>2 DEF ConnectingReady, ByO
  <2>2. w \in Socks
    <3>1. wk \in Seq(Sock) /\ idx \in Nat \ {0}
      BY DEF TypeOK
    <3>2. w \in Sock
      BY <2>1, <3>1
    <3> HIDE DEF w
    <3> QED BY <2>1, <3>2 DEF FdIsset, Fd, Sock
  <2>3. w \in InProgress
    <3>1. w \in Entries(connecting)
      BY <2>1, Marked DEF Entries
    <3> QED BY <2>2, <3>1 DEF Mirror
  <2>4. mcn[q].prog
    <3>1. PICK r \in live : mcn[r].prog /\ mcn[r].O = w
      BY <2>3 DEF InProgress
    <3>2. r \in Recs
      BY DEF TypeOK
    <3> QED BY <2>1, <2>2, <3>1, <3>2, Unique
  <2>5. mcn[q].ev # "none" /\ HeardI(q)
    BY <2>1, <2>2, <2>4 DEF Heard, HeardOne, Awaits
  <2> SUFFICES ASSUME NEW r \in live PROVE HeardOne(r)'
    BY <2>1 DEF Heard
  <2>6. r \in Recs /\ HeardOne(r)
    BY DEF Heard, TypeOK
  <2>7. CASE r = q
    <3>1. /\ mcn'[r].I = mcn[r].I /\ mcn'[r].O = mcn[r].O
          /\ mcn'[r].ev = mcn[r].ev /\ ~mcn'[r].prog
      BY <2>1, <2>6, <2>7 DEF TypeOK, Conn
    <3> QED BY <2>1, <2>5, <2>7, <3>1
          DEF HeardOne, HeardI, HeardO, Awaits, InCallback
  <2>8. CASE r # q
    <3>1. mcn'[r] = mcn[r] /\ ~InCallback(r) /\ ~InCallback(r)'
      BY <2>1, <2>6, <2>8 DEF TypeOK, InCallback
    <3> QED BY <2>1, <2>6, <3>1, RestHeard DEF Spares
  <2> QED BY <2>7, <2>8
<1> QED BY <1>1, <1>2 DEF Complete

LEMMA CallbackHeard ==
  ASSUME "post" \notin Faults, IInv, Aligned, Heard, Callback
  PROVE  Heard'
<1> USE ServerAssumption, HelperTypes DEF IInv
<1>1. /\ pc = "Callback" /\ pc' = ret /\ pc' # "Callback" /\ cb \in live /\ cb \in Recs
      /\ cb' = cb /\ live' \subseteq live /\ live \subseteq Recs
      /\ resA' = resA /\ resC \subseteq resC'
  BY DEF Callback, CallbackNone, CallbackOk, CallbackFail, CallbackProxyFail,
         Erase, Observe, TypeOK, CalledBack, Serves, frame, sets, table
<1> SUFFICES ASSUME NEW r \in live' PROVE HeardOne(r)'
  BY DEF Heard
<1>2. r \in live /\ r \in Recs /\ HeardOne(r) /\ ~InCallback(r)'
  BY <1>1 DEF Heard, InCallback
<1>3. CASE r # cb
  <2>1. Spares(r) /\ ~InCallback(r)
    BY <1>2, <1>3, CallbackSpares DEF InCallback
  <2> QED BY <1>1, <1>2, <2>1, RestHeard
<1>4. CASE r = cb
  <2>1. ~mcn[r].prog \/ mcn[r].O = INVALID
    BY <1>1, <1>2, <1>4 DEF HeardOne, Awaits, InCallback
  <2>2. CASE CallbackNone
    <3>1. UNCHANGED <<mcn, obsR, resA, resC>> /\ mcn[r].ev \in {"none", "CONFIRM"}
      BY <2>2, <1>4 DEF CallbackNone, table, sets
    <3> QED BY <1>2, <2>1, <3>1 DEF HeardOne, HeardI, HeardO, Awaits
  <2>3. CASE CallbackOk
    <3>1. /\ mcn'[r].I = mcn[r].I /\ mcn'[r].O = mcn[r].O /\ mcn'[r].prog = mcn[r].prog
          /\ Observe(obsR, mcn[r].O)
      BY <2>3, <1>1, <1>4 DEF CallbackOk, TypeOK, Conn
    <3>2. obsR \subseteq obsR' /\ (mcn[r].O # INVALID => mcn[r].O \in obsR' \cup resC')
      BY <3>1 DEF Observe, Fd
    <3> QED BY <1>1, <1>2, <2>1, <3>1, <3>2 DEF HeardOne, HeardI, HeardO, Awaits
  <2>4. CASE CallbackFail
    BY <2>4, <1>4 DEF CallbackFail, Erase
  <2>5. CASE CallbackProxyFail
    <3>1. /\ mcn'[r].I = mcn[r].I /\ mcn'[r].O = INVALID
          /\ Observe(obsR \ {mcn[r].O}, mcn[r].O)
      BY <2>5, <1>1, <1>4 DEF CallbackProxyFail, TypeOK, Conn
    <3>2. mcn[r].I # INVALID => mcn[r].I # mcn[r].O
      BY <1>2 DEF Ownership, TwoSides
    <3>3. mcn[r].I # INVALID => mcn[r].I \in obsR' \cup resA'
      BY <1>1, <1>2, <3>1, <3>2, ObserveKeeps DEF HeardOne, HeardI
    <3> QED BY <1>2, <3>1, <3>3, FreshHeard
  <2> QED BY <2>2, <2>3, <2>4, <2>5 DEF Callback
<1> QED BY <1>3, <1>4

LEMMA ScanHeard ==
  ASSUME "post" \notin Faults, Alias = {}, IInv, Heard, Scan
  PROVE  Heard'
<1> USE ServerAssumption, HelperTypes DEF IInv
<1>1. CASE \E s \in Socks : ReadUnknown(s) \/ \E r \in Recs : ReadKnown(s, r)
  <2>1. ASSUME NEW s \in Socks, NEW q \in Recs, ReadKnown(s, q) PROVE Heard'
    BY <2>1, SetsHeard DEF ReadKnown, sets
  <2>2. ASSUME NEW s \in Socks, ReadUnknown(s) PROVE Heard'
    <3>1. /\ UNCHANGED <<live, mcn, resA, resC, pc>> /\ obsR' = obsR \ {s} /\ pc = "Read"
          /\ \A r \in live : mcn[r].I # s /\ mcn[r].O # s
      BY <2>2 DEF ReadUnknown, ByI, ByO
    <3> SUFFICES ASSUME NEW r \in live PROVE HeardOne(r)'
      BY <3>1 DEF Heard
    <3>2. r \in Recs /\ HeardOne(r) /\ ~InCallback(r) /\ ~InCallback(r)'
      BY <3>1 DEF Heard, TypeOK, InCallback
    <3> QED BY <3>1, <3>2, LessHeard
  <2> QED BY <1>1, <2>1, <2>2
<1>2. CASE ~ \E s \in Socks : ReadUnknown(s) \/ \E r \in Recs : ReadKnown(s, r)
  <2>1. /\ pc = "Scan" /\ pc' # "Callback" /\ live' \subseteq live
        /\ resA' = resA /\ resC' = resC
    BY <1>2 DEF Scan, ScanFail, ScanCut, ScanData, ScanRequest, ScanReject,
                ScanResponse, Erase, table, sets
  <2>2. ptr \in live /\ cur \in Socks /\ ptr \in Recs /\ cur \in {mcn[ptr].I, mcn[ptr].O}
    BY <2>1 DEF Serves, TypeOK, OwnedBy
  <2> SUFFICES ASSUME NEW r \in live' PROVE HeardOne(r)'
    BY DEF Heard
  <2>3. r \in live /\ r \in Recs /\ HeardOne(r) /\ ~InCallback(r) /\ ~InCallback(r)'
    BY <2>1 DEF Heard, InCallback, TypeOK
  <2>4. CASE r # ptr
    <3>1. Spares(r)
      BY <2>1, <2>3, <2>4, ScanSpares
    <3> QED BY <2>1, <2>3, <3>1, RestHeard
  <2>5. CASE r = ptr
    <3>0. mcn[r].I # INVALID => mcn[r].I # mcn[r].O
      BY <2>3 DEF Ownership, TwoSides
    <3>1. CASE ScanFail
      BY <3>1, <2>5 DEF ScanFail, Erase
    <3>2. CASE ScanCut
      <4>1. /\ mcn' = DropO(DropI(mcn, {cur}), {cur}) /\ obsR' = obsR \ {cur}
        BY <3>2 DEF ScanCut
      <4>2. /\ mcn'[r].prog = mcn[r].prog /\ mcn'[r].ev = mcn[r].ev
            /\ mcn'[r].I = IF mcn[r].I = cur THEN INVALID ELSE mcn[r].I
            /\ mcn'[r].O = IF mcn[r].O = cur THEN INVALID ELSE mcn[r].O
        BY <4>1, <2>3 DEF DropO, DropI, TypeOK, Conn
      <4> QED BY <2>1, <2>3, <4>1, <4>2, LessHeard
    <3>3. CASE ScanData
      BY <3>3, <2>1, <2>3, LessHeard DEF ScanData, table, sets
    <3>4. ASSUME NEW b \in BOOLEAN, NEW c \in BOOLEAN,
                 ScanRequest(b, c) \/ ScanReject(b, c)
          PROVE  HeardOne(r)'
      <4>1. /\ mcn'[r].prog = mcn[r].prog /\ mcn'[r].ev = mcn[r].ev
            /\ mcn'[r].O = IF c THEN INVALID ELSE mcn[r].O
            /\ mcn[r].I = cur
            /\ \/ mcn'[r].I = cur /\ obsR' = obsR \ RecycledFd(c)
               \/ mcn'[r].I = INVALID /\ obsR' = obsR \ (RecycledFd(c) \cup {cur})
        <5>1. CASE ScanRequest(b, c)
          BY <5>1, <2>3, <2>5 DEF ScanRequest, Inner, TypeOK, Conn
        <5>2. CASE ScanReject(b, c)
          BY <5>2, <2>3, <2>5 DEF ScanReject, Inner, TypeOK, Conn
        <5> QED BY <3>4, <5>1, <5>2
      <4>2. RecycledFd(c) = IF c THEN {mcn[r].O} \ {INVALID} ELSE {}
        BY <2>5 DEF RecycledFd, Fd
      <4>3. cur # INVALID /\ cur # mcn[r].O
        BY <2>2, <3>0, <4>1
      <4> QED BY <2>1, <2>3, <4>1, <4>2, <4>3, LessHeard
    <3>5. ASSUME NEW b \in BOOLEAN, ScanResponse(b) PROVE HeardOne(r)'
      <4>1. /\ cur # mcn[r].I
            /\ mcn' = DropO(mcn, IF b THEN {cur} ELSE {})
            /\ obsR' = obsR \ IF b THEN {cur} ELSE {}
        BY <3>5, <2>5 DEF ScanResponse, Inner
      <4>2. /\ mcn'[r].prog = mcn[r].prog /\ mcn'[r].ev = mcn[r].ev
            /\ mcn'[r].I = mcn[r].I
            /\ mcn'[r].O = IF b /\ mcn[r].O = cur THEN INVALID ELSE mcn[r].O
        BY <4>1, <2>3 DEF DropO, TypeOK, Conn
      <4> QED BY <2>1, <2>3, <4>1, <4>2, LessHeard
    <3> QED BY <1>2, <3>1, <3>2, <3>3, <3>4, <3>5 DEF Scan
  <2> QED BY <2>4, <2>5
<1> QED BY <1>1, <1>2

LEMMA ProxyHeard ==
  ASSUME "post" \notin Faults, IInv, Heard, Proxy
  PROVE  Heard'
<1> USE ServerAssumption, HelperTypes DEF IInv
<1>0. live \subseteq Recs
  BY DEF TypeOK
<1>1. CASE Relay \/ Connected
  BY <1>1, SetsHeard DEF Relay, Connected, sets
\* Connecting or connected: only the record that is served changes.
<1>2. ASSUME NEW r \in Recs, NEW kind \in Kinds,
             \/ ConnectReuse(r, kind)
             \/ ConnectFail(r, kind)
             \/ \E s \in Socks, b \in BOOLEAN : ConnectNew(r, kind, s, b),
             HeardOne(r)'
      PROVE  Heard'
  <2>1. ConnectTo(r, kind) /\ pc = "Dispatch"
    BY <1>2 DEF ConnectReuse, ConnectFail, ConnectNew, ConnectTo
  <2>2. r = ptr /\ r \in live
    BY <2>1, SameRecord
  <2>3. live' \subseteq live \cup {r} /\ resA' = resA /\ resC' = resC
        /\ (pc' = "Callback" => cb' = r)
    BY <1>2 DEF ConnectReuse, ConnectFail, ConnectNew
  <2> SUFFICES ASSUME NEW q \in live', q # r PROVE HeardOne(q)'
    BY <1>2 DEF Heard
  <2>4. q \in Recs /\ q \in live /\ HeardOne(q) /\ ~InCallback(q) /\ ~InCallback(q)'
    BY <1>0, <2>1, <2>3 DEF Heard, InCallback
  <2>5. Spares(q)
    BY <2>2, <2>4, ProxySpares
  <2> QED BY <2>3, <2>4, <2>5, RestHeard
<1>3. ASSUME NEW r \in Recs, NEW kind \in Kinds, ConnectReuse(r, kind) PROVE Heard'
  <2>1. pc = "Dispatch" /\ r \in live
    BY <1>3, SameRecord DEF ConnectReuse, ConnectTo
  <2>2. /\ mcn'[r].I = mcn[r].I /\ mcn'[r].O = mcn[r].O
        /\ mcn'[r].prog = mcn[r].prog /\ mcn'[r].ev = kind /\ kind # "none"
        /\ UNCHANGED <<obsR, resA, resC>>
        /\ IF mcn[r].prog THEN pc' = "Connected" ELSE cb' = r /\ pc' = "Callback"
    BY <1>3, <2>1 DEF ConnectReuse, TypeOK, Conn
  <2>3. HeardOne(r)'
    BY <2>1, <2>2 DEF Heard, HeardOne, HeardI, HeardO, Awaits, InCallback
  <2> QED BY <1>2, <1>3, <2>3
<1>4. ASSUME NEW r \in Recs, NEW kind \in Kinds, NEW s \in Socks,
             NEW b \in BOOLEAN, ConnectNew(r, kind, s, b)
      PROVE  Heard'
  <2>1. pc = "Dispatch" /\ r \in live /\ mcn[r].I = cur
    BY <1>4, SameRecord DEF ConnectNew, ConnectTo
  <2>2. /\ mcn'[r] = [I |-> cur, O |-> s, prog |-> b, ev |-> kind] /\ kind # "none"
        /\ UNCHANGED <<obsR, resA, resC>>
        /\ IF b THEN pc' = "Connected" ELSE cb' = r /\ pc' = "Callback"
    BY <1>4, <2>1 DEF ConnectNew, TypeOK
  <2>3. /\ mcn'[r].I = mcn[r].I /\ mcn'[r].O = s /\ mcn'[r].prog = b /\ mcn'[r].ev = kind
    BY <2>1, <2>2
  <2>4. HeardOne(r)'
    BY <2>1, <2>2, <2>3 DEF Heard, HeardOne, HeardI, HeardO, Awaits, InCallback
  <2> QED BY <1>2, <1>4, <2>4
<1>5. ASSUME NEW r \in Recs, NEW kind \in Kinds, ConnectFail(r, kind) PROVE Heard'
  <2>1. mcn'[r] = NoConn
    BY <1>5 DEF ConnectFail, TypeOK
  <2>2. HeardOne(r)'
    BY <2>1 DEF NoConn, HeardOne, HeardI, HeardO, Awaits
  <2> QED BY <1>2, <1>5, <2>2
<1>6. ~PostBodyCut
  BY DEF PostBodyCut
<1> QED BY <1>1, <1>3, <1>4, <1>5, <1>6 DEF Proxy

LEMMA WebHeard ==
  ASSUME "post" \notin Faults, IInv, Heard, Web
  PROVE  Heard'
<1> USE ServerAssumption, HelperTypes DEF IInv
<1>1. /\ live' = live /\ resA' = resA /\ resC' = resC
      /\ pc = "Dispatch" /\ pc' # "Callback"
  BY DEF Web, WebReply, WebConfig
<1> SUFFICES ASSUME NEW r \in live PROVE HeardOne(r)'
  BY <1>1 DEF Heard
<1>2. r \in Recs /\ HeardOne(r) /\ ~InCallback(r) /\ ~InCallback(r)'
  BY <1>1 DEF Heard, InCallback, TypeOK
<1>3. ptr \in live /\ ptr \in Recs /\ cur \in Socks
      /\ (scan = "Request" => mcn[ptr].I = cur)
  BY <1>1 DEF Serves, TypeOK
\* The socket being served is the I socket of its record and nothing else.
<1>4. scan = "Request" => mcn[r].O # cur /\ \A q \in live : mcn[q].O # cur
  BY <1>2, <1>3, Unique DEF TypeOK
<1>5. ASSUME NEW b \in BOOLEAN, WebReply(b) PROVE HeardOne(r)'
  <2>1. /\ mcn' = DropI(mcn, IF b THEN {cur} ELSE {})
        /\ obsR' = obsR \ IF b THEN {cur} ELSE {}
        /\ b => scan = "Request"
    BY <1>5 DEF WebReply
  <2>2. /\ mcn'[r].prog = mcn[r].prog /\ mcn'[r].ev = mcn[r].ev /\ mcn'[r].O = mcn[r].O
        /\ mcn'[r].I = IF b /\ mcn[r].I = cur THEN INVALID ELSE mcn[r].I
    BY <2>1, <1>2 DEF DropI, TypeOK, Conn
  <2> QED BY <1>1, <1>2, <1>4, <2>1, <2>2, LessHeard
<1>6. ASSUME NEW b \in BOOLEAN, NEW u \in BOOLEAN,
             NEW res \in Results,
             WebConfig(b, u, res)
      PROVE  HeardOne(r)'
  <2> DEFINE SI == IF b THEN {cur} ELSE {}
             S  == IF u THEN obsR \ SI ELSE {}
  <2>1. /\ mcn' = DropO(DropI(mcn, SI \cup S), S)
        /\ obsR' = obsR \ (SI \cup HeldI(S) \cup HeldO(S))
        /\ scan = "Request"
    BY <1>6 DEF WebConfig
  <2>2. HeldI(S) \subseteq S /\ HeldO(S) \subseteq S /\ SI \subseteq {cur}
    BY DEF HeldI, HeldO
  <2> HIDE DEF SI, S
  <2>3. /\ mcn'[r].prog = mcn[r].prog /\ mcn'[r].ev = mcn[r].ev
        /\ mcn'[r].I = IF mcn[r].I \in SI \cup S THEN INVALID ELSE mcn[r].I
        /\ mcn'[r].O = IF mcn[r].O \in S THEN INVALID ELSE mcn[r].O
    BY <2>1, <1>2 DEF DropO, DropI, TypeOK, Conn
  <2> QED BY <1>1, <1>2, <1>4, <2>1, <2>2, <2>3, LessHeard
<1> QED BY <1>5, <1>6 DEF Web

LEMMA RestOfHeard ==
  ASSUME Heard, TypeOK, ReadDone \/ Restart \/ Relaunch \/ UNCHANGED vars
  PROVE  Heard'
<1>1. CASE ReadDone
  <2>1. PICK A \in Adopted(obsR, resA) :
          /\ resA' = resA \ A
          /\ \E C \in Adopted(obsR \cup Bits(A), resC) :
               resC' = resC \ C /\ obsR' = obsR \cup Bits(A) \cup Bits(C)
    BY <1>1 DEF ReadDone
  <2>2. PICK C \in Adopted(obsR \cup Bits(A), resC) :
          resC' = resC \ C /\ obsR' = obsR \cup Bits(A) \cup Bits(C)
    BY <2>1
  <2>3. \A s \in Socks : (s \in A => s \in Bits(A)) /\ (s \in C => s \in Bits(C))
    BY ServerAssumption DEF Bits, Fd
  <2>4. UNCHANGED table /\ pc # "Callback" /\ pc' # "Callback"
    BY <1>1 DEF ReadDone
  <2> HIDE DEF Bits
  <2> QED BY <2>1, <2>2, <2>3, <2>4, SetsHeard
<1>2. CASE Restart \/ Relaunch
  <2>1. mcn' = [r \in Recs |-> NoConn] /\ live' \subseteq Recs
    BY <1>2 DEF Restart, Relaunch, TypeOK
  <2> SUFFICES ASSUME NEW r \in live' PROVE HeardOne(r)'
    BY DEF Heard
  <2> QED BY <2>1 DEF HeardOne, HeardI, HeardO, Awaits, NoConn
<1>3. CASE UNCHANGED vars
  BY <1>3 DEF vars, table, sets, frame, Heard, HeardOne, HeardI, HeardO, Awaits, InCallback
<1> QED BY <1>1, <1>2, <1>3

LEMMA NextHeard ==
  ASSUME "post" \notin Faults, Alias = {}, IInv, Aligned, Mirror, Heard, [Next]_vars
  PROVE  Heard'
<1>1. TypeOK
  BY DEF IInv
<1> QED
  BY <1>1, SelectHeard, LoopHeard, CallbackHeard, ScanHeard, ProxyHeard,
     WebHeard, RestOfHeard DEF Next

\* Whenever the server waits, every socket of every connection is observed, in
\* reserve or connecting, but the O socket of a POST that waits for the user.
\* Assumed: POST bodies arrive whole, FD_CLR of ZnkSocket_INVALID does nothing,
\* and the write set has room for a socket of every record.
THEOREM WatchedHolds ==
  ASSUME "post" \notin Faults, Alias = {}, RoomForAll
  PROVE  Spec => []Watched
<1> DEFINE Inv == IInv /\ Aligned /\ Mirror /\ Heard
<1>1. Init => Inv
  <2>1. Init => Heard
    BY DEF Init, Heard
  <2> QED BY <2>1, InitType, InitOwns, InitAligned, InitMirror DEF IInv
<1>2. Inv /\ [Next]_vars => Inv'
  BY NextType, NextOwns, NextAligned, NextMirror, NextHeard, RoomFound DEF IInv
<1>3. Inv => Watched
  <2> SUFFICES ASSUME Inv, pc = "Select", NEW r \in live, NEW s \in Socks,
                      s \in OwnedBy(r), ~(s = mcn[r].O /\ mcn[r].ev = "CONFIRM")
               PROVE  s \in obsR \cup obsW \cup resA \cup resC
    BY DEF Watched
  <2>1. HeardOne(r) /\ s # INVALID /\ InProgress = obsW
    BY ServerAssumption DEF Heard, Mirror, Marking
  <2>2. mcn[r].O = s /\ mcn[r].prog => s \in obsW
    BY <2>1 DEF InProgress
  <2> QED BY <2>1, <2>2 DEF HeardOne, HeardI, HeardO, OwnedBy, InCallback
<1> QED BY <1>1, <1>2, <1>3, PTL DEF Spec

-----------------------------------------------------------------------------
(***************************************************************************)
(* select is given no closed descriptor, if nothing goes wrong.            *)
(***************************************************************************)

\* What it takes: no send fails, no tunnels are asked for, FD_CLR of
\* ZnkSocket_INVALID does nothing, and the fd_set has room for every socket.
Calm == /\ Faults = {} /\ "CONNECT" \notin Kinds /\ Alias = {}
        /\ IsFiniteSet(Socks) /\ Cardinality(Socks) <= Cap

\* The observed sockets are open and none has its connect in progress, so that
\* the connect timeout closes none of them; nothing is in reserve.
Clean == /\ obsR \subseteq open /\ obsR \cap InProgress = {}
         /\ resA = {} /\ resC = {}
         /\ \A r \in Recs : mcn[r].ev # "CONNECT"
         /\ pc = "Callback" => mcn[cb].O # INVALID

LEMMA AlwaysRoom ==
  ASSUME Calm, NEW S \in SUBSET Socks, NEW s \in Socks
  PROVE  HasRoom(S, s)
<1>1. Fd(s) = {s}
  BY ServerAssumption DEF Fd
<1>2. CASE s \in S
  BY <1>1, <1>2 DEF HasRoom
<1>3. CASE s \notin S
  <2> DEFINE D == Socks \ {s}
  <2>1. IsFiniteSet(D) /\ Cardinality(D) = Cardinality(Socks) - 1
    BY FS_RemoveElement DEF Calm
  <2>2. S \subseteq D
    BY <1>3
  <2> HIDE DEF D
  <2>3. Cardinality(S) <= Cardinality(D) /\ IsFiniteSet(S)
    BY <2>1, <2>2, FS_Subset
  <2>4. Cardinality(S) \in Nat /\ Cardinality(Socks) \in Nat /\ Cap \in Nat
    BY <2>3, FS_CardinalityType, ServerAssumption DEF Calm
  <2>5. Cardinality(S) < Cap
    BY <2>1, <2>3, <2>4 DEF Calm
  <2> QED BY <1>1, <2>5 DEF HasRoom
<1> QED BY <1>2, <1>3

\* Steps that observe nothing new, and put nothing in progress
\* The write set holds descriptors only, and those all fit into it.
LEMMA AlwaysNoted ==
  ASSUME Calm, TypeOK
  PROVE  RoomNow
<1> SUFFICES ASSUME NEW s \in Socks, s \notin obsW PROVE Cardinality(obsW) < RoomW
  BY DEF RoomNow, Noted
<1>1. /\ obsW \in SUBSET Socks /\ Cardinality(Socks) <= Cap /\ IsFiniteSet(Socks)
      /\ Cap \in Nat /\ RoomW \in Nat /\ Cap <= RoomW
  BY ServerAssumption DEF Calm, TypeOK, RoomW
<1>2. /\ IsFiniteSet(obsW) /\ Cardinality(obsW) <= Cardinality(Socks)
      /\ (Cardinality(Socks) = Cardinality(obsW) => Socks = obsW)
  BY <1>1, FS_Subset
<1>3. Cardinality(obsW) \in Nat /\ Cardinality(Socks) \in Nat
  BY <1>1, <1>2, FS_CardinalityType
<1> QED BY <1>1, <1>2, <1>3

LEMMA LessClean ==
  ASSUME Clean, obsR' \subseteq obsR, obsR' \subseteq open',
         InProgress' \subseteq InProgress, UNCHANGED <<resA, resC>>,
         \A r \in Recs : mcn'[r].ev \in {mcn[r].ev, "none"}, pc' # "Callback"
  PROVE  Clean'
BY DEF Clean

\* Dropping sockets puts none in progress.
LEMMA DropLess ==
  ASSUME TypeOK, NEW SI, NEW S, mcn' = DropO(DropI(mcn, SI), S), live' = live
  PROVE  /\ InProgress' \subseteq InProgress
         /\ \A r \in Recs : mcn'[r].ev = mcn[r].ev
<1>1. InProgress' \subseteq InProgress
  BY LessSet DEF InProgress
<1>2. \A r \in Recs : mcn'[r].ev = mcn[r].ev
  BY DEF DropO, DropI, TypeOK, Conn
<1> QED BY <1>1, <1>2

LEMMA SelectClean ==
  ASSUME Calm, IInv, Mirror, Clean, Select \/ Accept
  PROVE  Clean'
<1> USE ServerAssumption, HelperTypes DEF IInv
<1>0. live \subseteq Recs /\ obsR \subseteq Socks
  BY DEF TypeOK
<1>1. CASE SelectReady \/ SelectError \/ AcceptDeny \/ AcceptDone
  <2>1. UNCHANGED <<table, sets>> /\ pc' # "Callback"
    BY <1>1 DEF SelectReady, SelectError, AcceptDeny, AcceptDone
  <2> QED BY <2>1 DEF table, sets, Clean, InProgress
<1>2. CASE SelectTimeout
  <2>1. PICK X \in SUBSET Exiles, E \in SUBSET Pending : TimeoutStep(X, E)
    BY <1>2 DEF SelectTimeout
  <2>2. /\ live' = live \ X /\ obsR' = obsR \ ExiledI(X)
        /\ open' = open \ (ExiledI(X) \cup E)
        /\ resA' = resA /\ resC' = resC /\ pc' # "Callback"
        /\ \A r \in Recs : mcn'[r] = IF r \in X THEN NoConn ELSE DropO(mcn, E)[r]
    BY <2>1 DEF TimeoutStep
  <2>3. E \subseteq InProgress
    BY DEF Pending, ByO, InProgress, Entries, TypeOK
  <2>4. \A r \in Recs : r \notin X =>
          /\ mcn'[r].prog = mcn[r].prog /\ mcn'[r].ev = mcn[r].ev
          /\ mcn'[r].O \in {mcn[r].O, INVALID}
    <3> TAKE r \in Recs
    <3>1. /\ DropO(mcn, E)[r].prog = mcn[r].prog
          /\ DropO(mcn, E)[r].ev = mcn[r].ev
          /\ DropO(mcn, E)[r].O \in {mcn[r].O, INVALID}
      BY DEF DropO, TypeOK, Conn
    <3>2. r \notin X => mcn'[r] = DropO(mcn, E)[r]
      BY <2>2
    <3> QED BY <3>1, <3>2
  <2>5. InProgress' \subseteq InProgress
    BY <1>0, <2>2, <2>4 DEF InProgress
  <2>6. \A r \in Recs : mcn'[r].ev \in {mcn[r].ev, "none"}
    BY <2>2, <2>4 DEF NoConn
  <2>7. obsR' \subseteq open'
    BY <2>2, <2>3 DEF Clean
  <2> QED BY <2>2, <2>5, <2>6, <2>7, LessClean
<1>3. ASSUME NEW s \in Socks, NEW q \in Recs, AcceptAllow(s, q) PROVE Clean'
  <2>1. s \notin open /\ mcn[q].I # s
    BY <1>3, Unique DEF AcceptAllow
  <2>2. /\ mcn' = [mcn EXCEPT ![q] = [NoConn EXCEPT !.I = s]] /\ live' = live \cup {q}
        /\ open' = (open \ OwnedBy(q)) \cup {s} /\ resC' = resC /\ pc' # "Callback"
    BY <1>3, <2>1 DEF AcceptAllow
  <2>3. obsR' = (obsR \ OwnedBy(q)) \cup {s} /\ resA' = resA
    <3>1. HasRoom(obsR \ OwnedBy(q), s)
      BY <1>0, AlwaysRoom
    <3> QED BY <1>3, <2>1, <3>1 DEF AcceptAllow
  <2>4. \A r \in Recs : mcn'[r] = IF r = q THEN [NoConn EXCEPT !.I = s] ELSE mcn[r]
    BY <2>2 DEF TypeOK
  <2>5. InProgress' \subseteq InProgress /\ \A r \in Recs : mcn'[r].ev \in {mcn[r].ev, "none"}
    BY <1>0, <2>2, <2>4 DEF InProgress, NoConn
  <2>6. s \notin InProgress
    BY <1>0, <2>1, Unique DEF InProgress
  <2> QED BY <2>2, <2>3, <2>5, <2>6 DEF Clean
<1> QED BY <1>1, <1>2, <1>3 DEF Select, Accept

LEMMA LoopClean ==
  ASSUME Calm, IInv, Clean, Complete
  PROVE  Clean'
<1> USE ServerAssumption, HelperTypes DEF IInv
<1>1. CASE ConnectingNext \/ ConnectingUnknown \/ Completed \/ ConnectingDone
  <2>1. UNCHANGED <<table, obsR, resA, resC>> /\ pc' # "Callback"
    BY <1>1 DEF ConnectingNext, ConnectingUnknown, Completed, ConnectingDone, sets
  <2> QED BY <2>1 DEF table, Clean, InProgress
<1>2. ASSUME NEW q \in Recs, ConnectingReady(q) PROVE Clean'
  <2>1. /\ idx <= Len(wk) /\ FdIsset(rdyW, wk[idx]) /\ mcn[q].O = wk[idx]
        /\ mcn' = [mcn EXCEPT ![q].prog = FALSE] /\ cb' = q
        /\ UNCHANGED <<obsR, resA, resC, open, live>>
    BY <1>2 DEF ConnectingReady, ByO
  <2>2. mcn[q].O # INVALID
    BY <2>1 DEF FdIsset, Fd, Calm
  <2>3. \A r \in Recs : /\ mcn'[r].O = mcn[r].O /\ mcn'[r].ev = mcn[r].ev
                        /\ mcn'[r].prog => mcn[r].prog
    BY <2>1 DEF TypeOK, Conn
  <2>4. InProgress' \subseteq InProgress
    BY <2>1, <2>3 DEF InProgress, TypeOK
  <2> QED BY <2>1, <2>2, <2>3, <2>4 DEF Clean
<1> QED BY <1>1, <1>2 DEF Complete

LEMMA CallbackClean ==
  ASSUME Calm, IInv, Heard, Clean, Callback
  PROVE  Clean'
<1> USE ServerAssumption, HelperTypes DEF IInv
<1>1. /\ pc = "Callback" /\ pc' = ret /\ pc' # "Callback" /\ cb \in live /\ cb \in Recs
      /\ mcn[cb].O # INVALID /\ mcn[cb].ev # "CONNECT"
  BY DEF Callback, CallbackNone, CallbackOk, CallbackFail, CallbackProxyFail,
         TypeOK, CalledBack, Serves, Clean
<1>2. CASE CallbackNone
  BY <1>1, <1>2 DEF CallbackNone, table, sets, Clean, InProgress
<1>3. CASE CallbackOk
  <2> DEFINE o == mcn[cb].O
  <2>1. o \in Socks /\ o \in open
    BY <1>1, Unique DEF Sock
  <2>2. obsR' = obsR \cup {o} /\ resC' = resC /\ resA' = resA /\ UNCHANGED <<open, live>>
    <3>1. HasRoom(obsR, o) /\ Fd(o) = {o}
      BY <2>1, AlwaysRoom DEF Fd, TypeOK
    <3> QED BY <1>3, <3>1 DEF CallbackOk, Observe
  <2>3. \A r \in Recs : /\ mcn'[r].O = mcn[r].O /\ mcn'[r].prog = mcn[r].prog
                        /\ mcn'[r].ev \in {mcn[r].ev, "none"}
    BY <1>1, <1>3 DEF CallbackOk, TypeOK, Conn
  <2>4. InProgress' = InProgress
    BY <2>2, <2>3 DEF InProgress, TypeOK
  <2>5. o \notin InProgress
    <3> SUFFICES ASSUME NEW q \in live, mcn[q].prog, mcn[q].O = o PROVE FALSE
      BY DEF InProgress
    <3>1. q = cb
      BY <1>1, <2>1, Unique DEF TypeOK
    <3> QED BY <1>1, <3>1 DEF Heard, HeardOne, Awaits, InCallback
  <2> HIDE DEF o
  <2> QED BY <1>1, <2>1, <2>2, <2>3, <2>4, <2>5 DEF Clean
<1>4. ~CallbackFail /\ ~CallbackProxyFail
  BY <1>1 DEF CallbackFail, CallbackProxyFail, Calm
<1> QED BY <1>2, <1>3, <1>4 DEF Callback

LEMMA ScanClean ==
  ASSUME Calm, IInv, Clean, Scan
  PROVE  Clean'
<1> USE ServerAssumption, HelperTypes DEF IInv
<1>0. obsR \subseteq open /\ resA' = resA /\ resC' = resC /\ pc' # "Callback"
      /\ live \subseteq Recs
  BY DEF Scan, ScanFail, ScanCut, ScanData, ScanRequest, ScanReject, ScanResponse,
         ReadUnknown, ReadKnown, sets, Clean, TypeOK
<1>a. pc = "Scan" => ptr \in Recs
  BY DEF Serves, TypeOK
<1>1. CASE ScanData \/ \E s \in Socks : ReadUnknown(s) \/ \E r \in Recs : ReadKnown(s, r)
  <2>1. /\ live' = live /\ mcn' = mcn /\ obsR' \subseteq obsR /\ obsR' \subseteq open'
    BY <1>0, <1>1 DEF ScanData, ReadUnknown, ReadKnown, table, sets
  <2>2. InProgress' = InProgress
    BY <2>1 DEF InProgress
  <2> QED BY <1>0, <2>1, <2>2, LessClean
<1>2. CASE ScanFail
  <2>1. /\ obsR' = obsR \ OwnedBy(ptr) /\ open' = open \ OwnedBy(ptr)
        /\ live' = live \ {ptr} /\ mcn' = [mcn EXCEPT ![ptr] = NoConn]
    BY <1>2 DEF ScanFail, Erase, CloseOwned
  <2>2. /\ InProgress' \subseteq InProgress
        /\ \A r \in Recs : mcn'[r].ev \in {mcn[r].ev, "none"}
    BY <1>0, <2>1 DEF InProgress, TypeOK, NoConn
  <2> QED BY <1>0, <2>1, <2>2, LessClean
<1>3. CASE ScanCut
  <2>1. /\ obsR' = obsR \ {cur} /\ open' = open \ {cur} /\ live' = live
        /\ mcn' = DropO(DropI(mcn, {cur}), {cur})
    BY <1>3 DEF ScanCut
  <2> QED BY <1>0, <2>1, DropLess, LessClean
<1>4. ASSUME NEW b \in BOOLEAN, NEW c \in BOOLEAN, ScanRequest(b, c) \/ ScanReject(b, c)
      PROVE  Clean'
  <2>1. RecycledFd(c) = Recycled(c) \ {INVALID}
    BY DEF RecycledFd, Recycled, Fd, Calm
  <2>2. obsR' \subseteq obsR /\ obsR' \subseteq open'
    <3>1. INVALID \notin obsR
      BY DEF TypeOK
    <3> QED BY <1>0, <1>4, <2>1, <3>1 DEF ScanRequest, ScanReject
  <2>3. /\ live' = live
        /\ \A r \in Recs : /\ mcn'[r].ev = mcn[r].ev /\ mcn'[r].prog = mcn[r].prog
                           /\ mcn'[r].O \in {mcn[r].O, INVALID}
    <3>1. CASE ScanRequest(b, c)
      BY <1>a, <3>1 DEF ScanRequest, TypeOK, Conn
    <3>2. CASE ScanReject(b, c)
      BY <1>a, <3>2 DEF ScanReject, TypeOK, Conn
    <3> QED BY <1>4, <3>1, <3>2
  <2>4. InProgress' \subseteq InProgress
    BY <1>0, <2>3 DEF InProgress
  <2> QED BY <1>0, <2>2, <2>3, <2>4, LessClean
<1>5. ASSUME NEW b \in BOOLEAN, ScanResponse(b) PROVE Clean'
  <2> DEFINE S == IF b THEN {cur} ELSE {}
             N == {}
  <2>1. /\ obsR' = obsR \ S /\ open' = open \ S /\ live' = live /\ mcn' = DropO(mcn, S)
    BY <1>5 DEF ScanResponse
  <2>2. DropI(mcn, N) = mcn
    BY DEF DropI, TypeOK
  <2> HIDE DEF S, N
  <2>3. mcn' = DropO(DropI(mcn, N), S)
    BY <2>1, <2>2
  <2> QED BY <1>0, <2>1, <2>3, DropLess, LessClean
<1> QED BY <1>1, <1>2, <1>3, <1>4, <1>5 DEF Scan

LEMMA ProxyClean ==
  ASSUME Calm, IInv, Clean, Proxy
  PROVE  Clean'
<1> USE ServerAssumption, HelperTypes DEF IInv
<1>0. live \subseteq Recs /\ "post" \notin Faults
  BY DEF TypeOK, Calm
<1>1. CASE Relay \/ Connected
  <2>1. UNCHANGED <<table, sets>> /\ pc' # "Callback"
    BY <1>1 DEF Relay, Connected
  <2> QED BY <2>1 DEF table, sets, Clean, InProgress
<1>2. ASSUME NEW r \in Recs, NEW kind \in Kinds, ConnectReuse(r, kind) PROVE Clean'
  <2>1. /\ mcn' = [mcn EXCEPT ![r].ev = kind] /\ kind # "CONNECT"
        /\ UNCHANGED <<open, live, obsR, resA, resC>> /\ mcn[r].O # INVALID
        /\ pc' = "Callback" => cb' = r
    BY <1>2 DEF ConnectReuse, FoundO, Calm
  <2>2. \A q \in Recs : /\ mcn'[q].O = mcn[q].O /\ mcn'[q].prog = mcn[q].prog
                        /\ mcn'[q].ev \in {mcn[q].ev, kind}
    BY <2>1 DEF TypeOK, Conn
  <2>3. InProgress' = InProgress
    BY <1>0, <2>1, <2>2 DEF InProgress
  <2> QED BY <2>1, <2>2, <2>3 DEF Clean
<1>3. ASSUME NEW r \in Recs, NEW kind \in Kinds, NEW s \in Socks,
             NEW b \in BOOLEAN, ConnectNew(r, kind, s, b)
      PROVE  Clean'
  <2>1. r \in live
    BY <1>0, <1>3, SameRecord DEF ConnectNew, ConnectTo
  <2>2. /\ s \notin open /\ open' = open \cup {s} /\ live' = live \cup {r}
        /\ mcn' = [mcn EXCEPT ![r] = [I |-> cur, O |-> s, prog |-> b, ev |-> kind]]
        /\ UNCHANGED <<obsR, resA, resC>> /\ kind # "CONNECT"
        /\ pc' = "Callback" => cb' = r
    BY <1>3 DEF ConnectNew, Calm
  <2>3. \A q \in Recs : q # r => mcn'[q] = mcn[q]
    BY <2>2 DEF TypeOK
  <2>4. mcn'[r].O = s /\ mcn'[r].ev = kind
    BY <2>2 DEF TypeOK
  <2>5. InProgress' \subseteq InProgress \cup {s}
    BY <1>0, <2>1, <2>2, <2>3, <2>4 DEF InProgress
  <2> QED BY <2>2, <2>3, <2>4, <2>5 DEF Clean
<1>4. ASSUME NEW r \in Recs, NEW kind \in Kinds, ConnectFail(r, kind) PROVE Clean'
  <2>1. r \in live
    BY <1>0, <1>4, SameRecord DEF ConnectFail, ConnectTo
  <2>2. /\ obsR' = obsR \ {cur} /\ open' = open \ {cur} /\ live' = live \cup {r}
        /\ mcn' = [mcn EXCEPT ![r] = NoConn] /\ UNCHANGED <<resA, resC>>
        /\ pc' # "Callback"
    BY <1>4 DEF ConnectFail
  <2>3. \A q \in Recs : mcn'[q] = IF q = r THEN NoConn ELSE mcn[q]
    BY <2>2 DEF TypeOK
  <2>4. /\ InProgress' \subseteq InProgress
        /\ \A q \in Recs : mcn'[q].ev \in {mcn[q].ev, "none"}
    BY <1>0, <2>1, <2>2, <2>3 DEF InProgress, NoConn
  <2>5. obsR' \subseteq obsR /\ obsR' \subseteq open'
    BY <2>2 DEF Clean
  <2> QED BY <2>2, <2>4, <2>5, LessClean
<1>5. ~PostBodyCut
  BY <1>0 DEF PostBodyCut
<1> QED BY <1>1, <1>2, <1>3, <1>4, <1>5 DEF Proxy

LEMMA RestClean ==
  ASSUME Calm, IInv, Clean, Web \/ ReadDone \/ Restart \/ Relaunch \/ UNCHANGED vars
  PROVE  Clean'
<1> USE ServerAssumption, HelperTypes DEF IInv
<1>1. ASSUME NEW b \in BOOLEAN, WebReply(b) PROVE Clean'
  <2> DEFINE S == IF b THEN {cur} ELSE {}
  <2>1. /\ obsR' = obsR \ S /\ open' = open \ S /\ live' = live /\ mcn' = DropI(mcn, S)
        /\ UNCHANGED <<resA, resC>> /\ pc' # "Callback"
    BY <1>1 DEF WebReply
  <2>2. \A r \in Recs : /\ mcn'[r].O = mcn[r].O /\ mcn'[r].prog = mcn[r].prog
                        /\ mcn'[r].ev = mcn[r].ev
    BY <2>1 DEF DropI, TypeOK, Conn
  <2>3. InProgress' = InProgress
    BY <2>1, <2>2, ZenonT(40) DEF InProgress, TypeOK
  <2>4. obsR' \subseteq obsR /\ obsR' \subseteq open'
    BY <2>1 DEF Clean
  <2> QED BY <2>1, <2>2, <2>3, <2>4, LessClean
<1>2. ASSUME NEW b \in BOOLEAN, NEW u \in BOOLEAN,
             NEW res \in Results,
             WebConfig(b, u, res)
      PROVE  Clean'
  <2> DEFINE SI == IF b THEN {cur} ELSE {}
             S  == IF u THEN obsR \ SI ELSE {}
             C  == SI \cup HeldI(S) \cup HeldO(S)
  <2>1. /\ obsR' = obsR \ C /\ open' = open \ C /\ live' = live
        /\ mcn' = DropO(DropI(mcn, SI \cup S), S)
        /\ UNCHANGED <<resA, resC>> /\ pc' # "Callback"
    BY <1>2 DEF WebConfig
  <2> HIDE DEF SI, S, C
  <2>2. /\ InProgress' \subseteq InProgress
        /\ \A r \in Recs : mcn'[r].ev = mcn[r].ev
    BY <2>1, DropLess
  <2>3. obsR' \subseteq obsR /\ obsR' \subseteq open'
    BY <2>1 DEF Clean
  <2> QED BY <2>1, <2>2, <2>3, LessClean
<1>3. CASE ReadDone
  <2>1. \A S, A : A \in Adopted(S, {}) => A = {}
    BY DEF Adopted
  <2>2. /\ obsR' = obsR /\ resA' = resA /\ resC' = resC
    BY <1>3, <2>1 DEF ReadDone, Clean, Bits
  <2>3. UNCHANGED <<open, live, mcn>> /\ pc' # "Callback"
    BY <1>3 DEF ReadDone, table
  <2> QED BY <2>2, <2>3 DEF Clean, InProgress
<1>4. CASE Restart \/ Relaunch
  <2>1. /\ obsR' = {} /\ resA' = {} /\ resC' = {} /\ pc' = "Select"
        /\ mcn' = [r \in Recs |-> NoConn]
    BY <1>4 DEF Restart, Relaunch
  <2> QED BY <2>1 DEF Clean, NoConn
<1>5. CASE UNCHANGED vars
  BY <1>5 DEF vars, table, sets, frame, Clean, InProgress
<1> QED BY <1>1, <1>2, <1>3, <1>4, <1>5 DEF Web

LEMMA NextClean ==
  ASSUME Calm, IInv, Mirror, Heard, Clean, [Next]_vars
  PROVE  Clean'
BY SelectClean, LoopClean, CallbackClean, ScanClean, ProxyClean, RestClean DEF Next

\* select is given open descriptors only, as long as no send fails, no tunnels
\* are asked for, FD_CLR of ZnkSocket_INVALID does nothing and the fd_set has
\* room for every socket; TLC finds a closed descriptor when one of these is
\* dropped (README, section 8).
THEOREM ObservedOpenHolds ==
  ASSUME Calm
  PROVE  Spec => []ObservedOpen
<1> DEFINE Inv == IInv /\ Aligned /\ Mirror /\ Heard /\ Clean
<1>0. "post" \notin Faults /\ Alias = {}
  BY DEF Calm
<1>1. Init => Inv
  <2>1. Init => Heard /\ Clean
    BY DEF Init, Heard, Clean, NoConn
  <2> QED BY <2>1, InitType, InitOwns, InitAligned, InitMirror DEF IInv
<1>2. Inv /\ [Next]_vars => Inv'
  BY <1>0, NextType, NextOwns, NextAligned, NextMirror, NextHeard, NextClean,
     AlwaysNoted DEF IInv
<1>3. Inv => ObservedOpen
  <2> SUFFICES ASSUME Inv, pc = "Select" PROVE obsR \cup obsW \subseteq open
    BY DEF ObservedOpen
  <2>1. obsW = InProgress /\ obsR \subseteq open
    BY DEF Mirror, Marking, Clean
  <2>2. InProgress \subseteq open
    BY Unique DEF InProgress, IInv, TypeOK
  <2> QED BY <2>1, <2>2
<1> QED BY <1>1, <1>2, <1>3, PTL DEF Spec
=============================================================================
