--------------------------- MODULE MoaiQueue_proofs ---------------------------
(***************************************************************************)
(* Proof that MoaiPipeline implements RequestQueue, for any number of      *)
(* connections, hosts and requests and any faults.                         *)
(*                                                                         *)
(* A step works on one connection at a time, and there it is a step of the *)
(* queue or changes nothing that the queue sees.  That a request is new    *)
(* when it is received comes from Sound (every id a connection lists was   *)
(* issued) and from History.                                               *)
(***************************************************************************)
EXTENDS MoaiTunnel_proofs, SequenceTheorems

\* Nothing is known of requests to come; a NULL callback is invoked at most
\* from the start of the list, so that returning from it loses nothing.
History ==
  /\ sent \subseteq 1..next
  /\ \A id \in Ids \ (1..next) : goal[id] = NoHost
  /\ \A c \in Conns : calling = c /\ conn[c].cb = "none" => at = 1

-----------------------------------------------------------------------------
(***************************************************************************)
(* What the queue sees                                                     *)
(***************************************************************************)

LEMMA WaitingListed ==
  ASSUME TypeOK, NEW c \in Conns
  PROVE  /\ Waiting(c) \in Seq(Ids)
         /\ \A i \in DOMAIN Waiting(c) : Waiting(c)[i] \in Listed(conn[c].pend)
<1> DEFINE p == conn[c].pend
<1>1. p \in Seq(Ids) /\ at \in Nat \ {0}
  BY DEF TypeOK, Conn
<1>2. CASE ~up \/ conn[c].O = "none"
  <2>1. Waiting(c) = <<>> /\ <<>> \in Seq(Ids) /\ DOMAIN <<>> = {}
    BY <1>2 DEF Waiting
  <2> QED BY <2>1
<1>3. CASE up /\ conn[c].O # "none" /\ calling = c
  <2> DEFINE L == Listed(p)
             m == at
  <2>1. Waiting(c) = SubSeq(p, at, Len(p))
    BY <1>3 DEF Waiting
  <2>2. DOMAIN p = 1..Len(p) /\ Len(p) \in Nat
    BY <1>1
  <2>3. \A i \in m..Len(p) : p[i] \in L
    BY <1>1, <2>2 DEF Listed
  <2>4. m \in Int /\ Len(p) \in Int
    BY <1>1, <2>2
  <2>5. L \subseteq Ids
    BY <1>1, <2>2 DEF Listed
  <2> HIDE DEF L, m
  <2>6. SubSeq(p, m, Len(p)) \in Seq(L)
    BY <2>3, <2>4, SubSeqProperties, Zenon
  <2>7. Waiting(c) \in Seq(L)
    BY <2>1, <2>6 DEF m
  <2> HIDE DEF p
  <2>8. Waiting(c) \in Seq(Ids) /\ \A i \in DOMAIN Waiting(c) : Waiting(c)[i] \in L
    BY <2>5, <2>7
  <2> QED BY <2>8 DEF L, p
<1>4. CASE up /\ conn[c].O # "none" /\ calling # c
  BY <1>1, <1>4 DEF Waiting, Listed
<1> QED BY <1>2, <1>3, <1>4

\* An id that was not issued is new to the queue.
LEMMA UnissuedNew ==
  ASSUME TypeOK, Sound, History, NEW id \in Ids \ (1..next)
  PROVE  Queue!New(id)
<1>1. id \notin doneBar
  BY DEF doneBar, History
<1>2. ASSUME NEW c \in Conns, NEW i \in DOMAIN queueBar[c], queueBar[c][i] = id
      PROVE  FALSE
  <2>1. queueBar[c] = Waiting(c)
    BY DEF queueBar
  <2>2. id \in Listed(conn[c].pend)
    BY <1>2, <2>1, WaitingListed
  <2> QED BY <2>2 DEF Sound, Issued, Held
<1> QED BY <1>1, <1>2 DEF Queue!New, Queue!In

\* At most the id that is issued next becomes free, and what was sent stays as
\* free as it was.
LEMMA SettledStep ==
  ASSUME TypeOK, Sound, History, shown \subseteq shown',
         shown' \subseteq shown \cup {next + 1},
         \A id \in Ids \ {next + 1} : goal'[id] = goal[id]
  PROVE  Queue!Settled /\ sent \ Free' = sent \ Free
<1>1. next \in Nat /\ next + 1 \notin 1..next
  BY PipelineAssumption DEF TypeOK
<1>2. \A id \in Ids \ {next + 1} : id \in Free' <=> id \in Free
  BY DEF Free
<1>3. next + 1 \in Ids => next + 1 \notin Free \/ next + 1 \in Free'
  <2>1. next + 1 \in Ids => goal[next + 1] \notin TunnelHosts
    BY <1>1, PipelineAssumption DEF History
  <2> QED BY <2>1 DEF Free
<1>4. Free \subseteq Ids /\ Free' \subseteq Ids
  BY DEF Free
<1>5. Free \subseteq Free' /\ Free' \ Free \subseteq {next + 1} \cap Ids
  BY <1>2, <1>3, <1>4
<1>6. Queue!Settled
  BY <1>1, <1>5, UnissuedNew DEF Queue!Settled
<1>7. \A id \in sent : id # next + 1
  BY <1>1 DEF History
<1>8. sent \subseteq Ids
  BY DEF TypeOK
<1> QED BY <1>2, <1>6, <1>7, <1>8

\* Nothing becomes free.
LEMMA SettledSame ==
  ASSUME TypeOK, Sound, History, UNCHANGED <<shown, goal>>
  PROVE  Queue!Settled /\ Free' = Free /\ sent \ Free' = sent \ Free
<1>1. \A id \in Ids \ {next + 1} : goal'[id] = goal[id]
  OBVIOUS
<1> QED BY <1>1, SettledStep DEF Free

-----------------------------------------------------------------------------
(***************************************************************************)
(* Steps on one connection                                                 *)
(***************************************************************************)

Alone(d) == /\ up /\ up'
            /\ calling \in {NoConn, d} /\ calling' \in {NoConn, d}
            /\ \A c \in Conns \ {d} : conn'[c] = conn[c] /\ wire'[c] = wire[c]

LEMMA OthersBar ==
  ASSUME NEW d \in Conns, Alone(d), NEW c \in Conns \ {d}
  PROVE  queueBar'[c] = queueBar[c] /\ flightBar'[c] = flightBar[c]
<1>1. calling # c /\ calling' # c
  BY PipelineAssumption DEF Alone
<1>2. Waiting(c)' = Waiting(c)
  BY <1>1 DEF Alone, Waiting
<1> QED BY <1>2 DEF queueBar, flightBar, Alone

LEMMA OneBar ==
  ASSUME NEW d \in Conns
  PROVE  /\ queueBar[d] = Waiting(d) /\ queueBar'[d] = Waiting(d)'
         /\ up => flightBar[d] = wire[d]
         /\ up' => flightBar'[d] = wire'[d]
         /\ queueBar = [c \in Conns |-> queueBar[c]]
         /\ queueBar' = [c \in Conns |-> queueBar'[c]]
         /\ flightBar = [c \in Conns |-> flightBar[c]]
         /\ flightBar' = [c \in Conns |-> flightBar'[c]]
BY DEF queueBar, flightBar

LEMMA ChangeOne ==
  ASSUME NEW d \in Conns, Alone(d)
  PROVE  /\ queueBar' = [queueBar EXCEPT ![d] = Waiting(d)']
         /\ flightBar' = [flightBar EXCEPT ![d] = wire'[d]]
<1>1. queueBar'[d] = Waiting(d)' /\ flightBar'[d] = wire'[d]
  BY OneBar DEF Alone
<1>2. DOMAIN queueBar = Conns /\ DOMAIN flightBar = Conns
  BY DEF queueBar, flightBar
<1>3. /\ queueBar' = [c \in Conns |-> IF c = d THEN Waiting(d)' ELSE queueBar[c]]
      /\ flightBar' = [c \in Conns |-> IF c = d THEN wire'[d] ELSE flightBar[c]]
  BY <1>1, OthersBar, OneBar
<1> QED BY <1>2, <1>3

\* What d has waiting or sent on is lost.
LEMMA LoseOne ==
  ASSUME NEW d \in Conns, Alone(d), Waiting(d)' = <<>>, wire'[d] = <<>>,
         Queue!Settled, doneBar' = doneBar
  PROVE  Queue!Next
<1>1. queueBar' = [c \in Conns |-> IF c \in {d} THEN <<>> ELSE queueBar[c]]
  BY OthersBar, OneBar
<1>2. flightBar' = [c \in Conns |-> IF c \in {d} THEN <<>> ELSE flightBar[c]]
  BY OthersBar, OneBar DEF Alone
<1>3. Queue!Lose({d})
  BY <1>1, <1>2 DEF Queue!Lose
<1> QED BY <1>3 DEF Queue!Next

\* The queue sees nothing.
LEMMA SeenNot ==
  ASSUME NEW d \in Conns, Alone(d), Waiting(d)' = Waiting(d), wire'[d] = wire[d],
         Free' = Free, doneBar' = doneBar
  PROVE  UNCHANGED Queue!vars
<1>1. \A c \in Conns : queueBar'[c] = queueBar[c] /\ flightBar'[c] = flightBar[c]
  BY OthersBar, OneBar DEF Alone
<1>2. queueBar' = queueBar /\ flightBar' = flightBar
  BY <1>1, OneBar
<1> QED BY <1>2 DEF Queue!vars

\* All is lost.
LEMMA LoseAll ==
  ASSUME \A c \in Conns : Waiting(c)' = <<>> /\ flightBar'[c] = <<>>,
         Queue!Settled, doneBar' = doneBar
  PROVE  Queue!Next
<1>1. queueBar' = [c \in Conns |-> IF c \in Conns THEN <<>> ELSE queueBar[c]]
  BY DEF queueBar
<1>2. flightBar' = [c \in Conns |-> IF c \in Conns THEN <<>> ELSE flightBar[c]]
  BY DEF flightBar
<1>3. Queue!Lose(Conns)
  BY <1>1, <1>2 DEF Queue!Lose
<1> QED BY <1>3 DEF Queue!Next

-----------------------------------------------------------------------------
(***************************************************************************)
(* Every step is a step of the queue, or none.                             *)
(***************************************************************************)

Known   == TypeOK /\ Lists /\ Sound /\ History
Promise == Queue!Next \/ UNCHANGED Queue!vars

\* Steps that note nothing: the record of d is left without O, or nothing of it
\* that the queue sees changes.
LEMMA QuietLoses ==
  ASSUME Known, NEW d \in Conns, Alone(d), conn'[d].O = "none", wire'[d] = <<>>,
         UNCHANGED hist
  PROVE  Promise
<1>1. Waiting(d)' = <<>>
  BY DEF Waiting
<1>2. Queue!Settled /\ doneBar' = doneBar
  BY SettledSame DEF Known, hist, doneBar
<1> QED BY <1>1, <1>2, LoseOne DEF Promise

LEMMA QuietSame ==
  ASSUME Known, NEW d \in Conns, Alone(d), Waiting(d)' = Waiting(d),
         wire'[d] = wire[d], UNCHANGED hist
  PROVE  Promise
<1>1. Free' = Free /\ doneBar' = doneBar
  BY SettledSame DEF Known, hist, doneBar
<1> QED BY <1>1, SeenNot DEF Promise

LEMMA LifetimeQueue == Known /\ Lifetime => Promise
<1> SUFFICES ASSUME Known, Lifetime PROVE Promise
  OBVIOUS
<1>1. CASE Restart
  <2>1. UNCHANGED hist /\ up /\ up'
    BY <1>1 DEF Restart, Serving
  <2>2. Queue!Settled /\ doneBar' = doneBar
    BY <2>1, SettledSame DEF Known, hist, doneBar
  <2>3. \A c \in Conns : conn'[c].O = "none" /\ wire'[c] = <<>>
    BY <1>1 DEF Restart, Cleared, Fresh
  <2>4. \A c \in Conns : Waiting(c)' = <<>> /\ flightBar'[c] = <<>>
    BY <2>1, <2>3 DEF Waiting, flightBar
  <2> QED BY <2>2, <2>4, LoseAll DEF Promise
<1>2. CASE Relaunch
  <2>1. UNCHANGED hist /\ ~up /\ up'
    BY <1>2 DEF Relaunch
  <2>2. Free' = Free /\ doneBar' = doneBar
    BY <2>1, SettledSame DEF Known, hist, doneBar
  <2>3. \A c \in Conns : conn'[c].O = "none" /\ wire'[c] = <<>>
    BY <1>2 DEF Relaunch, Fresh
  <2>4. \A c \in Conns : Waiting(c)' = <<>> /\ Waiting(c) = <<>>
    BY <2>1, <2>3 DEF Waiting
  <2>5. queueBar' = queueBar /\ flightBar' = flightBar
    BY <2>1, <2>3, <2>4 DEF queueBar, flightBar
  <2> QED BY <2>2, <2>5 DEF Promise, Queue!vars
<1>3. ASSUME NEW d \in Conns, Accept(d) \/ End(d) PROVE Promise
  <2>1. CutOff(d) /\ UNCHANGED <<calling, up>> /\ UNCHANGED hist /\ Serving
    BY <1>3 DEF Accept, End
  <2>2. \/ conn' = [conn EXCEPT ![d] = [Cleared(conn[d]) EXCEPT !.I = TRUE]]
        \/ conn' = [conn EXCEPT ![d] = Fresh]
    BY <1>3 DEF Accept, End
  <2>3. conn'[d].O = "none" /\ \A c \in Conns \ {d} : conn'[c] = conn[c]
    <3>1. Cleared(conn[d]).O = "none" /\ Cleared(conn[d]) \in Conn
      BY RecordType DEF Cleared, Fresh, Known, TypeOK
    <3>2. [Cleared(conn[d]) EXCEPT !.I = TRUE].O = "none" /\ Fresh.O = "none"
      BY <3>1 DEF Fresh, Conn
    <3> QED BY <2>2, <3>2 DEF Known, TypeOK
  <2>4. wire'[d] = <<>> /\ \A c \in Conns \ {d} : wire'[c] = wire[c]
    BY <2>1 DEF CutOff, Known, TypeOK
  <2>5. Alone(d)
    BY <2>1, <2>3, <2>4 DEF Alone, Serving
  <2> QED BY <2>1, <2>3, <2>4, <2>5, QuietLoses
<1>4. ASSUME NEW d \in Conns, CloseI(d) PROVE Promise
  <2>1. /\ UNCHANGED <<calling, up, wire, at>> /\ UNCHANGED hist /\ Serving
        /\ conn' = [conn EXCEPT ![d] = [conn[d] EXCEPT !.I = FALSE]]
        /\ conn[d] \in Conn
    BY <1>4 DEF CloseI, Known, TypeOK
  <2>2. conn'[d].O = conn[d].O /\ conn'[d].pend = conn[d].pend
    BY <2>1 DEF Known, TypeOK, Conn
  <2>3. Alone(d)
    BY <2>1 DEF Alone, Serving, Known, TypeOK
  <2>4. Waiting(d)' = Waiting(d)
    BY <2>1, <2>2 DEF Waiting
  <2> QED BY <2>1, <2>3, <2>4, QuietSame
<1>5. ASSUME NEW d \in Conns, CloseO(d) PROVE Promise
  <2>1. /\ UNCHANGED <<calling, up>> /\ UNCHANGED hist /\ Serving
        /\ conn' = [conn EXCEPT ![d] = [conn[d] EXCEPT !.O = "none"]]
        /\ wire' = [wire EXCEPT ![d] = <<>>]
    BY <1>5 DEF CloseO
  <2>2. Alone(d) /\ conn'[d].O = "none" /\ wire'[d] = <<>>
    BY <2>1 DEF Alone, Serving, Known, TypeOK, Conn
  <2> QED BY <2>1, <2>2, QuietLoses
<1> QED BY <1>1, <1>2, <1>3, <1>4, <1>5 DEF Lifetime

LEMMA AnsweringQueue == Known /\ Answering => Promise
<1> SUFFICES ASSUME Known, NEW d \in Conns, NEW extra \in BOOLEAN, Response(d, extra)
             PROVE  Promise
  BY DEF Answering
<1>1. /\ UNCHANGED <<calling, up, at>> /\ UNCHANGED hist /\ Serving
      /\ conn' = [conn EXCEPT ![d] = [conn[d] EXCEPT !.ridx = @ + 1]]
      /\ conn[d] \in Conn
  BY DEF Response, Known, TypeOK
<1>2. conn'[d].O = conn[d].O /\ conn'[d].pend = conn[d].pend
  BY <1>1 DEF Known, TypeOK, Conn
<1>3. Alone(d)
  <2>1. wire' = wire \/ wire' = [wire EXCEPT ![d] = Tail(@)]
    BY DEF Response
  <2>2. \A c \in Conns \ {d} : wire'[c] = wire[c] /\ conn'[c] = conn[c]
    BY <1>1, <2>1 DEF Known, TypeOK
  <2> QED BY <1>1, <2>2 DEF Alone, Serving
<1>4. Waiting(d)' = Waiting(d)
  BY <1>1, <1>2 DEF Waiting
<1>5. CASE extra
  BY <1>1, <1>3, <1>4, <1>5, QuietSame DEF Response
<1>6. CASE ~extra
  <2>1. wire[d] # <<>> /\ wire' = [wire EXCEPT ![d] = Tail(@)] /\ up /\ up'
    BY <1>1, <1>6 DEF Response, Serving
  <2>2. wire'[d] = Tail(wire[d])
    BY <2>1 DEF Known, TypeOK
  <2>3. flightBar' = [flightBar EXCEPT ![d] = Tail(@)] /\ flightBar[d] # <<>>
    <3>1. flightBar[d] = wire[d]
      BY <2>1, OneBar
    <3> QED BY <1>3, <2>1, <2>2, <3>1, ChangeOne
  <2>4. queueBar' = queueBar
    BY <1>3, <1>4, OthersBar, OneBar
  <2>5. Free' = Free /\ doneBar' = doneBar
    BY <1>1, SettledSame DEF Known, hist, doneBar
  <2>6. Queue!Answer(d)
    BY <2>3, <2>4, <2>5 DEF Queue!Answer
  <2> QED BY <2>6 DEF Promise, Queue!Next
<1> QED BY <1>5, <1>6

\* The id at the loop index is the first that waits; the next one comes after it.
LEMMA AtHead ==
  ASSUME Known, NEW d \in Conns, up, calling = d, at <= Len(conn[d].pend)
  PROVE  /\ Waiting(d) # <<>> /\ Head(Waiting(d)) = conn[d].pend[at]
         /\ Tail(Waiting(d)) = SubSeq(conn[d].pend, at + 1, Len(conn[d].pend))
         /\ conn[d].O = "up" /\ conn[d].pend[at] \in Listed(conn[d].pend)
<1> DEFINE p == conn[d].pend
           n == Len(p)
<1>1. p \in Seq(Ids) /\ at \in Nat \ {0} /\ n \in Nat /\ DOMAIN p = 1..n
  BY DEF Known, TypeOK, Conn
<1>2. conn[d].O = "up"
  BY DEF Known, Lists, Good
<1>3. Waiting(d) = SubSeq(p, at, n)
  BY <1>2 DEF Waiting
<1>4. at \in 1..n /\ n \in at..n
  BY <1>1
<1>5. p[at] \in Listed(p)
  BY <1>1, <1>4 DEF Listed
<1>6. Head(SubSeq(p, at, n)) = p[at] /\ Tail(SubSeq(p, at, n)) = SubSeq(p, at + 1, n)
  BY <1>1, <1>4, HeadTailOfSubSeq
<1>7. SubSeq(p, at, n) # <<>>
  <2>1. \A i \in at..n : p[i] \in Ids
    BY <1>1
  <2>2. at \in Int /\ n \in Int /\ at <= n
    BY <1>1, <1>4
  <2>3. Len(SubSeq(p, at, n)) = n - at + 1
    BY <2>1, <2>2, SubSeqProperties
  <2>4. n - at + 1 # 0
    BY <2>2
  <2>5. Len(<<>>) = 0
    OBVIOUS
  <2> HIDE DEF n, p
  <2>6. ASSUME SubSeq(p, at, n) = <<>> PROVE FALSE
    <3>1. Len(SubSeq(p, at, n)) = Len(<<>>)
      BY <2>6, Zenon
    <3> QED BY <2>3, <2>4, <2>5, <3>1
  <2> QED BY <2>6, Zenon
<1> QED BY <1>2, <1>3, <1>5, <1>6, <1>7

\* The callback goes on to the next id.
LEMMA NextWaiting ==
  ASSUME Known, NEW d \in Conns, up, up', calling = d, calling' = d, at' = at + 1,
         at <= Len(conn[d].pend), conn'[d].pend = conn[d].pend, conn'[d].O = conn[d].O
  PROVE  Waiting(d)' = Tail(Waiting(d))
BY AtHead DEF Waiting

LEMMA SendQueue ==
  ASSUME Known, NEW d \in Conns, InvokeSend(d)
  PROVE  Promise
<1> DEFINE id == conn[d].pend[at]
<1>1. /\ up /\ up' /\ calling = d /\ calling' = d /\ at' = at + 1
      /\ at <= Len(conn[d].pend) /\ conn[d] \in Conn /\ UNCHANGED <<shown, goal>>
      /\ conn' = [conn EXCEPT ![d] = [conn[d] EXCEPT !.inv = Append(@, id)]]
      /\ wire' = [wire EXCEPT ![d] = Append(@, id)] /\ sent' = sent \cup {id}
  BY DEF InvokeSend, Invoking, Known, TypeOK
<1>2. /\ conn'[d].pend = conn[d].pend /\ conn'[d].O = conn[d].O
      /\ wire'[d] = Append(wire[d], id)
  BY <1>1 DEF Known, TypeOK, Conn
<1>3. Alone(d)
  BY <1>1 DEF Alone, Known, TypeOK
<1>4. Waiting(d) # <<>> /\ Head(Waiting(d)) = id /\ Waiting(d)' = Tail(Waiting(d))
  BY <1>1, <1>2, AtHead, NextWaiting
<1>5. queueBar[d] = Waiting(d) /\ flightBar[d] = wire[d]
  BY <1>1, OneBar
<1> HIDE DEF id
<1>6. /\ queueBar' = [queueBar EXCEPT ![d] = Tail(@)]
      /\ flightBar' = [flightBar EXCEPT ![d] = Append(@, Head(queueBar[d]))]
  BY <1>2, <1>3, <1>4, <1>5, ChangeOne
<1>7. Free' = Free
  BY <1>1, SettledSame DEF Known
<1>8. doneBar' = doneBar \cup ({Head(queueBar[d])} \ Free)
  BY <1>1, <1>4, <1>5, <1>7 DEF doneBar
<1>9. Queue!SendOn(d)
  BY <1>4, <1>5, <1>6, <1>7, <1>8 DEF Queue!SendOn
<1> QED BY <1>9 DEF Promise, Queue!Next

\* What a CONNECT asks for is a tunnel, which is free.
LEMMA ConnectQueue ==
  ASSUME Known, NEW d \in Conns, NEW ok \in BOOLEAN, InvokeConnect(d, ok)
  PROVE  Promise
<1> DEFINE id == conn[d].pend[at]
<1>1. /\ up /\ up' /\ calling = d /\ calling' = d /\ at' = at + 1
      /\ at <= Len(conn[d].pend) /\ conn[d] \in Conn /\ conn[d].cb = "CONNECT"
      /\ UNCHANGED <<shown, goal, wire>>
      /\ conn' = [conn EXCEPT ![d] = [conn[d] EXCEPT !.inv = Append(@, id)]]
      /\ sent' = sent \cup {id} \/ sent' = sent
  BY DEF InvokeConnect, Invoking, Known, TypeOK
<1>2. conn'[d].pend = conn[d].pend /\ conn'[d].O = conn[d].O
  BY <1>1 DEF Known, TypeOK, Conn
<1>3. Alone(d)
  BY <1>1 DEF Alone, Known, TypeOK
<1>4. Waiting(d) # <<>> /\ Head(Waiting(d)) = id /\ Waiting(d)' = Tail(Waiting(d))
  BY <1>1, <1>2, AtHead, NextWaiting
<1>5. id \in Free
  <2>1. conn[d].O = "up" /\ id \in Listed(conn[d].pend)
    BY <1>1, AtHead
  <2>2. goal[id] = conn[d].host /\ conn[d].host \in TunnelHosts
    BY <1>1, <2>1 DEF Known, Lists, Good, Sound, Tunnelled
  <2>3. id \in Ids
    BY <2>1 DEF Known, TypeOK, Conn, Listed
  <2> QED BY <2>2, <2>3 DEF Free
<1>6. queueBar[d] = Waiting(d) /\ flightBar[d] = wire[d]
  BY <1>1, OneBar
<1> HIDE DEF id
<1>7. queueBar' = [queueBar EXCEPT ![d] = Tail(@)] /\ flightBar' = flightBar
  BY <1>1, <1>3, <1>4, <1>6, ChangeOne DEF flightBar
<1>8. Free' = Free
  BY <1>1, SettledSame DEF Known
<1>9. doneBar' = doneBar
  BY <1>1, <1>5, <1>8 DEF doneBar
<1>10. Queue!Serve(d)
  BY <1>4, <1>5, <1>6, <1>7, <1>8, <1>9 DEF Queue!Serve
<1> QED BY <1>10 DEF Promise, Queue!Next

LEMMA CallingQueue == Known /\ Calling => Promise
<1> SUFFICES ASSUME Known, NEW d \in Conns,
                    \/ ConnectDone(d) \/ InvokeNull(d) \/ InvokeSend(d)
                    \/ InvokeFail(d) \/ InvokeProxyFail(d) \/ InvokeStale(d)
                    \/ InvokeEnd(d) \/ \E ok \in BOOLEAN : InvokeConnect(d, ok)
             PROVE  Promise
  BY DEF Calling
<1> USE DEF world
<1>d. /\ conn[d] \in Conn /\ conn[d].pend \in Seq(Ids) /\ d # NoConn
      /\ SubSeq(conn[d].pend, 1, Len(conn[d].pend)) = conn[d].pend
      /\ calling = d => conn[d].O = "up"
  <2>1. conn[d] \in Conn /\ conn[d].pend \in Seq(Ids) /\ d # NoConn
    BY PipelineAssumption DEF Known, TypeOK, Conn
  <2> QED BY <2>1, SubSeqFull DEF Known, Lists, Good
<1>1. CASE ConnectDone(d)
  <2>1. /\ conn' = [conn EXCEPT ![d] = [conn[d] EXCEPT !.O = "up"]]
        /\ calling = NoConn /\ calling' = d /\ at' = 1 /\ up /\ up'
        /\ wire' = wire /\ UNCHANGED hist /\ conn[d].O = "connecting"
    BY <1>1 DEF ConnectDone, Serving, Call
  <2>2. conn'[d].O = "up" /\ conn'[d].pend = conn[d].pend
    BY <2>1, <1>d DEF Known, TypeOK, Conn
  <2>3. Alone(d)
    BY <2>1 DEF Alone, Known, TypeOK
  <2>4. Waiting(d)' = Waiting(d)
    BY <1>d, <2>1, <2>2 DEF Waiting
  <2> QED BY <2>1, <2>3, <2>4, QuietSame
<1>2. CASE InvokeNull(d)
  <2>1. /\ conn' = conn /\ wire' = wire /\ calling = d /\ calling' = NoConn
        /\ up /\ up' /\ UNCHANGED hist /\ conn[d].cb = "none"
    BY <1>2 DEF InvokeNull, Return
  <2>2. Alone(d)
    BY <2>1 DEF Alone
  <2>3. at = 1
    BY <2>1 DEF Known, History
  <2>4. Waiting(d)' = Waiting(d)
    BY <1>d, <2>1, <2>3 DEF Waiting
  <2> QED BY <2>1, <2>2, <2>4, QuietSame
<1>3. CASE InvokeSend(d)
  BY <1>3, SendQueue
<1>4. CASE \E ok \in BOOLEAN : InvokeConnect(d, ok)
  BY <1>4, ConnectQueue
<1>5. CASE InvokeFail(d)
  <2>1. /\ conn' = [conn EXCEPT ![d] = Fresh] /\ wire' = [wire EXCEPT ![d] = <<>>]
        /\ calling = d /\ calling' = NoConn /\ up /\ up' /\ UNCHANGED hist
    BY <1>5 DEF InvokeFail, Invoking, Return, CutOff
  <2>2. Alone(d) /\ conn'[d].O = "none" /\ wire'[d] = <<>>
    BY <2>1 DEF Alone, Fresh, Known, TypeOK
  <2> QED BY <2>1, <2>2, QuietLoses
<1>6. CASE InvokeProxyFail(d)
  <2>1. /\ conn' = [conn EXCEPT ![d] = [conn[d] EXCEPT !.O = "none"]]
        /\ wire' = [wire EXCEPT ![d] = <<>>]
        /\ calling = d /\ calling' = NoConn /\ up /\ up' /\ UNCHANGED hist
    BY <1>6 DEF InvokeProxyFail, Invoking, Return
  <2>2. Alone(d) /\ conn'[d].O = "none" /\ wire'[d] = <<>>
    BY <2>1, <1>d DEF Alone, Known, TypeOK, Conn
  <2> QED BY <2>1, <2>2, QuietLoses
<1>7. CASE InvokeStale(d)
  <2>1. UNCHANGED hist /\ ~up'
    BY <1>7 DEF InvokeStale
  <2>2. Queue!Settled /\ doneBar' = doneBar
    BY <2>1, SettledSame DEF Known, hist, doneBar
  <2>3. \A c \in Conns : Waiting(c)' = <<>> /\ flightBar'[c] = <<>>
    BY <2>1 DEF Waiting, flightBar
  <2> QED BY <2>2, <2>3, LoseAll DEF Promise
<1>8. CASE InvokeEnd(d)
  <2>1. /\ conn' = [conn EXCEPT ![d] = Emptied(conn[d])] /\ wire' = wire
        /\ calling = d /\ calling' = NoConn /\ up /\ up' /\ UNCHANGED hist
        /\ at > Len(conn[d].pend)
    BY <1>8 DEF InvokeEnd, Return
  <2>2. conn'[d].pend = <<>>
    BY <2>1, <1>d DEF Emptied, Known, TypeOK, Conn
  <2>3. Alone(d)
    BY <2>1 DEF Alone, Known, TypeOK
  <2>4. Waiting(d) = <<>>
    <3>1. at \in Int /\ Len(conn[d].pend) \in Int /\ Len(conn[d].pend) < at
      BY <1>d, <2>1 DEF Known, TypeOK
    <3>2. SubSeq(conn[d].pend, at, Len(conn[d].pend)) = <<>>
      BY <3>1, SubSeqEmpty
    <3> QED BY <2>1, <3>2 DEF Waiting
  <2>5. Waiting(d)' = <<>>
    BY <1>d, <2>1, <2>2 DEF Waiting
  <2> QED BY <2>1, <2>3, <2>4, <2>5, QuietSame
<1> QED BY <1>1, <1>2, <1>3, <1>4, <1>5, <1>6, <1>7, <1>8

\* A request is received: behind those that wait for the same host, or alone.
LEMMA RequestQueued ==
  ASSUME Known, NEW d \in Conns, NEW h \in Hosts, NEW m \in Methods,
         NEW cb \in Methods \cup {"none"}, NEW id \in Ids,
         NEW o \in {"connecting", "up"}, Request(d, h, m, cb, id, o),
         shown \subseteq shown', shown' \subseteq shown \cup {next + 1},
         id \in shown \/ id = next + 1
  PROVE  Promise
<1> DEFINE r == Recycled(conn[d], h)
           q == Connected(r, o)
<1>1. /\ calling = NoConn /\ up /\ up' /\ sent' = sent /\ NewInfo(h, m)
      /\ conn' = [conn EXCEPT ![d] = Pushed(q, cb, id)]
      /\ wire' = [wire EXCEPT ![d] = IF r.O = "none" THEN <<>> ELSE @]
      /\ r.O # "none" => o = "up"
      /\ q.O = "up" => calling' = d /\ at' = 1
      /\ q.O # "up" => calling' = NoConn
  BY DEF Request, Serving, Call
<1>2. conn[d] \in Conn /\ q \in Conn /\ r \in Conn
  BY RequestType DEF Known, TypeOK, OStates
<1>3. r.O # "none" => r = conn[d] /\ q = conn[d]
  BY <1>2 DEF Recycled, Connected, Conn
<1>4. r.O = "none" => q.O = o /\ q.pend = <<>>
  BY <1>2 DEF Connected, Conn
<1>5. q.O # "none"
  BY <1>3, <1>4
<1> HIDE DEF q, r
<1>6. conn'[d].pend = Append(q.pend, id) /\ conn'[d].O = q.O
  BY <1>1, <1>2 DEF Pushed, Known, TypeOK, Conn
<1>7. wire'[d] = IF r.O = "none" THEN <<>> ELSE wire[d]
  BY <1>1 DEF Known, TypeOK
<1>8. Alone(d)
  BY <1>1 DEF Alone, Known, TypeOK
<1>9. Waiting(d)' = Append(q.pend, id)
  <2>1. conn'[d].pend \in Seq(Ids)
    BY <1>2, <1>6 DEF Conn
  <2>2. SubSeq(conn'[d].pend, 1, Len(conn'[d].pend)) = conn'[d].pend
    BY <2>1, SubSeqFull
  <2>3. d # NoConn
    BY PipelineAssumption
  <2> QED BY <1>1, <1>5, <1>6, <2>2, <2>3 DEF Waiting
<1>10. Queue!Settled /\ doneBar' = doneBar
  <2>1. \A i \in Ids \ {next + 1} : goal'[i] = goal[i]
    BY <1>1 DEF NewInfo, Known, TypeOK
  <2> QED BY <1>1, <2>1, SettledStep DEF Known, doneBar
<1>11. id \in Free' \/ Queue!New(id)
  <2>1. CASE id \in shown
    BY <2>1 DEF Free
  <2>2. CASE id = next + 1
    <3>1. id \notin 1..next
      BY <2>2, PipelineAssumption DEF Known, TypeOK
    <3> QED BY <3>1, UnissuedNew DEF Known
  <2> QED BY <2>1, <2>2
<1>12. queueBar[d] = Waiting(d) /\ flightBar[d] = wire[d]
  BY <1>1, OneBar
<1>13. CASE r.O = "none"
  <2>0. Append(<<>>, id) = <<id>>
    OBVIOUS
  <2>1. Waiting(d)' = <<id>> /\ wire'[d] = <<>>
    BY <1>4, <1>7, <1>9, <1>13, <2>0, Zenon
  <2>2. /\ queueBar' = [queueBar EXCEPT ![d] = <<id>>]
        /\ flightBar' = [flightBar EXCEPT ![d] = <<>>]
    BY <1>8, <2>1, ChangeOne
  <2>3. Queue!Receive(d, id, FALSE)
    BY <1>10, <1>11, <2>2 DEF Queue!Receive
  <2> QED BY <2>3 DEF Promise, Queue!Next
<1>14. CASE r.O # "none"
  <2>1. Waiting(d) = q.pend
    <3>1. d # NoConn /\ conn[d].O # "none" /\ q = conn[d]
      BY <1>3, <1>5, PipelineAssumption, <1>14
    <3> QED BY <1>1, <3>1 DEF Waiting
  <2>2. Waiting(d)' = Append(Waiting(d), id) /\ wire'[d] = wire[d]
    BY <1>7, <1>9, <1>14, <2>1
  <2>3. queueBar' = [queueBar EXCEPT ![d] = Append(queueBar[d], id)]
    BY <1>8, <1>12, <2>2, ChangeOne
  <2>4. flightBar' = [flightBar EXCEPT ![d] = flightBar[d]]
    BY <1>8, <1>12, <2>2, ChangeOne
  <2>5. Queue!Receive(d, id, TRUE)
    BY <1>10, <1>11, <2>3, <2>4 DEF Queue!Receive
  <2> QED BY <2>5 DEF Promise, Queue!Next
<1> QED BY <1>13, <1>14

\* A request that finds no server takes those with it that waited.
LEMMA RequestFailQueued ==
  ASSUME Known, NEW d \in Conns, NEW h \in Hosts, NEW m \in Methods,
         RequestFail(d, h, m),
         shown \subseteq shown', shown' \subseteq shown \cup {next + 1}
  PROVE  Promise
<1> DEFINE r == Recycled(conn[d], h)
           q == Connected(r, "none")
<1>1. /\ calling = NoConn /\ calling' = NoConn /\ up /\ up' /\ sent' = sent
      /\ NewInfo(h, m) /\ CutOff(d) /\ r.O = "none"
      /\ conn' = [conn EXCEPT ![d] = [q EXCEPT !.I = FALSE]]
  BY DEF RequestFail, Serving
<1>2. conn[d] \in Conn /\ q \in Conn /\ r \in Conn
  BY RequestType DEF Known, TypeOK, OStates
<1>3. q.O = "none"
  BY <1>1, <1>2 DEF Connected, Conn
<1> HIDE DEF q, r
<1>4. conn'[d].O = "none" /\ \A c \in Conns \ {d} : conn'[c] = conn[c]
  BY <1>1, <1>2, <1>3 DEF Known, TypeOK, Conn
<1>5. wire'[d] = <<>> /\ \A c \in Conns \ {d} : wire'[c] = wire[c]
  BY <1>1 DEF CutOff, Known, TypeOK
<1>6. Alone(d) /\ Waiting(d)' = <<>>
  BY <1>1, <1>4, <1>5 DEF Alone, Waiting
<1>7. Queue!Settled /\ doneBar' = doneBar
  <2>1. \A i \in Ids \ {next + 1} : goal'[i] = goal[i]
    BY <1>1 DEF NewInfo, Known, TypeOK
  <2> QED BY <1>1, <2>1, SettledStep DEF Known, doneBar
<1> QED BY <1>5, <1>6, <1>7, LoseOne DEF Promise

LEMMA AskingQueue == Known /\ Asking => Promise
<1> SUFFICES ASSUME Known, Asking PROVE Promise
  OBVIOUS
<1>m. {"POST", "none"} \subseteq Methods \cup {"none"} /\ "POST" \in Methods
  BY DEF Methods
<1>n. ASSUME NEW h, NEW m, NewInfo(h, m) PROVE next + 1 \in Ids
  BY <1>n, PipelineAssumption DEF NewInfo, Ids, Known, TypeOK
<1>g. \A id \in shown : id \in Ids /\ goal[id] \in Hosts
  BY PipelineAssumption DEF Known, TypeOK, Sound, ShownGoals
<1>1. ASSUME NEW d \in Conns, NEW h \in Hosts, NEW m \in Methods,
             NEW o \in {"connecting", "up"}, Ask(d, h, m, o)
      PROVE  Promise
  <2>1. Request(d, h, m, m, next + 1, o) /\ shown' = shown
    BY <1>1 DEF Ask
  <2>2. next + 1 \in Ids
    BY <1>n, <2>1 DEF Request
  <2> QED BY <2>1, <2>2, RequestQueued
<1>2. ASSUME NEW d \in Conns, NEW h \in Hosts, NEW o \in {"connecting", "up"},
             AskConfirm(d, h, o)
      PROVE  Promise
  <2>1. Request(d, h, "POST", "none", next + 1, o) /\ shown' = shown \cup {next + 1}
    BY <1>2 DEF AskConfirm
  <2>2. next + 1 \in Ids
    BY <1>n, <2>1 DEF Request
  <2> QED BY <1>m, <2>1, <2>2, RequestQueued
<1>3. ASSUME NEW d \in Conns, NEW id \in Ids, NEW o \in {"connecting", "up"},
             Submit(d, id, o)
      PROVE  Promise
  <2>1. Request(d, goal[id], "POST", "POST", id, o) /\ shown' = shown /\ id \in shown
    BY <1>3 DEF Submit
  <2>2. goal[id] \in Hosts
    BY <1>g, <2>1
  <2> QED BY <1>m, <2>1, <2>2, RequestQueued
<1>4. ASSUME NEW d \in Conns, NEW h \in Hosts, NEW m \in Methods, AskFail(d, h, m)
      PROVE  Promise
  BY <1>4, RequestFailQueued DEF AskFail
<1>5. ASSUME NEW d \in Conns, NEW h \in Hosts, AskConfirmFail(d, h)
      PROVE  Promise
  BY <1>5, <1>m, RequestFailQueued DEF AskConfirmFail
<1>6. ASSUME NEW d \in Conns, NEW id \in Ids, SubmitFail(d, id)
      PROVE  Promise
  <2>1. RequestFail(d, goal[id], "POST") /\ shown' = shown /\ id \in shown
    BY <1>6 DEF SubmitFail
  <2>2. goal[id] \in Hosts
    BY <1>g, <2>1
  <2> QED BY <1>m, <2>1, <2>2, RequestFailQueued
<1>7. ASSUME NEW d \in Conns, NEW h \in Hosts \cup {NoHost}, NEW close \in BOOLEAN,
             AskWeb(d, h, close)
      PROVE  Promise
  <2> DEFINE q == Recycled(conn[d], h)
  <2>1. /\ UNCHANGED <<calling, up>> /\ UNCHANGED hist /\ Serving
        /\ conn' = [conn EXCEPT ![d] = [q EXCEPT !.I = ~close]]
        /\ wire' = [wire EXCEPT ![d] = <<>>] /\ conn[d].host # h
    BY <1>7 DEF AskWeb
  <2>2. conn[d] \in Conn /\ q \in Conn
    <3>1. conn[d] \in Conn /\ "none" \in OStates
      BY DEF OStates, Known, TypeOK
    <3> QED BY <3>1, RequestType
  <2>3. q.O = "none"
    BY <2>1, <2>2 DEF Recycled, Conn
  <2> HIDE DEF q
  <2>4. conn'[d].O = "none" /\ \A c \in Conns \ {d} : conn'[c] = conn[c]
    BY <2>1, <2>2, <2>3 DEF Known, TypeOK, Conn
  <2>5. wire'[d] = <<>> /\ \A c \in Conns \ {d} : wire'[c] = wire[c]
    BY <2>1 DEF Known, TypeOK
  <2>6. Alone(d)
    BY <2>1, <2>4, <2>5 DEF Alone, Serving
  <2> QED BY <2>1, <2>4, <2>5, <2>6, QuietLoses
<1> QED BY <1>1, <1>2, <1>3, <1>4, <1>5, <1>6, <1>7 DEF Asking

-----------------------------------------------------------------------------
(***************************************************************************)
(* History                                                                 *)
(***************************************************************************)

\* No callback is being invoked, or it is where it was or starts.
AtStart == \A c \in Conns : calling' = c => \/ at' = 1
                                            \/ conn'[c].cb # "none"
                                            \/ UNCHANGED <<calling, at, conn>>

\* Steps that issue no id
LEMMA HistorySame ==
  ASSUME Known, AtStart, UNCHANGED <<next, goal>>,
         sent' = sent \/ \E id \in 1..next : sent' = sent \cup {id}
  PROVE  History'
<1>1. sent' \subseteq 1..next'
  BY DEF Known, History
<1>2. \A id \in Ids \ (1..next') : goal'[id] = NoHost
  BY DEF Known, History
<1>3. \A c \in Conns : calling' = c /\ conn'[c].cb = "none" => at' = 1
  BY DEF Known, History, AtStart
<1> QED BY <1>1, <1>2, <1>3 DEF History

\* Steps that issue an id
LEMMA HistoryNews ==
  ASSUME Known, AtStart, NEW h, NEW m, NewInfo(h, m), sent' = sent
  PROVE  History'
<1>1. next \in Nat /\ next' = next + 1 /\ goal' = [goal EXCEPT ![next + 1] = h]
  BY PipelineAssumption DEF NewInfo, Known, TypeOK
<1>2. sent' \subseteq 1..next'
  BY <1>1 DEF Known, History
<1>3. \A id \in Ids \ (1..next') : id \notin 1..next /\ id # next + 1
  BY <1>1
<1>4. \A id \in Ids \ (1..next') : goal'[id] = NoHost
  BY <1>1, <1>3 DEF Known, History, TypeOK
<1>5. \A c \in Conns : calling' = c /\ conn'[c].cb = "none" => at' = 1
  BY DEF Known, History, AtStart
<1> QED BY <1>2, <1>4, <1>5 DEF History

LEMMA InvokedIssued ==
  ASSUME Known, NEW d \in Conns, at <= Len(conn[d].pend)
  PROVE  conn[d].pend[at] \in 1..next
<1>1. conn[d].pend \in Seq(Ids) /\ at \in Nat \ {0}
  BY DEF Known, TypeOK, Conn
<1>2. at \in DOMAIN conn[d].pend
  BY <1>1
<1>3. conn[d].pend[at] \in Listed(conn[d].pend)
  BY <1>2 DEF Listed
<1> QED BY <1>3 DEF Known, Lists, Good

LEMMA CallingHistory == Known /\ Calling => History'
<1> SUFFICES ASSUME Known, NEW d \in Conns,
                    \/ ConnectDone(d) \/ InvokeNull(d) \/ InvokeSend(d)
                    \/ InvokeFail(d) \/ InvokeProxyFail(d) \/ InvokeStale(d)
                    \/ InvokeEnd(d) \/ \E ok \in BOOLEAN : InvokeConnect(d, ok)
             PROVE  History'
  BY DEF Calling
<1>1. CASE ConnectDone(d) \/ InvokeNull(d) \/ InvokeFail(d) \/ InvokeProxyFail(d)
           \/ InvokeEnd(d)
  <2>1. UNCHANGED <<next, goal, sent>> /\ at' = 1
    BY <1>1 DEF ConnectDone, InvokeNull, InvokeFail, InvokeProxyFail, InvokeEnd,
                Call, Return, hist
  <2> QED BY <2>1, HistorySame DEF AtStart
<1>2. CASE InvokeStale(d)
  BY <1>2, HistorySame DEF InvokeStale, hist, AtStart
<1>3. CASE InvokeSend(d) \/ \E ok \in BOOLEAN : InvokeConnect(d, ok)
  <2>1. /\ UNCHANGED <<next, goal>> /\ calling = d /\ calling' = d
        /\ sent' = sent \/ sent' = sent \cup {conn[d].pend[at]}
        /\ conn' = [conn EXCEPT ![d] = [conn[d] EXCEPT !.inv = Append(@, conn[d].pend[at])]]
        /\ conn[d].cb # "none" /\ conn[d] \in Conn /\ at <= Len(conn[d].pend)
    BY <1>3 DEF InvokeSend, InvokeConnect, Invoking, Known, TypeOK
  <2>2. conn'[d].cb # "none"
    BY <2>1 DEF Known, TypeOK, Conn
  <2>3. conn[d].pend[at] \in 1..next
    BY <2>1, InvokedIssued
  <2> QED BY <2>1, <2>2, <2>3, HistorySame DEF AtStart
<1> QED BY <1>1, <1>2, <1>3

LEMMA RestHistory == Known /\ (Lifetime \/ Answering) => History'
<1> SUFFICES ASSUME Known, Lifetime \/ Answering PROVE History'
  OBVIOUS
<1>1. UNCHANGED <<next, goal, sent>> /\ calling' = NoConn
  BY DEF Lifetime, Answering, Restart, Relaunch, Accept, End, CloseI, CloseO, Response,
         Serving, Return, hist
<1>2. AtStart
  BY <1>1, PipelineAssumption DEF AtStart
<1> QED BY <1>1, <1>2, HistorySame

LEMMA AskingHistory == Known /\ Asking => History'
<1> SUFFICES ASSUME Known, Asking PROVE History'
  OBVIOUS
<1>1. ASSUME NEW d, NEW h, NEW m, NEW cb, NEW id, NEW o, Request(d, h, m, cb, id, o)
      PROVE  History'
  <2>1. NewInfo(h, m) /\ sent' = sent
    BY <1>1 DEF Request
  <2>2. calling' = NoConn \/ at' = 1
    BY <1>1 DEF Request, Serving, Call
  <2> QED BY <2>1, <2>2, HistoryNews, PipelineAssumption DEF AtStart
<1>2. ASSUME NEW d, NEW h, NEW m, RequestFail(d, h, m) PROVE History'
  <2>1. NewInfo(h, m) /\ sent' = sent /\ calling' = NoConn
    BY <1>2 DEF RequestFail, Serving
  <2> QED BY <2>1, HistoryNews, PipelineAssumption DEF AtStart
<1>3. ASSUME NEW d \in Conns, NEW h \in Hosts \cup {NoHost}, NEW close \in BOOLEAN,
             AskWeb(d, h, close)
      PROVE  History'
  <2>1. UNCHANGED <<next, goal, sent>> /\ calling' = NoConn
    BY <1>3 DEF AskWeb, Serving, hist
  <2> QED BY <2>1, HistorySame, PipelineAssumption DEF AtStart
<1> QED BY <1>1, <1>2, <1>3
        DEF Asking, Ask, AskConfirm, Submit, AskFail, AskConfirmFail, SubmitFail

LEMMA KnownCorrect == Spec => []Known
<1>1. Init => History
  BY PipelineAssumption DEF Init, History
<1>2. TypeOK /\ Lists /\ Sound /\ History /\ [Next]_vars => History'
  <2>1. History /\ UNCHANGED vars => History'
    BY DEF vars, code, world, hist, History
  <2> QED BY <2>1, CallingHistory, RestHistory, AskingHistory DEF Known, Next
<1> QED BY <1>1, <1>2, TypeCorrect, ListsCorrect, SoundCorrect, PTL DEF Spec, Known

-----------------------------------------------------------------------------
\* MoaiPipeline keeps the promise of RequestQueue: a request is sent on at most
\* once, on the connection it came on and in the order it came, is answered in
\* that order, and is lost only with its connection.
THEOREM QueueHolds == Spec => QueueSpec
<1>1. Init => Queue!Init
  <2> SUFFICES ASSUME Init PROVE Queue!Init
    OBVIOUS
  <2>1. \A c \in Conns : Waiting(c) = <<>> /\ up /\ wire[c] = <<>>
    BY DEF Init, Waiting, Fresh
  <2>2. Free = {} /\ doneBar = {}
    BY PipelineAssumption DEF Init, Free, doneBar
  <2> QED BY <2>1, <2>2 DEF Queue!Init, queueBar, flightBar
<1>2. Known /\ [Next]_vars => [Queue!Next]_(Queue!vars)
  <2>1. UNCHANGED vars => UNCHANGED Queue!vars
    BY DEF vars, code, world, hist, Queue!vars, queueBar, flightBar, doneBar, Free,
           Waiting
  <2> QED BY <2>1, LifetimeQueue, AskingQueue, CallingQueue, AnsweringQueue
          DEF Next, Promise
<1> QED BY <1>1, <1>2, KnownCorrect, PTL DEF Spec, QueueSpec, Queue!Spec
=============================================================================
