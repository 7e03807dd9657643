-------------------------- MODULE MoaiTunnel_proofs --------------------------
(***************************************************************************)
(* Proofs about the registry of MoaiPipeline: the MoaiInfo of a request is *)
(* there as long as a connection lists it, and a tunnel that no parent     *)
(* proxy takes part in is recognised, for any number of connections, hosts *)
(* and requests.                                                           *)
(*                                                                         *)
(* Both come from one invariant, Sound.  A MoaiInfo is erased with the     *)
(* connection that has invoked it; that this takes it away from nobody     *)
(* else is Apart: two connections list the same id only if its POST was    *)
(* put before the user, who may send it over another connection.           *)
(***************************************************************************)
EXTENDS MoaiPipeline_proofs

Held(c)      == Listed(conn[c].pend) \cup Listed(conn[c].inv)
OwnTunnel(h) == h \in TunnelHosts \ ParentHosts
Issued(c)    == Held(c) \subseteq 1..next
LastInv(c)   == conn[c].inv[Len(conn[c].inv)]

ShownGoals == \A id \in shown : goal[id] \in ConfirmHosts

Apart == \A c, d \in Conns : c # d => Held(c) \cap Held(d) \subseteq shown

\* The method of a request says whether it asks for a tunnel, unless the parent
\* proxy was asked.
Noted(c) == \A id \in Held(c) \ shown :
  /\ method[id] # "none"
  /\ OwnTunnel(goal[id]) => method[id] = "CONNECT"

\* The callback fits the host, and what was invoked last made the tunnel.
Tunnelled(c) ==
  /\ conn[c].O # "none" /\ conn[c].cb = "CONNECT" => conn[c].host \in TunnelHosts
  /\ tunnel[c] => /\ conn[c].O # "connecting"
                  /\ calling = c => conn[c].cb = "CONNECT"
                  /\ conn[c].host \notin ParentHosts =>
                       /\ conn[c].inv # <<>> /\ LastInv(c) \notin shown
                       /\ OwnTunnel(goal[LastInv(c)])

Sound == /\ ShownGoals /\ Apart
         /\ \A c \in Conns : Issued(c) /\ Tunnelled(c)
         /\ up => \A c \in Conns : Noted(c)

\* A page is only shown for a new request, which is for a host of post_confirm.
News == /\ Grows
        /\ \A id \in shown' \ shown : id \notin 1..next /\ goal'[id] \in ConfirmHosts

-----------------------------------------------------------------------------
\* Lists of ids

LEMMA LastListed ==
  ASSUME NEW q \in Seq(Ids), q # <<>>
  PROVE  q[Len(q)] \in Listed(q)
<1>1. Len(q) \in DOMAIN q
  OBVIOUS
<1> QED BY <1>1 DEF Listed

\* Invoking an id that is pending lists nothing new.
LEMMA HeldInvoked ==
  ASSUME TypeOK, NEW d \in Conns, at <= Len(conn[d].pend),
         conn'[d].pend = conn[d].pend,
         conn'[d].inv = Append(conn[d].inv, conn[d].pend[at])
  PROVE  Held(d)' = Held(d) /\ conn[d].pend[at] \in Held(d)
<1>1. conn[d].pend \in Seq(Ids) /\ conn[d].inv \in Seq(Ids) /\ at \in Nat \ {0}
  BY DEF TypeOK, Conn
<1>2. at \in DOMAIN conn[d].pend
  BY <1>1
<1>3. conn[d].pend[at] \in Listed(conn[d].pend) /\ conn[d].pend[at] \in Ids
  BY <1>1, <1>2 DEF Listed
<1>4. Listed(conn'[d].inv) = Listed(conn[d].inv) \cup {conn[d].pend[at]}
  BY <1>1, <1>3, ListedAppend
<1> QED BY <1>3, <1>4 DEF Held

-----------------------------------------------------------------------------
(***************************************************************************)
(* What a step may do to Sound: ids disappear from the lists of d, and new *)
(* ones (S) may come.                                                      *)
(***************************************************************************)

LEMMA HeldStep ==
  ASSUME Sound, News, NEW d \in Conns, NEW S, S \subseteq 1..next',
         \A id \in S : id \in shown' \/ id \notin 1..next,
         \A c \in Conns \ {d} : Held(c)' \subseteq Held(c),
         Held(d)' \subseteq Held(d) \cup S,
         shown \subseteq 1..next
  PROVE  /\ ShownGoals' /\ Apart' /\ \A c \in Conns : Issued(c)'
         /\ \A c \in Conns : \A id \in Held(c)' \ shown' :
              id \in Held(c) \ shown \/ (c = d /\ id \in S \ 1..next)
<1>1. shown \subseteq shown' /\ 1..next \subseteq 1..next'
  BY DEF News, Grows
<1>2. ShownGoals'
  <2>1. \A id \in shown : goal'[id] = goal[id]
    BY DEF News, Grows
  <2> QED BY <2>1 DEF Sound, ShownGoals, News
<1>3. \A c \in Conns : Held(c) \subseteq 1..next
  BY DEF Sound, Issued
<1>4. \A c \in Conns : Issued(c)'
  BY <1>1, <1>3 DEF Issued
<1>5. \A c \in Conns : \A id \in Held(c)' \ shown' :
        id \in Held(c) \ shown \/ (c = d /\ id \in S \ 1..next)
  BY <1>1
<1>6. Apart'
  <2> SUFFICES ASSUME NEW a \in Conns, NEW b \in Conns, a # b,
                      NEW id \in Held(a)' \cap Held(b)', id \notin shown'
               PROVE  FALSE
    BY DEF Apart
  <2>1. id \in Held(a) \ shown \/ (a = d /\ id \in S \ 1..next)
    BY <1>5
  <2>2. id \in Held(b) \ shown \/ (b = d /\ id \in S \ 1..next)
    BY <1>5
  <2> QED BY <2>1, <2>2, <1>3 DEF Sound, Apart
<1> QED BY <1>2, <1>4, <1>5, <1>6

\* The method of an id that is held stays, or the parent proxy is asked.
Marked(id) == \/ method'[id] = method[id]
              \/ method'[id] = "Unknown" /\ ~OwnTunnel(goal[id])

LEMMA NotedStep ==
  ASSUME Sound, News, up' => up, NEW c \in Conns, NEW id \in Held(c) \ shown,
         up' => Marked(id), up'
  PROVE  method'[id] # "none" /\ (OwnTunnel(goal'[id]) => method'[id] = "CONNECT")
<1>1. Noted(c) /\ id \in 1..next
  BY DEF Sound, Issued
<1>2. goal'[id] = goal[id]
  BY <1>1 DEF News, Grows
<1> QED BY <1>1, <1>2 DEF Noted, Marked

\* A tunnel stays one as long as list, host and callback stay.
LEMMA TunnelledKept ==
  ASSUME TypeOK, Sound, News, NEW c \in Conns,
         conn'[c].inv = conn[c].inv, conn'[c].host = conn[c].host,
         conn'[c].cb = conn[c].cb,
         \/ conn'[c].O = conn[c].O \/ conn'[c].O = "none"
         \/ conn[c].O = "connecting" /\ conn'[c].O = "up",
         tunnel'[c] => tunnel[c],
         calling' = c => calling = c \/ conn[c].O = "connecting"
  PROVE  Tunnelled(c)'
<1>1. Tunnelled(c) /\ Issued(c)
  BY DEF Sound
<1>2. conn'[c].O # "none" /\ conn'[c].cb = "CONNECT" => conn'[c].host \in TunnelHosts
  BY <1>1 DEF Tunnelled
<1>3. ASSUME tunnel'[c]
      PROVE  conn'[c].O # "connecting" /\ (calling' = c => conn'[c].cb = "CONNECT")
  BY <1>1, <1>3 DEF Tunnelled
<1>4. ASSUME tunnel'[c], conn'[c].host \notin ParentHosts
      PROVE  /\ conn'[c].inv # <<>> /\ LastInv(c)' \notin shown'
             /\ OwnTunnel(goal'[LastInv(c)'])
  <2>1. /\ conn[c].inv # <<>> /\ LastInv(c) \notin shown /\ OwnTunnel(goal[LastInv(c)])
    BY <1>1, <1>4 DEF Tunnelled
  <2>2. LastInv(c)' = LastInv(c)
    BY DEF LastInv
  <2>3. LastInv(c) \in 1..next
    BY <1>1, <2>1, LastListed DEF LastInv, Issued, Held, TypeOK, Conn
  <2>4. goal'[LastInv(c)] = goal[LastInv(c)] /\ LastInv(c) \notin shown'
    BY <2>1, <2>3 DEF News, Grows
  <2> QED BY <2>1, <2>2, <2>4
<1> QED BY <1>2, <1>3, <1>4 DEF Tunnelled, OwnTunnel

LEMMA TunnelledNot ==
  ASSUME NEW c \in Conns, ~tunnel'[c],
         conn'[c].O # "none" /\ conn'[c].cb = "CONNECT" => conn'[c].host \in TunnelHosts
  PROVE  Tunnelled(c)'
BY DEF Tunnelled

\* The step works on the record of d.
Works(d) == \A c \in Conns \ {d} : /\ conn'[c] = conn[c] /\ tunnel'[c] = tunnel[c]
                                   /\ (calling' = c => calling = c)

LEMMA OthersTunnelled ==
  ASSUME TypeOK, Sound, News, NEW d \in Conns, Works(d), NEW c \in Conns \ {d}
  PROVE  Tunnelled(c)' /\ Held(c)' = Held(c)
<1>1. conn'[c] = conn[c] /\ tunnel'[c] = tunnel[c] /\ (calling' = c => calling = c)
  BY DEF Works
<1> QED BY <1>1, TunnelledKept DEF Held

\* Steps that bring no new id
LEMMA SoundOne ==
  ASSUME TypeOK, Lists, Sound, UNCHANGED <<shown, next, goal>>, up' => up,
         NEW d \in Conns, Works(d), Held(d)' \subseteq Held(d), Tunnelled(d)',
         up' => \A c \in Conns : \A id \in (Held(c) \cap Held(c)') \ shown : Marked(id)
  PROVE  Sound'
<1>1. News
  BY PipelineAssumption DEF News, Grows, TypeOK
<1>2. \A c \in Conns \ {d} : Tunnelled(c)' /\ Held(c)' = Held(c)
  BY <1>1, OthersTunnelled
<1>3. /\ ShownGoals' /\ Apart' /\ \A c \in Conns : Issued(c)'
      /\ \A c \in Conns : \A id \in Held(c)' \ shown' : id \in Held(c) \ shown
  <2>1. shown \subseteq 1..next
    BY DEF Lists
  <2>2. /\ ShownGoals' /\ Apart' /\ \A c \in Conns : Issued(c)'
        /\ \A c \in Conns : \A id \in Held(c)' \ shown' :
             id \in Held(c) \ shown \/ (c = d /\ id \in {} \ 1..next)
    BY <1>1, <1>2, <2>1, HeldStep
  <2> QED BY <2>2
<1>4. ASSUME up', NEW c \in Conns PROVE Noted(c)'
  BY <1>1, <1>3, <1>4, NotedStep DEF Noted
<1> QED BY <1>2, <1>3, <1>4 DEF Sound

LEMMA SoundEmpty ==
  ASSUME Sound, UNCHANGED <<shown, goal>>,
         \A c \in Conns : conn'[c].pend = <<>> /\ conn'[c].inv = <<>>,
         \A c \in Conns : conn'[c].O = "none" /\ ~tunnel'[c]
  PROVE  Sound'
<1>1. \A c \in Conns : Held(c)' = {}
  BY ListedEmpty DEF Held
<1> QED BY <1>1 DEF Sound, ShownGoals, Apart, Issued, Noted, Tunnelled

LEMMA SoundInit == Init => Sound
BY ListedEmpty DEF Init, Sound, ShownGoals, Apart, Issued, Noted, Tunnelled, Held, Fresh

\* A record goes, with the MoaiInfos it has invoked: the others keep theirs.
LEMMA SoundCleared ==
  ASSUME TypeOK, Lists, Sound, UNCHANGED <<shown, next, goal>>, up' => up,
         NEW d \in Conns, Works(d), Forget(Listed(conn[d].inv)),
         conn'[d].pend = <<>>, conn'[d].inv = <<>>,
         conn'[d].O = "none", ~tunnel'[d]
  PROVE  Sound'
<1>1. Held(d)' = {}
  BY ListedEmpty DEF Held
<1>2. Tunnelled(d)'
  BY TunnelledNot
<1>3. ASSUME NEW c \in Conns, NEW id \in (Held(c) \cap Held(c)') \ shown
      PROVE  Marked(id)
  <2>1. c # d
    BY <1>1, <1>3
  <2>2. id \notin Held(d)
    BY <1>3, <2>1 DEF Sound, Apart
  <2>3. id \in Ids
    <3>1. id \in 1..next
      BY <1>3 DEF Sound, Issued
    <3> QED BY <3>1, PipelineAssumption DEF TypeOK, Ids
  <2>4. id \notin Listed(conn[d].inv)
    BY <2>2 DEF Held
  <2>5. method'[id] = method[id]
    BY <2>3, <2>4 DEF Forget
  <2> QED BY <2>5 DEF Marked
<1> QED BY <1>1, <1>2, <1>3, SoundOne

LEMMA LifetimeSound == TypeOK /\ Lists /\ Sound /\ Lifetime => Sound'
<1> SUFFICES ASSUME TypeOK, Lists, Sound, Lifetime PROVE Sound'
  OBVIOUS
<1> USE DEF hist
<1>1. CASE Restart
  <2>1. \A c \in Conns : /\ conn'[c].pend = <<>> /\ conn'[c].inv = <<>>
                         /\ conn'[c].O = "none" /\ ~tunnel'[c]
    BY <1>1 DEF Restart, Cleared, Fresh
  <2> QED BY <1>1, <2>1, SoundEmpty DEF Restart
<1>2. CASE Relaunch
  <2>1. \A c \in Conns : /\ conn'[c].pend = <<>> /\ conn'[c].inv = <<>>
                         /\ conn'[c].O = "none" /\ ~tunnel'[c]
    BY <1>2 DEF Relaunch, Fresh
  <2> QED BY <1>2, <2>1, SoundEmpty DEF Relaunch
<1>3. ASSUME NEW d \in Conns, Accept(d) PROVE Sound'
  <2>1. /\ conn'[d].pend = <<>> /\ conn'[d].inv = <<>>
        /\ conn'[d].O = "none" /\ ~tunnel'[d]
    BY <1>3 DEF Accept, CutOff, Cleared, Fresh, TypeOK
  <2>2. Works(d)
    BY <1>3 DEF Works, Accept, CutOff, TypeOK
  <2>3. UNCHANGED <<shown, next, goal, up>> /\ Forget(Listed(conn[d].inv))
    BY <1>3 DEF Accept
  <2> QED BY <2>1, <2>2, <2>3, SoundCleared
<1>4. ASSUME NEW d \in Conns, End(d) PROVE Sound'
  <2>1. /\ conn'[d].pend = <<>> /\ conn'[d].inv = <<>>
        /\ conn'[d].O = "none" /\ ~tunnel'[d]
    BY <1>4 DEF End, CutOff, Fresh, TypeOK
  <2>2. Works(d)
    BY <1>4 DEF Works, End, CutOff, TypeOK
  <2>3. UNCHANGED <<shown, next, goal, up>> /\ Forget(Listed(conn[d].inv))
    BY <1>4 DEF End
  <2> QED BY <2>1, <2>2, <2>3, SoundCleared
<1>n. ASSUME UNCHANGED <<shown, next, goal>> PROVE News
  BY <1>n, PipelineAssumption DEF News, Grows, TypeOK
<1>5. ASSUME NEW d \in Conns, CloseI(d) PROVE Sound'
  <2>1. conn' = [conn EXCEPT ![d] = [conn[d] EXCEPT !.I = FALSE]]
    BY <1>5 DEF CloseI
  <2>2. /\ conn'[d].pend = conn[d].pend /\ conn'[d].inv = conn[d].inv
        /\ conn'[d].O = conn[d].O /\ conn'[d].cb = conn[d].cb
        /\ conn'[d].host = conn[d].host
    BY <2>1 DEF TypeOK, Conn
  <2>3. UNCHANGED <<shown, next, goal, calling, up, method>> /\ ~tunnel'[d]
    BY <1>5 DEF CloseI, TypeOK
  <2>4. Works(d)
    BY <1>5, <2>1 DEF CloseI, Works, TypeOK
  <2>5. Tunnelled(d)'
    BY <1>n, <2>2, <2>3, TunnelledKept
  <2> QED BY <2>2, <2>3, <2>4, <2>5, SoundOne DEF Held, Marked
<1>6. ASSUME NEW d \in Conns, CloseO(d) PROVE Sound'
  <2>1. conn' = [conn EXCEPT ![d] = [conn[d] EXCEPT !.O = "none"]]
    BY <1>6 DEF CloseO
  <2>2. /\ conn'[d].pend = conn[d].pend /\ conn'[d].inv = conn[d].inv
        /\ conn'[d].O = "none" /\ conn'[d].cb = conn[d].cb
        /\ conn'[d].host = conn[d].host
    BY <2>1 DEF TypeOK, Conn
  <2>3. UNCHANGED <<shown, next, goal, calling, up, method, tunnel>>
    BY <1>6 DEF CloseO
  <2>4. Works(d)
    BY <2>1, <2>3 DEF Works, TypeOK
  <2>5. Tunnelled(d)'
    BY <1>n, <2>2, <2>3, TunnelledKept
  <2> QED BY <2>2, <2>3, <2>4, <2>5, SoundOne DEF Held, Marked
<1> QED BY <1>1, <1>2, <1>3, <1>4, <1>5, <1>6 DEF Lifetime

LEMMA AnsweringSound == TypeOK /\ Lists /\ Sound /\ Answering => Sound'
<1> SUFFICES ASSUME TypeOK, Lists, Sound, NEW d \in Conns, NEW extra \in BOOLEAN,
                    Response(d, extra)
             PROVE  Sound'
  BY DEF Answering
<1>1. conn' = [conn EXCEPT ![d] = [conn[d] EXCEPT !.ridx = @ + 1]]
  BY DEF Response
<1>2. /\ conn'[d].pend = conn[d].pend /\ conn'[d].inv = conn[d].inv
      /\ conn'[d].O = conn[d].O /\ conn'[d].cb = conn[d].cb
      /\ conn'[d].host = conn[d].host
  BY <1>1 DEF TypeOK, Conn
<1>3. UNCHANGED <<shown, next, goal, calling, up, method, tunnel>>
  BY DEF Response, hist
<1>4. Works(d)
  BY <1>1, <1>3 DEF Works, TypeOK
<1>5. News
  BY <1>3, PipelineAssumption DEF News, Grows, TypeOK
<1>6. Tunnelled(d)'
  BY <1>2, <1>3, <1>5, TunnelledKept
<1> QED BY <1>2, <1>3, <1>4, <1>6, SoundOne DEF Held, Marked
-----------------------------------------------------------------------------
\* The callback.  The parent proxy is only asked for hosts that are reached
\* through it, so a MoaiInfo that loses its method is not that of an OwnTunnel.
LEMMA MethodAfterMarks ==
  ASSUME TypeOK, Lists, NEW d \in Conns, calling = d, at <= Len(conn[d].pend),
         method' = MethodAfter(d), NEW id
  PROVE  Marked(id)
<1>1. at \in DOMAIN conn[d].pend /\ conn[d].pend \in Seq(Ids)
  BY DEF TypeOK, Conn
<1>2. conn[d].pend[at] \in Listed(conn[d].pend) /\ conn[d].pend[at] \in Ids
  BY <1>1 DEF Listed
<1>3. goal[conn[d].pend[at]] = conn[d].host
  BY <1>2 DEF Lists, Good
<1>4. CASE conn[d].host \in ParentHosts
  <2>1. method' = [method EXCEPT ![conn[d].pend[at]] = "Unknown"]
    BY <1>4 DEF MethodAfter
  <2>2. ~OwnTunnel(goal[conn[d].pend[at]])
    BY <1>3, <1>4 DEF OwnTunnel
  <2>3. CASE id = conn[d].pend[at]
    BY <2>1, <2>2, <2>3, <1>2 DEF Marked, TypeOK
  <2>4. CASE id # conn[d].pend[at]
    BY <2>1, <2>4 DEF Marked, TypeOK
  <2> QED BY <2>3, <2>4
<1>5. CASE conn[d].host \notin ParentHosts
  BY <1>5 DEF MethodAfter, Marked
<1> QED BY <1>4, <1>5

\* The browser was told that the tunnel is there: what was invoked last is the
\* CONNECT for it.
LEMMA ConnectTunnelled ==
  ASSUME TypeOK, Lists, Sound, NEW d \in Conns, NEW ok \in BOOLEAN, InvokeConnect(d, ok)
  PROVE  Tunnelled(d)'
<1> DEFINE id == conn[d].pend[at]
<1>1. /\ conn[d] \in Conn /\ Good(d) /\ Tunnelled(d) /\ calling = d
      /\ conn[d].cb = "CONNECT" /\ at <= Len(conn[d].pend)
  BY DEF InvokeConnect, Invoking, TypeOK, Lists, Sound
<1>2. conn' = [conn EXCEPT ![d] = [conn[d] EXCEPT !.inv = Append(@, id)]]
  BY DEF InvokeConnect
<1>3. /\ conn'[d].inv = Append(conn[d].inv, id) /\ conn'[d].O = conn[d].O
      /\ conn'[d].cb = conn[d].cb /\ conn'[d].host = conn[d].host
  BY <1>1, <1>2 DEF TypeOK, Conn
<1>4. UNCHANGED <<shown, goal>>
  BY DEF InvokeConnect
<1>5. conn[d].O = "up" /\ conn[d].host \in TunnelHosts
  BY <1>1 DEF Good, Tunnelled
<1>6. id \in Listed(conn[d].pend)
  BY <1>1 DEF Listed, TypeOK, Conn
<1>7. goal[id] = conn[d].host
  BY <1>1, <1>5, <1>6 DEF Good
<1>8. id \notin shown
  BY <1>5, <1>7, PipelineAssumption DEF Sound, ShownGoals
<1> HIDE DEF id
<1>9. LastInv(d)' = id /\ conn'[d].inv # <<>>
  <2>1. conn[d].inv \in Seq(Ids)
    BY <1>1 DEF Conn
  <2>2. Len(Append(conn[d].inv, id)) = Len(conn[d].inv) + 1
    BY <2>1
  <2>3. Append(conn[d].inv, id)[Len(conn[d].inv) + 1] = id
    BY <2>1
  <2>4. Append(conn[d].inv, id) # <<>>
    BY <2>1
  <2> QED BY <1>3, <2>2, <2>3, <2>4 DEF LastInv
<1> QED BY <1>1, <1>3, <1>4, <1>5, <1>7, <1>8, <1>9 DEF Tunnelled, OwnTunnel

LEMMA CallingSound == TypeOK /\ Lists /\ Sound /\ Calling => Sound'
<1> SUFFICES ASSUME TypeOK, Lists, Sound, NEW d \in Conns,
                    \/ ConnectDone(d) \/ InvokeNull(d) \/ InvokeSend(d)
                    \/ InvokeFail(d) \/ InvokeProxyFail(d) \/ InvokeStale(d)
                    \/ InvokeEnd(d) \/ \E ok \in BOOLEAN : InvokeConnect(d, ok)
             PROVE  Sound'
  BY DEF Calling
<1> USE DEF world, hist
<1>c. \A c \in Conns : c # NoConn
  BY PipelineAssumption
<1>n. ASSUME UNCHANGED <<shown, next, goal>> PROVE News
  BY <1>n, PipelineAssumption DEF News, Grows, TypeOK
<1>d. conn[d] \in Conn /\ Tunnelled(d)
  BY DEF TypeOK, Sound
<1>1. CASE ConnectDone(d)
  <2>1. conn' = [conn EXCEPT ![d] = [conn[d] EXCEPT !.O = "up"]] /\ conn[d].O = "connecting"
    BY <1>1 DEF ConnectDone
  <2>2. /\ conn'[d].pend = conn[d].pend /\ conn'[d].inv = conn[d].inv
        /\ conn'[d].O = "up" /\ conn'[d].cb = conn[d].cb
        /\ conn'[d].host = conn[d].host
    BY <1>d, <2>1 DEF TypeOK, Conn
  <2>3. UNCHANGED <<shown, next, goal, up, method, tunnel>> /\ calling' = d
    BY <1>1 DEF ConnectDone, Call
  <2>4. Works(d)
    BY <2>1, <2>3 DEF Works, TypeOK
  <2>5. Tunnelled(d)'
    BY <1>n, <2>1, <2>2, <2>3, TunnelledKept
  <2> QED BY <2>2, <2>3, <2>4, <2>5, SoundOne DEF Held, Marked
<1>2. CASE InvokeNull(d)
  <2>1. UNCHANGED <<conn, shown, next, goal, up, method, tunnel>> /\ calling' = NoConn
    BY <1>2 DEF InvokeNull, Return
  <2>2. Works(d)
    BY <1>c, <2>1 DEF Works
  <2>3. Tunnelled(d)'
    BY <1>c, <1>n, <2>1, TunnelledKept
  <2> QED BY <2>1, <2>2, <2>3, SoundOne DEF Held, Marked
<1>3. CASE InvokeSend(d)
  <2>1. conn' = [conn EXCEPT ![d] = [conn[d] EXCEPT !.inv = Append(@, conn[d].pend[at])]]
    BY <1>3 DEF InvokeSend
  <2>2. /\ conn'[d].pend = conn[d].pend /\ conn'[d].cb = conn[d].cb
        /\ conn'[d].inv = Append(conn[d].inv, conn[d].pend[at])
    BY <1>d, <2>1 DEF TypeOK, Conn
  <2>3. /\ UNCHANGED <<shown, next, goal, calling, up, method, tunnel>>
        /\ calling = d /\ conn[d].cb # "CONNECT" /\ at <= Len(conn[d].pend)
    BY <1>3 DEF InvokeSend, Invoking
  <2>4. Works(d)
    BY <2>1, <2>3 DEF Works, TypeOK
  <2>5. ~tunnel'[d]
    BY <1>d, <2>3 DEF Tunnelled
  <2>6. Tunnelled(d)'
    BY <2>2, <2>3, <2>5, TunnelledNot
  <2>7. Held(d)' = Held(d)
    BY <2>2, <2>3, HeldInvoked
  <2> QED BY <2>3, <2>4, <2>6, <2>7, SoundOne DEF Marked
<1>4. ASSUME NEW ok \in BOOLEAN, InvokeConnect(d, ok) PROVE Sound'
  <2>1. conn' = [conn EXCEPT ![d] = [conn[d] EXCEPT !.inv = Append(@, conn[d].pend[at])]]
    BY <1>4 DEF InvokeConnect
  <2>2. /\ conn'[d].pend = conn[d].pend
        /\ conn'[d].inv = Append(conn[d].inv, conn[d].pend[at])
    BY <1>d, <2>1 DEF TypeOK, Conn
  <2>3. /\ UNCHANGED <<shown, next, goal, calling, up>> /\ method' = MethodAfter(d)
        /\ calling = d /\ at <= Len(conn[d].pend)
        /\ tunnel' = [tunnel EXCEPT ![d] = ok]
    BY <1>4 DEF InvokeConnect, Invoking
  <2>4. Works(d)
    BY <2>1, <2>3 DEF Works, TypeOK
  <2>5. Held(d)' = Held(d)
    BY <2>2, <2>3, HeldInvoked
  <2>6. Tunnelled(d)'
    BY <1>4, ConnectTunnelled
  <2>7. \A id : Marked(id)
    BY <2>3, MethodAfterMarks
  <2> QED BY <2>3, <2>4, <2>5, <2>6, <2>7, SoundOne
<1>5. CASE InvokeFail(d)
  <2>1. /\ conn'[d].pend = <<>> /\ conn'[d].inv = <<>>
        /\ conn'[d].O = "none" /\ ~tunnel'[d]
    BY <1>5 DEF InvokeFail, CutOff, Fresh, TypeOK
  <2>2. Works(d)
    BY <1>5, <1>c DEF Works, InvokeFail, CutOff, Return, TypeOK
  <2>3. UNCHANGED <<shown, next, goal, up>> /\ Forget(Listed(conn[d].inv))
    BY <1>5 DEF InvokeFail
  <2> QED BY <2>1, <2>2, <2>3, SoundCleared
<1>6. CASE InvokeProxyFail(d)
  <2>1. conn' = [conn EXCEPT ![d] = [conn[d] EXCEPT !.O = "none"]]
    BY <1>6 DEF InvokeProxyFail
  <2>2. /\ conn'[d].pend = conn[d].pend /\ conn'[d].inv = conn[d].inv
        /\ conn'[d].O = "none" /\ conn'[d].cb = conn[d].cb
        /\ conn'[d].host = conn[d].host
    BY <1>d, <2>1 DEF TypeOK, Conn
  <2>3. /\ UNCHANGED <<shown, next, goal, up, tunnel>> /\ method' = MethodAfter(d)
        /\ calling = d /\ at <= Len(conn[d].pend) /\ calling' = NoConn
    BY <1>6 DEF InvokeProxyFail, Invoking, Return
  <2>4. Works(d)
    BY <1>c, <2>1, <2>3 DEF Works, TypeOK
  <2>5. Tunnelled(d)'
    BY <1>c, <1>n, <2>2, <2>3, TunnelledKept
  <2>6. \A id : Marked(id)
    BY <2>3, MethodAfterMarks
  <2>7. Held(d)' = Held(d)
    BY <2>2 DEF Held
  <2> QED BY <2>3, <2>4, <2>5, <2>6, <2>7, SoundOne
<1>7. CASE InvokeStale(d)
  <2>1. UNCHANGED <<conn, shown, next, goal, calling, tunnel>> /\ ~up'
    BY <1>7 DEF InvokeStale
  <2>2. Works(d)
    BY <2>1 DEF Works
  <2>3. Tunnelled(d)'
    BY <1>n, <2>1, TunnelledKept
  <2> QED BY <2>1, <2>2, <2>3, SoundOne DEF Held
<1>8. CASE InvokeEnd(d)
  <2>1. conn' = [conn EXCEPT ![d] = Emptied(conn[d])]
    BY <1>8 DEF InvokeEnd
  <2>2. /\ conn'[d].pend = <<>> /\ conn'[d].inv = conn[d].inv
        /\ conn'[d].O = conn[d].O /\ conn'[d].cb = conn[d].cb
        /\ conn'[d].host = conn[d].host
    BY <1>d, <2>1 DEF Emptied, TypeOK, Conn
  <2>3. UNCHANGED <<shown, next, goal, up, method, tunnel>> /\ calling' = NoConn
    BY <1>8 DEF InvokeEnd, Kept, Return
  <2>4. Works(d)
    BY <1>c, <2>1, <2>3 DEF Works, TypeOK
  <2>5. Tunnelled(d)'
    BY <1>c, <1>n, <2>2, <2>3, TunnelledKept
  <2>6. Held(d)' \subseteq Held(d)
    BY <2>2, ListedEmpty DEF Held
  <2> QED BY <2>3, <2>4, <2>5, <2>6, SoundOne DEF Marked
<1> QED BY <1>1, <1>2, <1>3, <1>4, <1>5, <1>6, <1>7, <1>8
-----------------------------------------------------------------------------
\* Requests.  The new id is held by nobody, and its MoaiInfo is there.

\* A step that registers a request: the other MoaiInfos stay.
LEMMA NewInfoNews ==
  ASSUME TypeOK, Lists, NEW h, NEW m, NewInfo(h, m), shown \subseteq shown',
         shown' \subseteq shown \cup {next + 1}, next + 1 \in shown' => h \in ConfirmHosts
  PROVE  /\ News /\ next' = next + 1 /\ goal'[next + 1] = h /\ next + 1 \notin 1..next
         /\ method'[next + 1] = m /\ \A id \in 1..next : method'[id] = method[id]
<1>1. Grows /\ next' = next + 1 /\ goal'[next + 1] = h
  BY RequestGrows
<1>2. next \in Nat /\ next < MaxReq /\ next + 1 \in Ids /\ next + 1 \notin 1..next
  BY PipelineAssumption DEF TypeOK, NewInfo, Ids
<1>3. method'[next + 1] = m /\ \A id \in 1..next : method'[id] = method[id]
  BY <1>2 DEF NewInfo, TypeOK
<1>4. News
  BY <1>1, <1>2 DEF News
<1> QED BY <1>1, <1>2, <1>3, <1>4

LEMMA RequestSound ==
  ASSUME TypeOK, Lists, Sound, NEW d \in Conns, NEW h \in Hosts, NEW m \in Methods,
         NEW cb \in Methods \cup {"none"}, NEW id \in Ids, NEW o \in {"connecting", "up"},
         Request(d, h, m, cb, id, o),
         shown \subseteq shown', shown' \subseteq shown \cup {next + 1},
         next + 1 \in shown' => h \in ConfirmHosts,
         id \in 1..next', id \in shown' \/ id = next + 1,
         cb = "CONNECT" => h \in TunnelHosts, h \in TunnelHosts => m = "CONNECT"
  PROVE  Sound'
<1> DEFINE r == Recycled(conn[d], h)
           q == Connected(r, o)
<1>d. conn[d] \in Conn /\ d # NoConn /\ NewInfo(h, m)
  BY PipelineAssumption DEF TypeOK, Request
<1>1. /\ News /\ next' = next + 1 /\ goal'[next + 1] = h /\ next + 1 \notin 1..next
      /\ method'[next + 1] = m /\ \A i \in 1..next : method'[i] = method[i]
  BY <1>d, NewInfoNews
<1>2. q \in Conn /\ r \in Conn
  BY <1>d, RequestType DEF OStates
<1>3. r.inv = conn[d].inv /\ r.pend = conn[d].pend /\ r.host = h
  BY <1>d DEF Recycled, Conn
<1>4. /\ q.inv = conn[d].inv /\ Listed(q.pend) \subseteq Listed(conn[d].pend)
      /\ q.host = h
  BY <1>2, <1>3, ListedEmpty DEF Connected, Conn
<1>5. conn' = [conn EXCEPT ![d] = Pushed(q, cb, id)]
  BY DEF Request
<1> HIDE DEF q, r
<1>6. /\ conn'[d].pend = Append(q.pend, id) /\ conn'[d].inv = q.inv
      /\ conn'[d].cb = cb /\ conn'[d].host = q.host
  BY <1>2, <1>5 DEF Pushed, TypeOK, Conn
<1>7. Held(d)' \subseteq Held(d) \cup {id}
  <2>1. q.pend \in Seq(Ids)
    BY <1>2 DEF Conn
  <2>2. Listed(conn'[d].pend) = Listed(q.pend) \cup {id}
    BY <1>6, <2>1, ListedAppend
  <2> QED BY <1>4, <1>6, <2>2 DEF Held
<1>8. /\ ~tunnel[d] /\ UNCHANGED <<tunnel, up>> /\ calling = NoConn
      /\ calling' \in {d, calling}
  BY DEF Request, Serving, Call
<1>9. Works(d)
  BY <1>5, <1>8, PipelineAssumption DEF Works, TypeOK
<1>10. \A c \in Conns \ {d} : Tunnelled(c)' /\ Held(c)' = Held(c)
  BY <1>1, <1>9, OthersTunnelled
<1>11. Tunnelled(d)'
  BY <1>4, <1>6, <1>8, TunnelledNot
<1>12. /\ ShownGoals' /\ Apart' /\ \A c \in Conns : Issued(c)'
       /\ \A c \in Conns : \A i \in Held(c)' \ shown' :
            i \in Held(c) \ shown \/ (c = d /\ i \in {id} \ 1..next)
  <2>1. shown \subseteq 1..next
    BY DEF Lists
  <2> DEFINE S == {id}
  <2>2. S \subseteq 1..next' /\ \A i \in S : i \in shown' \/ i \notin 1..next
    BY <1>1
  <2>3. \A c \in Conns \ {d} : Held(c)' \subseteq Held(c)
    BY <1>10
  <2>4. News /\ Held(d)' \subseteq Held(d) \cup S
    BY <1>1, <1>7
  <2> HIDE DEF S
  <2>5. /\ ShownGoals' /\ Apart' /\ \A c \in Conns : Issued(c)'
        /\ \A c \in Conns : \A i \in Held(c)' \ shown' :
             i \in Held(c) \ shown \/ (c = d /\ i \in S \ 1..next)
    BY <2>1, <2>2, <2>3, <2>4, HeldStep
  <2> QED BY <2>5 DEF S
<1>13. ASSUME up', NEW c \in Conns PROVE Noted(c)'
  <2> SUFFICES ASSUME NEW i \in Held(c)' \ shown'
               PROVE  /\ method'[i] # "none"
                      /\ OwnTunnel(goal'[i]) => method'[i] = "CONNECT"
    BY DEF Noted, OwnTunnel
  <2>1. CASE i \in Held(c) \ shown
    <3>1. i \in 1..next
      BY <2>1 DEF Sound, Issued
    <3>2. Marked(i)
      BY <1>1, <3>1 DEF Marked
    <3> QED BY <1>1, <1>8, <1>13, <2>1, <3>2, NotedStep
  <2>2. CASE i = next + 1
    BY <1>1, <2>2 DEF OwnTunnel, Methods
  <2>3. i \in Held(c) \ shown \/ i = next + 1
    BY <1>1, <1>12
  <2> QED BY <2>1, <2>2, <2>3
<1> QED BY <1>10, <1>11, <1>12, <1>13 DEF Sound

LEMMA RequestFailSound ==
  ASSUME TypeOK, Lists, Sound, NEW d \in Conns, NEW h \in Hosts, NEW m \in Methods,
         RequestFail(d, h, m),
         shown \subseteq shown', shown' \subseteq shown \cup {next + 1},
         next + 1 \in shown' => h \in ConfirmHosts
  PROVE  Sound'
<1> DEFINE r == Recycled(conn[d], h)
           q == Connected(r, "none")
<1>d. conn[d] \in Conn /\ NewInfo(h, m) /\ CutOff(d) /\ r.O = "none"
  BY DEF TypeOK, RequestFail
<1>1. News /\ \A i \in 1..next : method'[i] = method[i]
  BY <1>d, NewInfoNews
<1>2. q \in Conn /\ r \in Conn
  BY <1>d, RequestType DEF OStates
<1>3. r.inv = conn[d].inv
  BY <1>d DEF Recycled, Conn
<1>4. q.inv = conn[d].inv /\ q.pend = <<>> /\ q.O = "none"
  BY <1>d, <1>2, <1>3 DEF Connected, Conn
<1>5. conn' = [conn EXCEPT ![d] = [q EXCEPT !.I = FALSE]]
  BY DEF RequestFail
<1> HIDE DEF q, r
<1>6. conn'[d].pend = <<>> /\ conn'[d].inv = conn[d].inv /\ conn'[d].O = "none"
  BY <1>2, <1>4, <1>5 DEF TypeOK, Conn
<1>7. Held(d)' \subseteq Held(d)
  BY <1>6, ListedEmpty DEF Held
<1>8. UNCHANGED <<calling, up>> /\ tunnel' = [tunnel EXCEPT ![d] = FALSE]
  BY <1>d DEF RequestFail, CutOff
<1>9. Works(d) /\ ~tunnel'[d]
  BY <1>5, <1>8 DEF Works, TypeOK
<1>10. \A c \in Conns \ {d} : Tunnelled(c)' /\ Held(c)' = Held(c)
  BY <1>1, <1>9, OthersTunnelled
<1>11. Tunnelled(d)'
  BY <1>6, <1>9, TunnelledNot
<1>12. /\ ShownGoals' /\ Apart' /\ \A c \in Conns : Issued(c)'
       /\ \A c \in Conns : \A i \in Held(c)' \ shown' : i \in Held(c) \ shown
  <2>1. shown \subseteq 1..next
    BY DEF Lists
  <2>2. /\ ShownGoals' /\ Apart' /\ \A c \in Conns : Issued(c)'
        /\ \A c \in Conns : \A i \in Held(c)' \ shown' :
             i \in Held(c) \ shown \/ (c = d /\ i \in {} \ 1..next)
    <3> DEFINE S == {}
    <3>1. \A c \in Conns \ {d} : Held(c)' \subseteq Held(c)
      BY <1>10
    <3>2. Held(d)' \subseteq Held(d) \cup S
      BY <1>7
    <3>3. S \subseteq 1..next' /\ \A i \in S : i \in shown' \/ i \notin 1..next
      OBVIOUS
    <3>4. News
      BY <1>1
    <3> HIDE DEF S
    <3>5. /\ ShownGoals' /\ Apart' /\ \A c \in Conns : Issued(c)'
          /\ \A c \in Conns : \A i \in Held(c)' \ shown' :
               i \in Held(c) \ shown \/ (c = d /\ i \in S \ 1..next)
      BY <2>1, <3>1, <3>2, <3>3, <3>4, HeldStep
    <3> QED BY <3>5 DEF S
  <2> QED BY <2>2
<1>13. ASSUME up', NEW c \in Conns PROVE Noted(c)'
  <2>1. \A i \in Held(c) \ shown : Marked(i)
    BY <1>1 DEF Sound, Issued, Marked
  <2> QED BY <1>1, <1>8, <1>12, <1>13, <2>1, NotedStep DEF Noted
<1> QED BY <1>10, <1>11, <1>12, <1>13 DEF Sound

LEMMA AskingSound == TypeOK /\ Lists /\ Sound /\ Asking => Sound'
<1> SUFFICES ASSUME TypeOK, Lists, Sound, Asking PROVE Sound'
  OBVIOUS
<1>m. "POST" \in Methods
  BY DEF Methods
<1>s. shown \subseteq 1..next /\ ShownGoals /\ next \in Nat
  BY PipelineAssumption DEF Lists, Sound, TypeOK
<1>n. ASSUME NEW h, NEW m, NewInfo(h, m)
      PROVE  next + 1 \in Ids /\ next + 1 \in 1..next' /\ 1..next \subseteq 1..next'
  BY <1>n, <1>s, PipelineAssumption DEF NewInfo, Ids, TypeOK
<1>1. ASSUME NEW d \in Conns, NEW h \in Hosts, NEW m \in Methods,
             NEW o \in {"connecting", "up"}, Ask(d, h, m, o)
      PROVE  Sound'
  <2>1. Request(d, h, m, m, next + 1, o) /\ Direct(h, m) /\ UNCHANGED shown
    BY <1>1 DEF Ask
  <2>2. next + 1 \in Ids /\ next + 1 \in 1..next'
    BY <1>n, <2>1 DEF Request
  <2>3. m = "CONNECT" <=> h \in TunnelHosts
    BY <2>1 DEF Direct
  <2>4. next + 1 \notin shown
    BY <1>s
  <2> QED BY <2>1, <2>2, <2>3, <2>4, RequestSound
<1>2. ASSUME NEW d \in Conns, NEW h \in Hosts, NEW o \in {"connecting", "up"},
             AskConfirm(d, h, o)
      PROVE  Sound'
  <2>1. Request(d, h, "POST", "none", next + 1, o) /\ h \in ConfirmHosts
        /\ shown' = shown \cup {next + 1}
    BY <1>2 DEF AskConfirm
  <2>2. next + 1 \in Ids /\ next + 1 \in 1..next'
    BY <1>n, <2>1 DEF Request
  <2>3. h \notin TunnelHosts
    BY <2>1, PipelineAssumption
  <2> QED BY <1>m, <2>1, <2>2, <2>3, RequestSound
<1>3. ASSUME NEW d \in Conns, NEW id \in Ids, NEW o \in {"connecting", "up"},
             Submit(d, id, o)
      PROVE  Sound'
  <2>1. Request(d, goal[id], "POST", "POST", id, o) /\ id \in shown /\ UNCHANGED shown
    BY <1>3 DEF Submit
  <2>2. goal[id] \in ConfirmHosts /\ next + 1 \notin shown
    BY <1>s, <2>1 DEF ShownGoals
  <2>3. goal[id] \in Hosts /\ goal[id] \notin TunnelHosts
    BY <2>2, PipelineAssumption
  <2>4. id \in 1..next'
    BY <1>n, <1>s, <2>1 DEF Request
  <2> QED BY <1>m, <2>1, <2>2, <2>3, <2>4, RequestSound
<1>4. ASSUME NEW d \in Conns, NEW h \in Hosts, NEW m \in Methods, AskFail(d, h, m)
      PROVE  Sound'
  <2>1. RequestFail(d, h, m) /\ UNCHANGED shown
    BY <1>4 DEF AskFail
  <2>2. next + 1 \notin shown
    BY <1>s
  <2> QED BY <2>1, <2>2, RequestFailSound
<1>5. ASSUME NEW d \in Conns, NEW h \in Hosts, AskConfirmFail(d, h) PROVE Sound'
  <2>1. /\ RequestFail(d, h, "POST") /\ h \in ConfirmHosts
        /\ shown' = shown \cup {next + 1}
    BY <1>5 DEF AskConfirmFail
  <2> QED BY <1>m, <2>1, RequestFailSound
<1>6. ASSUME NEW d \in Conns, NEW id \in Ids, SubmitFail(d, id) PROVE Sound'
  <2>1. RequestFail(d, goal[id], "POST") /\ id \in shown /\ UNCHANGED shown
    BY <1>6 DEF SubmitFail
  <2>2. goal[id] \in ConfirmHosts /\ next + 1 \notin shown
    BY <1>s, <2>1 DEF ShownGoals
  <2>3. goal[id] \in Hosts
    BY <2>2, PipelineAssumption
  <2> QED BY <1>m, <2>1, <2>2, <2>3, RequestFailSound
<1>7. ASSUME NEW d \in Conns, NEW h \in Hosts \cup {NoHost}, NEW close \in BOOLEAN,
             AskWeb(d, h, close)
      PROVE  Sound'
  <2> USE DEF hist
  <2>1. conn' = [conn EXCEPT ![d] = [Recycled(conn[d], h) EXCEPT !.I = ~close]]
        /\ conn[d].host # h /\ ~tunnel[d]
    BY <1>7 DEF AskWeb
  <2>2. conn'[d].pend = conn[d].pend /\ conn'[d].inv = conn[d].inv /\ conn'[d].O = "none"
    BY <2>1 DEF Recycled, TypeOK, Conn
  <2>3. UNCHANGED <<shown, next, goal, calling, up, method, tunnel>>
    BY <1>7 DEF AskWeb
  <2>4. Works(d)
    BY <2>1, <2>3 DEF Works, TypeOK
  <2>5. Tunnelled(d)'
    BY <2>1, <2>2, <2>3, TunnelledNot
  <2> QED BY <2>2, <2>3, <2>4, <2>5, SoundOne DEF Held, Marked
<1> QED BY <1>1, <1>2, <1>3, <1>4, <1>5, <1>6, <1>7 DEF Asking

-----------------------------------------------------------------------------
\* The lists of two connections have only confirmation pages in common, and
\* every request that is listed is noted as what it is.
THEOREM SoundCorrect == Spec => []Sound
<1>1. TypeOK /\ Lists /\ Sound /\ [Next]_vars => Sound'
  <2>1. Sound /\ UNCHANGED vars => Sound'
    BY DEF vars, code, world, hist, Sound, ShownGoals, Apart, Issued, Noted,
           Tunnelled, Held, LastInv
  <2> QED BY <2>1, LifetimeSound, AskingSound, CallingSound, AnsweringSound DEF Next
<1> QED BY <1>1, SoundInit, TypeCorrect, ListsCorrect, PTL DEF Spec

\* The MoaiInfo of a request that was never put before the user is there for as
\* long as a connection lists it, although MoaiInfos are erased with whatever
\* connection invoked them.
THEOREM RegisteredHolds == Spec => []Registered
<1>1. Sound => Registered
  BY DEF Sound, Noted, Held, Registered, Plain
<1> QED BY <1>1, SoundCorrect, PTL

\* What comes over a tunnel that no parent proxy takes part in is recognised as
\* such, and never parsed as a response.
THEOREM DirectTunnelKnownHolds == Spec => []DirectTunnelKnown
<1>1. ASSUME TypeOK, Sound, NEW c \in Conns, Serving, tunnel[c],
             conn[c].host \notin ParentHosts
      PROVE  Recognised(c)
  <2>1. conn[c].inv # <<>> /\ LastInv(c) \notin shown /\ OwnTunnel(goal[LastInv(c)])
    BY <1>1 DEF Sound, Tunnelled
  <2>2. conn[c].inv \in Seq(Ids)
    BY <1>1 DEF TypeOK, Conn
  <2>3. LastInv(c) \in Held(c)
    BY <2>1, <2>2, LastListed DEF LastInv, Held
  <2>4. method[LastInv(c)] = "CONNECT"
    BY <1>1, <2>1, <2>3 DEF Sound, Noted, Serving
  <2> QED BY <2>1, <2>4 DEF Recognised, LastMethod, LastInv
<1>2. TypeOK /\ Sound => DirectTunnelKnown
  BY <1>1 DEF DirectTunnelKnown
<1> QED BY <1>2, SoundCorrect, TypeCorrect, PTL
=============================================================================
