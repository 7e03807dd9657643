--------------------------- MODULE MoaiServer_proofs ---------------------------
(***************************************************************************)
(* Proofs about the event loop of MoaiServer, for any number of sockets,   *)
(* records and listening sockets, and for any capacity of the fd_set:      *)
(* types, the ownership of sockets, and what no step may do to them.       *)
(***************************************************************************)
EXTENDS MoaiServer, FiniteSetTheorems, TLAPS

-----------------------------------------------------------------------------
(***************************************************************************)
(* Without, the erasing of entries from connecting_socks_, gives back a    *)
(* sequence.  Induction over finite sets is done with a minimal            *)
(* counterexample, since the strict subset relation is well-founded.       *)
(***************************************************************************)

\* B is a nonempty family of subsets of D; it has a minimal member.
Family(B, D) == B # {} /\ B \subseteq SUBSET D
HasMinimal(B) == \E K \in B : \A L \in B : ~(L \subseteq K /\ L # K)

LEMMA MinimalSet ==
  ASSUME NEW D, IsFiniteSet(D), NEW B, Family(B, D)
  PROVE  HasMinimal(B)
<1>1. IsWellFoundedOn(StrictSubsetOrdering(D), SUBSET D)
  BY FS_StrictSubsetOrderingWellFounded, FS_FiniteSubsetsOfFinite
<1>2. \E K \in B : \A L \in B : ~(<<L, K>> \in StrictSubsetOrdering(D))
  <2>1. B \subseteq SUBSET D /\ B # {}
    BY DEF Family
  <2> QED BY <1>1, <2>1, WFMin
<1> QED
  BY <1>2 DEF StrictSubsetOrdering, Family, HasMinimal

\* A finite nonempty set of natural numbers has a greatest element.
LEMMA Greatest ==
  ASSUME NEW D \in SUBSET Nat, IsFiniteSet(D), D # {}
  PROVE  \E m \in D : \A k \in D : k <= m
<1> DEFINE HasMax(K) == \E m \in K : \A k \in K : k <= m
           B == {K \in SUBSET D : K # {} /\ ~HasMax(K)}
<1> SUFFICES B = {}
  OBVIOUS
<1>1. SUFFICES ASSUME B # {} PROVE FALSE
  OBVIOUS
<1>2. PICK K \in B : \A L \in B : ~(L \subseteq K /\ L # K)
  <2>1. Family(B, D)
    BY <1>1 DEF Family
  <2> HIDE DEF B
  <2>2. HasMinimal(B)
    BY <2>1, MinimalSet
  <2> QED BY <2>2 DEF HasMinimal
<1>3. PICK x \in K : TRUE
  OBVIOUS
<1>4. CASE K \ {x} = {}
  <2>1. x \in Nat /\ \A k \in K : k = x
    BY <1>4
  <2> QED BY <2>1
<1>5. CASE K \ {x} # {}
  <2>1. HasMax(K \ {x})
    <3>1. K \ {x} \subseteq K /\ K \ {x} # K /\ K \ {x} \in SUBSET D
      OBVIOUS
    <3>2. K \ {x} \notin B
      BY <3>1, <1>2
    <3> QED BY <3>1, <3>2, <1>5
  <2>2. PICK y \in K \ {x} : \A k \in K \ {x} : k <= y
    BY <2>1
  <2>3. x \in Nat /\ y \in Nat /\ \A k \in K : k \in Nat
    OBVIOUS
  <2>4. CASE x <= y
    <3>1. \A k \in K : k <= y
      BY <2>2, <2>4
    <3> QED BY <3>1
  <2>5. CASE ~(x <= y)
    <3>1. \A k \in K : k <= x
      BY <2>2, <2>3, <2>5
    <3> QED BY <3>1
  <2> QED BY <2>4, <2>5
<1> QED BY <1>4, <1>5

\* A finite set of natural numbers has an increasing enumeration.
Increasing(f, K) ==
  /\ f \in [1..Cardinality(K) -> K]
  /\ \A i, j \in DOMAIN f : i < j => f[i] < f[j]

LEMMA HasOrder ==
  ASSUME NEW D \in SUBSET Nat, IsFiniteSet(D)
  PROVE  \E f : Increasing(f, D)
<1> DEFINE B == {K \in SUBSET D : ~ \E f : Increasing(f, K)}
<1> SUFFICES B = {}
  OBVIOUS
<1>1. SUFFICES ASSUME B # {} PROVE FALSE
  OBVIOUS
<1>2. PICK K \in B : \A L \in B : ~(L \subseteq K /\ L # K)
  <2>1. Family(B, D)
    BY <1>1 DEF Family
  <2> HIDE DEF B
  <2>2. HasMinimal(B)
    BY <2>1, MinimalSet
  <2> QED BY <2>2 DEF HasMinimal
<1>3. IsFiniteSet(K) /\ K \in SUBSET Nat /\ K \in SUBSET D
  BY FS_Subset
<1>4. CASE K = {}
  <2>1. Cardinality(K) = 0
    BY <1>4, FS_EmptySet
  <2>2. 1..0 = {}
    OBVIOUS
  <2>3. Increasing([i \in {} |-> 0], K)
    BY <2>1, <2>2, <1>4 DEF Increasing
  <2> QED BY <2>3
<1>5. CASE K # {}
  <2>1. PICK m \in K : \A k \in K : k <= m
    BY <1>3, <1>5, Greatest
  <2> DEFINE L == K \ {m}
  <2>2. /\ IsFiniteSet(L) /\ Cardinality(L) \in Nat
        /\ Cardinality(K) = Cardinality(L) + 1
    <3>1. Cardinality(L) = Cardinality(K) - 1 /\ IsFiniteSet(L)
      BY <1>3, FS_RemoveElement
    <3>2. Cardinality(L) \in Nat /\ Cardinality(K) \in Nat
      BY <1>3, <3>1, FS_CardinalityType
    <3> QED BY <3>1, <3>2
  <2>3. PICK f : Increasing(f, L)
    <3>1. L \subseteq K /\ L # K /\ L \in SUBSET D
      BY <1>3
    <3>2. L \notin B
      BY <3>1, <1>2
    <3> QED BY <3>1, <3>2
  <2>4. \A k \in L : k \in Nat /\ m \in Nat /\ k < m
    BY <2>1, <1>3
  <2> DEFINE n == Cardinality(L)
             g == [i \in 1..n+1 |-> IF i = n + 1 THEN m ELSE f[i]]
  <2>5. f \in [1..n -> L] /\ \A i, j \in 1..n : i < j => f[i] < f[j]
    BY <2>3 DEF Increasing
  <2>6. g \in [1..Cardinality(K) -> K]
    <3> HIDE DEF n
    <3>1. n \in Nat /\ Cardinality(K) = n + 1
      BY <2>2 DEF n
    <3>2. \A i \in 1..n+1 : i # n + 1 => i \in 1..n
      BY <3>1
    <3>3. \A i \in 1..n+1 : g[i] \in K
      BY <3>2, <2>5
    <3> QED BY <3>1, <3>3
  <2>7. \A i, j \in DOMAIN g : i < j => g[i] < g[j]
    <3> HIDE DEF n
    <3>1. n \in Nat
      BY <2>2 DEF n
    <3>2. \A i, j \in 1..n+1 : i < j => i \in 1..n /\ (j \in 1..n \/ j = n + 1)
      BY <3>1
    <3> HIDE DEF L
    <3>3. ASSUME NEW i \in 1..n+1, NEW j \in 1..n+1, i < j
          PROVE  g[i] < g[j]
      <4>1. i \in 1..n /\ g[i] = f[i] /\ f[i] \in L
        BY <3>1, <3>2, <3>3, <2>5
      <4>2. CASE j = n + 1
        BY <4>1, <4>2, <2>4
      <4>3. CASE j \in 1..n /\ j # n + 1
        BY <4>1, <4>3, <3>3, <2>5
      <4> QED BY <3>1, <3>2, <3>3, <4>2, <4>3
    <3> QED BY <3>3
  <2>8. Increasing(g, K)
    BY <2>6, <2>7 DEF Increasing
  <2> QED BY <2>8
<1> QED BY <1>4, <1>5

LEMMA InOrderType ==
  ASSUME NEW K \in SUBSET Nat, IsFiniteSet(K)
  PROVE  Increasing(InOrder(K), K)
<1>1. PICK f : Increasing(f, K)
  BY HasOrder
<1> DEFINE P(h) == \A i, j \in DOMAIN h : i < j => h[i] < h[j]
<1>2. f \in [1..Cardinality(K) -> K] /\ P(f)
  BY <1>1 DEF Increasing
<1>3. /\ InOrder(K) \in [1..Cardinality(K) -> K]
      /\ P(InOrder(K))
  BY <1>2 DEF InOrder
<1> QED BY <1>3 DEF Increasing

LEMMA WithoutType ==
  ASSUME NEW T, NEW q \in Seq(T), NEW S
  PROVE  Without(q, S) \in Seq(T)
<1> DEFINE K == {i \in DOMAIN q : q[i] \notin S}
<1>1. DOMAIN q = 1..Len(q) /\ Len(q) \in Nat
  OBVIOUS
<1>2. K \in SUBSET Nat /\ IsFiniteSet(K)
  <2>1. IsFiniteSet(1..Len(q))
    BY <1>1, FS_Interval
  <2>2. K \in SUBSET (1..Len(q))
    BY <1>1
  <2> QED BY <2>1, <2>2, FS_Subset
<1>3. InOrder(K) \in [1..Cardinality(K) -> K] /\ Cardinality(K) \in Nat
  <2> HIDE DEF K
  <2> QED BY <1>2, InOrderType, FS_CardinalityType DEF Increasing
<1>4. Without(q, S) = [i \in 1..Cardinality(K) |-> q[InOrder(K)[i]]]
  <2>1. DOMAIN InOrder(K) = 1..Cardinality(K)
    BY <1>3
  <2> QED BY <2>1 DEF Without
<1>5. \A i \in 1..Cardinality(K) : q[InOrder(K)[i]] \in T
  <2>1. \A k \in K : q[k] \in T
    BY <1>1
  <2> HIDE DEF K
  <2> QED BY <1>3, <2>1
<1> HIDE DEF K
<1> QED BY <1>3, <1>4, <1>5

LEMMA CompactedType ==
  ASSUME NEW q \in Seq(Sock)
  PROVE  Compacted(q) \in Seq(Sock)
<1>1. CASE q = <<>>
  BY <1>1 DEF Compacted
<1>2. CASE q # <<>>
  <2>1. Head(q) \in Sock /\ Tail(q) \in Seq(Sock)
    BY <1>2
  <2>2. Without(Tail(q), {INVALID}) \in Seq(Sock)
    BY <2>1, WithoutType
  <2> QED BY <1>2, <2>1, <2>2 DEF Compacted
<1> QED BY <1>1, <1>2

-----------------------------------------------------------------------------
(***************************************************************************)
(* The type invariant                                                      *)
(***************************************************************************)

\* What the helpers used by many actions give
LEMMA HelperTypes ==
  ASSUME TypeOK
  PROVE  /\ Sock = Socks \cup {INVALID} /\ Rec = Recs \cup {NULL}
         /\ NoConn \in Conn
         /\ \A s \in Sock : Fd(s) \subseteq Socks
         /\ \A S : Bits(S) \subseteq UNION {Fd(s) : s \in S}
         /\ \A r \in Recs : mcn[r] \in Conn
         /\ \A r \in Recs : mcn[r].I \in Sock /\ mcn[r].O \in Sock
         /\ \A r \in Recs : OwnedBy(r) \subseteq Socks
BY ServerAssumption DEF TypeOK, Sock, Rec, NoConn, Conn, Events, Fd, Bits, OwnedBy

LEMMA DropType ==
  ASSUME NEW m \in [Recs -> Conn], NEW S
  PROVE  DropI(m, S) \in [Recs -> Conn] /\ DropO(m, S) \in [Recs -> Conn]
BY DEF DropI, DropO, Conn, Sock

\* A record stays a record when it forgets its sockets.
LEMMA ForgetType ==
  ASSUME NEW c \in Conn, NEW I \in {c.I, INVALID}, NEW O \in {c.O, INVALID}
  PROVE  [c EXCEPT !.I = I, !.O = O] \in Conn
BY DEF Conn, Sock

LEMMA EraseType ==
  ASSUME TypeOK, NEW r \in Recs, Erase(r)
  PROVE  /\ open' \subseteq Socks /\ obsW' \subseteq Socks
         /\ connecting' \in Seq(Sock)
         /\ mcn' \in [Recs -> Conn] /\ live' \subseteq Recs
<1>1. connecting' \in Seq(Sock)
  BY WithoutType DEF TypeOK, Erase, CloseOwned
<1> QED
  BY <1>1, HelperTypes DEF TypeOK, Erase, CloseOwned

LEMMA ObserveType ==
  ASSUME NEW S \in SUBSET Socks, NEW o \in Sock, resC \subseteq Sock,
         Observe(S, o)
  PROVE  obsR' \subseteq Socks /\ resC' \subseteq Sock
BY ServerAssumption DEF Observe, Fd, Sock

LEMMA AddConnectingType ==
  ASSUME TypeOK, NEW s \in Socks, AddConnecting(s)
  PROVE  connecting' \in Seq(Sock) /\ obsW' \subseteq obsW \cup {s}
<1>1. connecting \in Seq(Sock) /\ s \in Sock
  BY DEF TypeOK, Sock
<1>2. Append(connecting, s) \in Seq(Sock)
  BY <1>1
<1> QED BY <1>1, <1>2 DEF AddConnecting, Noted

\* Only a callback dereferences a record without having looked it up first.
CalledBack == pc = "Callback" => cb \in Recs

LEMMA InitType == Init => TypeOK /\ CalledBack
<1> SUFFICES ASSUME Init PROVE TypeOK /\ CalledBack
  OBVIOUS
<1>1. mcn \in [Recs -> Conn]
  BY DEF Init, NoConn, Conn, Sock, Events
<1>2. connecting \in Seq(Sock) /\ wk \in Seq(Sock)
  BY DEF Init
<1>3. acc \in 0..NListen /\ idx \in Nat \ {0}
  BY ServerAssumption DEF Init
<1> QED BY <1>1, <1>2, <1>3 DEF Init, TypeOK, CalledBack, Sock, Rec

LEMMA NextType ==
  TypeOK /\ CalledBack /\ [Next]_vars => TypeOK' /\ CalledBack'
<1> SUFFICES ASSUME TypeOK, CalledBack, [Next]_vars
             PROVE  TypeOK' /\ CalledBack'
  OBVIOUS
<1> USE ServerAssumption, HelperTypes
<1>1. CASE SelectReady
  BY <1>1 DEF SelectReady, TypeOK, CalledBack, table, sets, frame
<1>2. CASE SelectError
  BY <1>2 DEF SelectError, TypeOK, CalledBack, table, sets, pass, frame
<1>3. CASE SelectTimeout
  <2>1. PICK X \in SUBSET Exiles, E \in SUBSET Pending : TimeoutStep(X, E)
    BY <1>3 DEF SelectTimeout
  <2>2. connecting' \in Seq(Sock)
    BY <2>1, WithoutType DEF TimeoutStep, TypeOK
  <2>3. mcn' \in [Recs -> Conn]
    BY <2>1, DropType DEF TimeoutStep, TypeOK
  <2> QED BY <2>1, <2>2, <2>3 DEF TimeoutStep, TypeOK, CalledBack, pass, frame
<1>4. CASE AcceptDeny
  BY <1>4 DEF AcceptDeny, TypeOK, CalledBack, table, sets, frame
<1>5. ASSUME NEW s \in Socks, NEW r \in Recs, AcceptAllow(s, r)
      PROVE  TypeOK' /\ CalledBack'
  <2>1. connecting' \in Seq(Sock)
    BY <1>5, WithoutType DEF AcceptAllow, TypeOK
  <2>2. mcn' \in [Recs -> Conn]
    <3>1. [NoConn EXCEPT !.I = s] \in Conn
      BY DEF Conn, NoConn
    <3>2. \/ mcn' = mcn
          \/ mcn' = [mcn EXCEPT ![r] = [NoConn EXCEPT !.I = s]]
      BY <1>5 DEF AcceptAllow
    <3> QED BY <3>1, <3>2 DEF TypeOK
  <2> QED BY <1>5, <2>1, <2>2 DEF AcceptAllow, TypeOK, CalledBack, frame
<1>6. CASE AcceptDone
  BY <1>6 DEF AcceptDone, TypeOK, CalledBack, table, sets, frame
<1>7. CASE ConnectingNext
  BY <1>7 DEF ConnectingNext, TypeOK, CalledBack, table, sets, frame
<1>8. ASSUME NEW r \in Recs, ConnectingReady(r)
      PROVE  TypeOK' /\ CalledBack'
  <2>1. connecting' \in Seq(Sock)
    BY <1>8 DEF ConnectingReady, MarkDone, TypeOK
  <2>2. mcn' \in [Recs -> Conn]
    BY <1>8, ZenonT(40) DEF ConnectingReady, TypeOK, Conn
  <2> QED BY <1>8, <2>1, <2>2 DEF ConnectingReady, TypeOK, CalledBack, pass
<1>9. CASE ConnectingUnknown
  <2>1. connecting' \in Seq(Sock)
    BY <1>9 DEF ConnectingUnknown, MarkDone, TypeOK
  <2> QED BY <1>9, <2>1
        DEF ConnectingUnknown, TypeOK, CalledBack, table, pass, frame
<1>10. CASE Completed
  BY <1>10 DEF Completed, TypeOK, CalledBack, table
<1>11. CASE ConnectingDone
  <2>1. connecting' \in Seq(Sock)
    BY <1>11, CompactedType DEF ConnectingDone, TypeOK
  <2> QED BY <1>11, <2>1 DEF ConnectingDone, TypeOK, CalledBack, table, frame
<1>12. CASE CallbackNone
  BY <1>12 DEF CallbackNone, TypeOK, CalledBack, table, sets, pass, frame
<1>13. CASE CallbackOk
  <2>1. obsR' \subseteq Socks /\ resC' \subseteq Sock
    BY <1>13, ObserveType DEF CallbackOk, TypeOK, CalledBack
  <2>2. mcn' \in [Recs -> Conn]
    <3>1. [mcn[cb] EXCEPT !.ev = "none"] \in Conn
      BY <1>13 DEF CallbackOk, TypeOK, CalledBack, Conn, Events
    <3> QED BY <1>13, <3>1 DEF CallbackOk, TypeOK
  <2> QED BY <1>13, <2>1, <2>2 DEF CallbackOk, TypeOK, CalledBack, pass, frame
<1>14. CASE CallbackFail
  <2>1. obsR' \subseteq Socks /\ resC' \subseteq Sock
    BY <1>14, ObserveType DEF CallbackFail, TypeOK, CalledBack
  <2> QED BY <1>14, <2>1, EraseType
        DEF CallbackFail, TypeOK, CalledBack, pass, frame
<1>15. CASE CallbackProxyFail
  <2>1. obsR' \subseteq Socks /\ resC' \subseteq Sock
    BY <1>15, ObserveType DEF CallbackProxyFail, TypeOK, CalledBack
  <2>2. mcn' \in [Recs -> Conn]
    <3>1. [mcn[cb] EXCEPT !.O = INVALID] \in Conn
      BY <1>15 DEF CallbackProxyFail, TypeOK, CalledBack, Conn, Sock
    <3> QED BY <1>15, <3>1 DEF CallbackProxyFail, TypeOK
  <2>3. connecting' \in Seq(Sock)
    BY <1>15, WithoutType DEF CallbackProxyFail, TypeOK
  <2> QED BY <1>15, <2>1, <2>2, <2>3
        DEF CallbackProxyFail, TypeOK, CalledBack, pass, frame
<1>16. ASSUME NEW s \in Socks, NEW r \in Recs, ReadKnown(s, r)
       PROVE  TypeOK' /\ CalledBack'
  BY <1>16 DEF ReadKnown, TypeOK, CalledBack, table, sets
<1>17. ASSUME NEW s \in Socks, ReadUnknown(s)
       PROVE  TypeOK' /\ CalledBack'
  BY <1>17 DEF ReadUnknown, TypeOK, CalledBack, frame
<1>18. CASE ScanFail
  <2>1. CASE ptr \in Recs
    BY <1>18, <2>1, EraseType
    DEF ScanFail, Idle, TypeOK, CalledBack, pass
  <2>2. CASE ptr \notin Recs
    <3>1. connecting' \in Seq(Sock)
      BY <1>18, WithoutType DEF ScanFail, Erase, CloseOwned, TypeOK
    <3>2. mcn' \in [Recs -> Conn]
      BY <1>18, <2>2 DEF ScanFail, Erase, TypeOK
    <3> QED BY <1>18, <3>1, <3>2
          DEF ScanFail, Erase, CloseOwned, Idle, TypeOK, CalledBack, pass
  <2> QED BY <2>1, <2>2
<1>19. CASE ScanCut
  <2>1. connecting' \in Seq(Sock)
    BY <1>19, WithoutType DEF ScanCut, TypeOK
  <2>2. mcn' \in [Recs -> Conn]
    BY <1>19, DropType DEF ScanCut, TypeOK
  <2> QED BY <1>19, <2>1, <2>2 DEF ScanCut, Idle, TypeOK, CalledBack, pass
<1>20. ASSUME NEW b \in BOOLEAN, NEW c \in BOOLEAN, ScanRequest(b, c)
       PROVE  TypeOK' /\ CalledBack'
  <2>1. connecting' \in Seq(Sock)
    BY <1>20, WithoutType DEF ScanRequest, TypeOK
  <2>2. mcn' \in [Recs -> Conn]
    BY <1>20, ZenonT(40) DEF ScanRequest, TypeOK, Conn
  <2> QED BY <1>20, <2>1, <2>2 DEF ScanRequest, TypeOK, CalledBack, pass
<1>21. ASSUME NEW b \in BOOLEAN, NEW c \in BOOLEAN, ScanReject(b, c)
       PROVE  TypeOK' /\ CalledBack'
  <2>1. connecting' \in Seq(Sock)
    BY <1>21, WithoutType DEF ScanReject, TypeOK
  <2>2. mcn' \in [Recs -> Conn]
    <3>1. CASE ptr \in Recs
      <4> DEFINE O == IF c THEN INVALID ELSE mcn[ptr].O
      <4>1. [mcn[ptr] EXCEPT !.I = INVALID, !.O = O] \in Conn
        BY <3>1, ForgetType DEF TypeOK
      <4>2. mcn' = [mcn EXCEPT ![ptr] =
                     [mcn[ptr] EXCEPT !.I = INVALID, !.O = O]]
        BY <1>21, <3>1 DEF ScanReject, TypeOK
      <4> QED BY <4>1, <4>2 DEF TypeOK
    <3>2. CASE ptr \notin Recs
      BY <1>21, <3>2 DEF ScanReject, TypeOK
    <3> QED BY <3>1, <3>2
  <2> QED BY <1>21, <2>1, <2>2 DEF ScanReject, Idle, TypeOK, CalledBack, pass
<1>22. CASE ScanData
  BY <1>22 DEF ScanData, TypeOK, CalledBack, table, sets, pass
<1>23. ASSUME NEW b \in BOOLEAN, ScanResponse(b)
       PROVE  TypeOK' /\ CalledBack'
  <2>1. connecting' \in Seq(Sock)
    BY <1>23, WithoutType DEF ScanResponse, TypeOK
  <2>2. mcn' \in [Recs -> Conn]
    BY <1>23, DropType DEF ScanResponse, TypeOK
  <2> QED BY <1>23, <2>1, <2>2 DEF ScanResponse, TypeOK, CalledBack, pass
<1>24. CASE PostBodyCut
  <2>1. mcn' \in [Recs -> Conn]
    <3>1. /\ ptr \in Recs => [mcn[ptr] EXCEPT !.I = INVALID] \in Conn
          /\ mcn' = [mcn EXCEPT ![ptr].I = INVALID]
      BY <1>24 DEF PostBodyCut, TypeOK, Conn, Sock
    <3> QED BY <3>1 DEF TypeOK
  <2> QED BY <1>24, <2>1 DEF PostBodyCut, TypeOK, CalledBack, pass
<1>25. ASSUME NEW r \in Recs, NEW kind \in Kinds, ConnectReuse(r, kind)
       PROVE  TypeOK' /\ CalledBack'
  <2>1. mcn[r].O \in Socks
    BY <1>25 DEF ConnectReuse, FoundO
  <2>2. mcn' \in [Recs -> Conn]
    BY <1>25 DEF ConnectReuse, TypeOK, Conn, Events
  <2>3. connecting' \in Seq(Sock) /\ obsW' \subseteq Socks
    BY <1>25, <2>1, AddConnectingType DEF ConnectReuse, TypeOK
  <2> QED BY <1>25, <2>1, <2>2, <2>3
        DEF ConnectReuse, ConnectTo, TypeOK, CalledBack, pass
<1>26. ASSUME NEW r \in Recs, NEW kind \in Kinds, NEW s \in Socks,
              NEW b \in BOOLEAN, ConnectNew(r, kind, s, b)
       PROVE  TypeOK' /\ CalledBack'
  <2>1. connecting' \in Seq(Sock) /\ obsW' \subseteq Socks
    BY <1>26, AddConnectingType DEF ConnectNew, TypeOK
  <2>2. mcn' \in [Recs -> Conn]
    BY <1>26, ZenonT(40) DEF ConnectNew, TypeOK, Conn, Events
  <2> QED BY <1>26, <2>1, <2>2
        DEF ConnectNew, ConnectTo, TypeOK, CalledBack, pass
<1>27. ASSUME NEW r \in Recs, NEW kind \in Kinds, ConnectFail(r, kind)
       PROVE  TypeOK' /\ CalledBack'
  BY <1>27 DEF ConnectFail, Idle, TypeOK, CalledBack, pass
<1>28. CASE Connected
  BY <1>28 DEF Connected, Idle, TypeOK, CalledBack, table, sets, pass
<1>29. CASE Relay
  BY <1>29 DEF Relay, Idle, TypeOK, CalledBack, table, sets, pass
<1>30. ASSUME NEW b \in BOOLEAN, WebReply(b)
       PROVE  TypeOK' /\ CalledBack'
  <2>1. mcn' \in [Recs -> Conn]
    BY <1>30, DropType DEF WebReply, TypeOK
  <2> QED BY <1>30, <2>1 DEF WebReply, Idle, TypeOK, CalledBack, pass
<1>31. ASSUME NEW b \in BOOLEAN, NEW u \in BOOLEAN,
              NEW res \in Results,
              WebConfig(b, u, res)
       PROVE  TypeOK' /\ CalledBack'
  <2>1. mcn' \in [Recs -> Conn]
    BY <1>31, DropType DEF WebConfig, TypeOK
  <2>2. connecting' \in Seq(Sock)
    BY <1>31, WithoutType DEF WebConfig, TypeOK
  <2> QED BY <1>31, <2>1, <2>2 DEF WebConfig, Results, Idle, TypeOK, CalledBack, pass
<1>32. CASE ReadDone
  <2>1. PICK A \in Adopted(obsR, resA) :
          /\ resA' = resA \ A
          /\ \E C \in Adopted(obsR \cup Bits(A), resC) :
               resC' = resC \ C /\ obsR' = obsR \cup Bits(A) \cup Bits(C)
    BY <1>32 DEF ReadDone
  <2>2. PICK C \in Adopted(obsR \cup Bits(A), resC) :
          resC' = resC \ C /\ obsR' = obsR \cup Bits(A) \cup Bits(C)
    BY <2>1
  <2>3. A \subseteq Sock /\ C \subseteq Sock
    BY DEF Adopted, TypeOK
  <2>4. Bits(A) \subseteq Socks /\ Bits(C) \subseteq Socks
    BY <2>3
  <2> QED BY <1>32, <2>1, <2>2, <2>4
        DEF ReadDone, TypeOK, CalledBack, table, pass, frame
<1>33. CASE Restart
  <2>1. mcn' \in [Recs -> Conn]
    BY <1>33 DEF Restart
  <2>2. connecting' \in Seq(Sock) /\ wk' \in Seq(Sock)
    BY <1>33 DEF Restart
  <2>3. acc' \in 0..NListen /\ idx' \in Nat \ {0}
    BY <1>33 DEF Restart
  <2> QED BY <1>33, <2>1, <2>2, <2>3 DEF Restart, Idle, TypeOK, CalledBack
<1>34. CASE Relaunch
  <2>1. mcn' \in [Recs -> Conn]
    BY <1>34 DEF Relaunch
  <2>2. connecting' \in Seq(Sock) /\ wk' \in Seq(Sock)
    BY <1>34 DEF Relaunch
  <2>3. acc' \in 0..NListen /\ idx' \in Nat \ {0}
    BY <1>34 DEF Relaunch
  <2> QED BY <1>34, <2>1, <2>2, <2>3 DEF Relaunch, Idle, TypeOK, CalledBack
<1>35. CASE UNCHANGED vars
  BY <1>35 DEF vars, table, sets, pass, frame, TypeOK, CalledBack
<1> QED
  BY <1>1, <1>2, <1>3, <1>4, <1>5, <1>6, <1>7, <1>8, <1>9, <1>10, <1>11,
     <1>12, <1>13, <1>14, <1>15, <1>16, <1>17, <1>18, <1>19, <1>20, <1>21,
     <1>22, <1>23, <1>24, <1>25, <1>26, <1>27, <1>28, <1>29, <1>30, <1>31,
     <1>32, <1>33, <1>34, <1>35
  DEF Next, Select, Accept, Complete, Callback, Scan, Proxy, Web

\* Type correctness: no state that the server reaches has a variable, or a
\* field of a connection record, outside its range.
THEOREM TypeCorrect == Spec => []TypeOK
<1>1. Spec => [](TypeOK /\ CalledBack)
  BY InitType, NextType, PTL DEF Spec
<1> QED BY <1>1, PTL

-----------------------------------------------------------------------------
(***************************************************************************)
(* Ownership of sockets.  It is inductive together with what the handler   *)
(* knows of the record it serves: that record is in the table, and the     *)
(* socket being served is one of its two.  A POST body that breaks off     *)
(* destroys the latter (README, section 9), and the theorem assumes that   *)
(* none does.                                                              *)
(***************************************************************************)
Serves ==
  /\ scan # "CutPost"
  /\ pc = "Scan" => ptr \in live /\ cur \in Socks /\ cur \in OwnedBy(ptr)
  /\ pc = "Dispatch" => ptr \in live /\ cur \in Socks
  /\ pc = "Dispatch" /\ scan = "Request" => mcn[ptr].I = cur
  /\ pc = "Callback" => cb \in live

IInv == TypeOK /\ CalledBack /\ Ownership /\ Serves

\* A socket determines the record that owns it and its side.
LEMMA Unique ==
  ASSUME TypeOK, Ownership, NEW s \in Socks, NEW r \in Recs, NEW q \in Recs
  PROVE  /\ mcn[r].I = s /\ mcn[q].I = s => r = q
         /\ mcn[r].O = s /\ mcn[q].O = s => r = q
         /\ ~(mcn[r].I = s /\ mcn[q].O = s)
         /\ mcn[r].I = s \/ mcn[r].O = s => s \in open /\ r \in live
<1>1. s # INVALID
  BY ServerAssumption
<1> QED
  BY <1>1 DEF Ownership, DeadHoldNothing, OwnedIsOpen, NoSharedSocket,
              TwoSides, Owned, OwnedBy, NoConn

\* Records that only lose sockets stay disjoint.
LEMMA Shrink ==
  ASSUME TypeOK, Ownership,
         \A r \in Recs : /\ mcn'[r].I \in {mcn[r].I, INVALID}
                         /\ mcn'[r].O \in {mcn[r].O, INVALID},
         \A r \in Recs \ live' : mcn'[r] = NoConn,
         \A r \in Recs : /\ mcn'[r].I # INVALID => mcn'[r].I \in open'
                         /\ mcn'[r].O # INVALID => mcn'[r].O \in open'
  PROVE  Ownership'
<1>1. OwnedIsOpen'
  BY DEF OwnedIsOpen, Owned, OwnedBy
<1>2. NoSharedSocket'
  BY DEF Ownership, NoSharedSocket, OwnedBy
<1>3. TwoSides'
  BY DEF Ownership, TwoSides
<1> QED BY <1>1, <1>2, <1>3 DEF Ownership, DeadHoldNothing

LEMMA SameSides ==
  ASSUME TypeOK, Ownership,
         \A q \in Recs : mcn'[q].I = mcn[q].I /\ mcn'[q].O = mcn[q].O,
         \A q \in Recs \ live : mcn'[q] = mcn[q],
         open' = open, live' = live
  PROVE  Ownership'
<1>1. \A q \in Recs : /\ mcn[q].I # INVALID => mcn[q].I \in open
                      /\ mcn[q].O # INVALID => mcn[q].O \in open
  BY DEF Ownership, OwnedIsOpen, Owned, OwnedBy
<1>2. \A q \in Recs \ live : mcn'[q] = NoConn
  BY DEF Ownership, DeadHoldNothing
<1> QED BY <1>1, <1>2, Shrink

\* Closing the sockets in S and taking them from their records
LEMMA Closing ==
  ASSUME TypeOK, Ownership, NEW SI \in SUBSET Sock, NEW SO \in SUBSET Sock,
         mcn' = DropO(DropI(mcn, SI), SO),
         live' = live,
         NEW C, open' = open \ C,
         \A r \in live : /\ mcn[r].I \in C \ {INVALID} => mcn[r].I \in SI
                         /\ mcn[r].O \in C \ {INVALID} => mcn[r].O \in SO
  PROVE  Ownership'
<1>1. \A r \in Recs : /\ mcn'[r].I = IF r \in live /\ mcn[r].I \in SI
                                     THEN INVALID ELSE mcn[r].I
                      /\ mcn'[r].O = IF r \in live /\ mcn[r].O \in SO
                                     THEN INVALID ELSE mcn[r].O
  BY DEF DropO, DropI, TypeOK, Conn
<1>2. \A r \in Recs \ live : mcn'[r] = NoConn
  BY DEF DropO, DropI, Ownership, DeadHoldNothing
<1>3. \A r \in Recs : /\ mcn[r].I # INVALID => mcn[r].I \in open
                      /\ mcn[r].O # INVALID => mcn[r].O \in open
  BY DEF Ownership, OwnedIsOpen, Owned, OwnedBy
<1>4. \A r \in Recs : /\ mcn'[r].I # INVALID => mcn'[r].I \in open'
                      /\ mcn'[r].O # INVALID => mcn'[r].O \in open'
  BY <1>1, <1>2, <1>3 DEF NoConn
<1> QED BY <1>1, <1>2, <1>4, Shrink

\* MoaiConnection_erase
LEMMA Erasing ==
  ASSUME TypeOK, Ownership, NEW r \in Recs, Erase(r)
  PROVE  Ownership'
<1>1. \A q \in Recs : mcn'[q] = IF q = r THEN NoConn ELSE mcn[q]
  BY DEF Erase, TypeOK
<1>2. \A q \in Recs : /\ mcn[q].I # INVALID => mcn[q].I \in open
                      /\ mcn[q].O # INVALID => mcn[q].O \in open
  BY DEF Ownership, OwnedIsOpen, Owned, OwnedBy
<1>3. \A q \in Recs : q # r => /\ mcn[q].I # INVALID => mcn[q].I \notin OwnedBy(r)
                               /\ mcn[q].O # INVALID => mcn[q].O \notin OwnedBy(r)
  BY DEF Ownership, NoSharedSocket, OwnedBy
<1>4. \A q \in Recs : /\ mcn'[q].I # INVALID => mcn'[q].I \in open'
                      /\ mcn'[q].O # INVALID => mcn'[q].O \in open'
  BY <1>1, <1>2, <1>3 DEF Erase, CloseOwned, NoConn
<1>5. \A q \in Recs \ live' : mcn'[q] = NoConn
  BY <1>1 DEF Erase, Ownership, DeadHoldNothing
<1>6. \A q \in Recs : /\ mcn'[q].I \in {mcn[q].I, INVALID}
                      /\ mcn'[q].O \in {mcn[q].O, INVALID}
  BY <1>1 DEF NoConn
<1> QED BY <1>4, <1>5, <1>6, Shrink

\* A record gets the sockets i and o, which no other record has.
LEMMA Giving ==
  ASSUME TypeOK, Ownership, NEW r \in Recs, NEW c \in Conn,
         mcn' = [mcn EXCEPT ![r] = c],
         c.I = c.O => c.O = INVALID,
         live \cup {r} \subseteq live', live' \subseteq Recs,
         \A q \in Recs \ {r}, s \in Socks :
           s \in OwnedBy(q) => s # c.I /\ s # c.O /\ s \in open',
         {c.I, c.O} \ {INVALID} \subseteq open'
  PROVE  Ownership'
<1>1. \A q \in Recs : mcn'[q] = IF q = r THEN c ELSE mcn[q]
  BY DEF TypeOK
<1>2. \A q \in Recs : OwnedBy(q)' = IF q = r THEN {c.I, c.O} \ {INVALID}
                                    ELSE OwnedBy(q)
  BY <1>1 DEF OwnedBy
<1>3. \A q \in Recs : OwnedBy(q) \subseteq Socks
  BY HelperTypes
<1>4. OwnedIsOpen'
  BY <1>2, <1>3 DEF OwnedIsOpen, Owned
<1>5. NoSharedSocket'
  BY <1>2, <1>3 DEF Ownership, NoSharedSocket
<1>6. TwoSides'
  BY <1>1 DEF Ownership, TwoSides
<1>7. DeadHoldNothing'
  BY <1>1 DEF Ownership, DeadHoldNothing
<1> QED BY <1>4, <1>5, <1>6, <1>7 DEF Ownership

\* The record that a connect for the socket being served is put into is the
\* record that is being served.
LEMMA SameRecord ==
  ASSUME IInv, pc = "Dispatch", NEW r \in Recs, NEW kind, ConnectTo(r, kind)
  PROVE  r = ptr /\ r \in live /\ mcn[r].I = cur /\ cur \in Socks
<1>1. scan = "Request" /\ ptr \in live /\ mcn[ptr].I = cur /\ cur \in Socks
  BY DEF ConnectTo, IInv, Serves
<1>2. ptr \in ByI(cur) /\ r \in ByI(cur)
  BY <1>1 DEF ConnectTo, RecordFor, ByI
<1>3. live \subseteq Recs
  BY DEF IInv, TypeOK
<1> QED BY <1>1, <1>2, <1>3, Unique DEF ByI, IInv

\* Steps that change neither the table nor the descriptors
LEMMA TableUnchanged ==
  ASSUME Ownership, UNCHANGED table
  PROVE  Ownership'
BY DEF table, Ownership, DeadHoldNothing, OwnedIsOpen, NoSharedSocket, TwoSides,
       Owned, OwnedBy

LEMMA InitOwns == Init => Ownership /\ Serves
BY DEF Init, Ownership, DeadHoldNothing, OwnedIsOpen, NoSharedSocket, TwoSides,
       Owned, OwnedBy, NoConn, Serves

LEMMA NextOwns ==
  ASSUME "post" \notin Faults, IInv, [Next]_vars
  PROVE  Ownership' /\ Serves'
<1> USE ServerAssumption, HelperTypes
<1> USE DEF IInv
<1>0. UNCHANGED <<table, scan>> /\ pc' \notin {"Scan", "Dispatch", "Callback"}
      => Ownership' /\ Serves'
  BY TableUnchanged DEF Serves
<1>1. CASE SelectReady
  BY <1>0, <1>1 DEF SelectReady, frame
<1>2. CASE SelectError
  BY <1>0, <1>2 DEF SelectError, frame
<1>3. CASE SelectTimeout
  <2>1. PICK X \in SUBSET Exiles, E \in SUBSET Pending : TimeoutStep(X, E)
    BY <1>3 DEF SelectTimeout
  <2>2. \A r \in Recs : mcn'[r] = IF r \in X THEN NoConn ELSE DropO(mcn, E)[r]
    BY <2>1 DEF TimeoutStep
  <2>3. \A r \in Recs : /\ DropO(mcn, E)[r].I = mcn[r].I
                        /\ DropO(mcn, E)[r].O = IF r \in live /\ mcn[r].O \in E
                                                THEN INVALID ELSE mcn[r].O
                        /\ r \notin live => DropO(mcn, E)[r] = mcn[r]
    BY DEF DropO, TypeOK, Conn
  <2>4. /\ X \subseteq live /\ live' = live \ X
        /\ \A r \in X : mcn[r].I \in Socks /\ mcn[r].O = INVALID
        /\ \A s \in E : s \in Socks /\ \E r \in live : mcn[r].O = s
        /\ open' = open \ ({mcn[r].I : r \in X} \cup E)
    BY <2>1 DEF TimeoutStep, Exiles, Pending, ExiledI, ByO, TypeOK, Entries
  <2>5. \A r \in Recs : /\ mcn'[r].I # INVALID => mcn'[r].I \in open'
                        /\ mcn'[r].O # INVALID => mcn'[r].O \in open'
    <3> TAKE r \in Recs
    <3>1. CASE r \in X
      BY <3>1, <2>2 DEF NoConn
    <3>2. CASE r \notin X
      <4>1. mcn'[r].I = mcn[r].I
        BY <3>2, <2>2, <2>3
      <4>2. mcn'[r].O = IF r \in live /\ mcn[r].O \in E THEN INVALID
                        ELSE mcn[r].O
        BY <3>2, <2>2, <2>3
      <4>3. ASSUME mcn[r].I # INVALID PROVE mcn[r].I \in open'
        <5>1. mcn[r].I \in Socks
          BY <4>3
        <5>2. mcn[r].I \in open /\ mcn[r].I \notin E
          BY <5>1, <2>4, Unique DEF TypeOK
        <5>3. \A q \in X : mcn[q].I # mcn[r].I
          BY <5>1, <3>2, <2>4, Unique DEF TypeOK
        <5> QED BY <5>2, <5>3, <2>4
      <4>4. ASSUME mcn'[r].O # INVALID PROVE mcn'[r].O \in open'
        <5>1. mcn'[r].O = mcn[r].O /\ mcn[r].O \in Socks
          BY <4>2, <4>4
        <5>2. mcn[r].O \in open /\ r \in live
          BY <5>1, Unique
        <5>3. mcn[r].O \notin E
          BY <5>1, <5>2, <4>2
        <5>4. \A q \in X : mcn[q].I # mcn[r].O
          BY <5>1, <2>4, Unique DEF TypeOK
        <5> QED BY <5>1, <5>2, <5>3, <5>4, <2>4
      <4> QED BY <4>1, <4>3, <4>4
    <3> QED BY <3>1, <3>2
  <2>6. \A r \in Recs : /\ mcn'[r].I \in {mcn[r].I, INVALID}
                        /\ mcn'[r].O \in {mcn[r].O, INVALID}
    BY <2>2, <2>3 DEF NoConn
  <2>7. \A r \in Recs \ live' : mcn'[r] = NoConn
    BY <2>2, <2>3, <2>4 DEF Ownership, DeadHoldNothing
  <2>8. Ownership'
    BY <2>5, <2>6, <2>7, Shrink
  <2> QED BY <2>1, <2>8 DEF TimeoutStep, Serves, frame
<1>4. CASE AcceptDeny
  BY <1>0, <1>4 DEF AcceptDeny, frame
<1>5. ASSUME NEW s \in Socks, NEW r \in Recs, AcceptAllow(s, r)
      PROVE  Ownership' /\ Serves'
  <2>1. s \notin open /\ \A q \in Recs : mcn[q].I # s /\ mcn[q].O # s
    BY <1>5, Unique DEF AcceptAllow
  <2>2. /\ mcn' = [mcn EXCEPT ![r] = [NoConn EXCEPT !.I = s]]
        /\ open' = (open \ OwnedBy(r)) \cup {s}
        /\ live' = live \cup {r}
    BY <1>5, <2>1 DEF AcceptAllow
  <2> DEFINE c == [NoConn EXCEPT !.I = s]
  <2>3. c \in Conn /\ c.I = s /\ c.O = INVALID
    BY DEF NoConn, Conn
  <2>4. \A q \in Recs \ {r}, x \in Socks :
          x \in OwnedBy(q) => x # s /\ x # INVALID /\ x \in open'
    BY <2>1, <2>2 DEF Ownership, NoSharedSocket, OwnedIsOpen, Owned, OwnedBy
  <2>5. live' \subseteq Recs /\ {s, INVALID} \ {INVALID} \subseteq open'
    BY <2>2 DEF TypeOK
  <2>6. Ownership'
    <3>1. mcn' = [mcn EXCEPT ![r] = c] /\ live \cup {r} \subseteq live'
      BY <2>2
    <3> HIDE DEF c
    <3>2. \A q \in Recs \ {r}, x \in Socks :
            x \in OwnedBy(q) => x # c.I /\ x # c.O /\ x \in open'
      BY <2>3, <2>4
    <3>3. {c.I, c.O} \ {INVALID} \subseteq open'
      BY <2>3, <2>5
    <3>4. c.I = c.O => c.O = INVALID
      BY <2>3
    <3> QED BY <2>3, <2>5, <3>1, <3>2, <3>3, <3>4, Giving
  <2> QED BY <1>5, <2>6 DEF AcceptAllow, Serves, frame
<1>6. CASE AcceptDone
  BY <1>0, <1>6 DEF AcceptDone, frame
<1>7. CASE ConnectingNext
  BY <1>0, <1>7 DEF ConnectingNext, frame
<1>8. ASSUME NEW r \in Recs, ConnectingReady(r)
      PROVE  Ownership' /\ Serves'
  <2>1. /\ \A q \in Recs : mcn'[q].I = mcn[q].I /\ mcn'[q].O = mcn[q].O
        /\ \A q \in Recs \ live : mcn'[q] = mcn[q]
        /\ open' = open /\ live' = live /\ r \in live
    BY <1>8 DEF ConnectingReady, ByO, TypeOK, Conn
  <2>2. Ownership'
    BY <2>1, SameSides
  <2> QED BY <1>8, <2>1, <2>2 DEF ConnectingReady, Serves
<1>9. CASE ConnectingUnknown
  BY <1>0, <1>9 DEF ConnectingUnknown, frame
<1>10. CASE Completed
  BY <1>0, <1>10 DEF Completed
<1>11. CASE ConnectingDone
  BY <1>0, <1>11 DEF ConnectingDone, frame
<1>12. CASE CallbackNone
  BY <1>0, <1>12 DEF CallbackNone, frame, TypeOK
<1>13. CASE CallbackOk
  <2>1. /\ \A q \in Recs : mcn'[q].I = mcn[q].I /\ mcn'[q].O = mcn[q].O
        /\ \A q \in Recs \ live : mcn'[q] = mcn[q]
        /\ open' = open /\ live' = live
    BY <1>13 DEF CallbackOk, Serves, TypeOK, Conn
  <2>2. Ownership'
    BY <2>1, SameSides
  <2> QED BY <1>13, <2>2 DEF CallbackOk, Serves, frame, TypeOK
<1>14. CASE CallbackFail
  <2>1. cb \in Recs /\ Erase(cb)
    BY <1>14 DEF CallbackFail, CalledBack
  <2> QED BY <1>14, <2>1, Erasing DEF CallbackFail, Serves, frame, TypeOK
<1>15. CASE CallbackProxyFail
  <2>1. cb \in live /\ cb \in Recs
    BY <1>15 DEF CallbackProxyFail, Serves, TypeOK
  <2>2. \A q \in Recs : /\ mcn'[q].I = mcn[q].I
                        /\ mcn'[q].O = IF q = cb THEN INVALID ELSE mcn[q].O
                        /\ q \notin live => mcn'[q] = mcn[q]
    BY <1>15, <2>1 DEF CallbackProxyFail, TypeOK, Conn
  <2>3. \A q \in Recs : /\ mcn'[q].I # INVALID => mcn'[q].I \in open'
                        /\ mcn'[q].O # INVALID => mcn'[q].O \in open'
    BY <1>15, <2>1, <2>2, Unique DEF CallbackProxyFail
  <2>4. live' = live /\ \A q \in Recs \ live' : mcn'[q] = NoConn
    BY <1>15, <2>2 DEF CallbackProxyFail, Ownership, DeadHoldNothing
  <2>5. Ownership'
    BY <2>2, <2>3, <2>4, Shrink
  <2> QED BY <1>15, <2>5 DEF CallbackProxyFail, Serves, frame, TypeOK
<1>16. ASSUME NEW s \in Socks, NEW r \in Recs, ReadKnown(s, r)
       PROVE  Ownership' /\ Serves'
  <2>1. r \in live /\ s \in OwnedBy(r) /\ UNCHANGED table
    BY <1>16 DEF ReadKnown, ByI, ByO, OwnedBy
  <2>2. OwnedBy(r)' = OwnedBy(r)
    BY <2>1 DEF OwnedBy, table
  <2> QED BY <1>16, <2>1, <2>2, TableUnchanged DEF ReadKnown, Serves, table
<1>17. ASSUME NEW s \in Socks, ReadUnknown(s)
       PROVE  Ownership' /\ Serves'
  <2>1. \A q \in Recs : mcn[q].I # s /\ mcn[q].O # s
    BY <1>17, Unique DEF ReadUnknown, ByI, ByO
  <2>2. \A q \in Recs : /\ mcn'[q].I # INVALID => mcn'[q].I \in open'
                        /\ mcn'[q].O # INVALID => mcn'[q].O \in open'
    BY <1>17, <2>1, Unique DEF ReadUnknown
  <2>3. mcn' = mcn /\ live' = live /\ \A q \in Recs \ live' : mcn'[q] = NoConn
    BY <1>17 DEF ReadUnknown, Ownership, DeadHoldNothing
  <2>4. Ownership'
    BY <2>2, <2>3, Shrink
  <2> QED BY <1>17, <2>4 DEF ReadUnknown, Serves, frame
<1>18. CASE ScanFail
  <2>1. ptr \in Recs /\ Erase(ptr)
    BY <1>18 DEF ScanFail, Serves, TypeOK
  <2> QED BY <1>18, <2>1, Erasing DEF ScanFail, Idle, Serves
<1>19. CASE ScanCut
  <2>1. Ownership'
    <3>1. /\ mcn' = DropO(DropI(mcn, {cur}), {cur}) /\ live' = live
          /\ open' = open \ {cur} /\ {cur} \in SUBSET Sock
      BY <1>19 DEF ScanCut, TypeOK
    <3> QED BY <3>1, Closing
  <2> QED BY <1>19, <2>1 DEF ScanCut, Idle, Serves
<1> DEFINE Rescinded(c) ==
      /\ \A q \in Recs : /\ mcn'[q].I \in {mcn[q].I, INVALID}
                         /\ mcn'[q].O \in {mcn[q].O, INVALID}
                         /\ q # ptr => mcn'[q] = mcn[q]
      /\ live' = live
      /\ open' = open \ c /\ c \subseteq {mcn[ptr].I, mcn[ptr].O}
      /\ {mcn'[ptr].I, mcn'[ptr].O} \cap c \subseteq {INVALID}
<1>R. ASSUME NEW c, Rescinded(c), ptr \in live
      PROVE  Ownership'
  <2>1. ptr \in Recs
    BY <1>R DEF TypeOK
  <2>2. \A q \in Recs : /\ mcn'[q].I # INVALID => mcn'[q].I \in open'
                        /\ mcn'[q].O # INVALID => mcn'[q].O \in open'
    <3> TAKE q \in Recs
    <3>1. /\ mcn'[q].I # INVALID => mcn'[q].I = mcn[q].I /\ mcn[q].I \in Socks
          /\ mcn'[q].O # INVALID => mcn'[q].O = mcn[q].O /\ mcn[q].O \in Socks
      BY <1>R
    <3>2. CASE q = ptr
      BY <1>R, <3>1, <3>2, Unique
    <3>3. CASE q # ptr
      <4>1. /\ mcn'[q].I # INVALID => mcn'[q].I \in open /\ mcn'[q].I \notin c
            /\ mcn'[q].O # INVALID => mcn'[q].O \in open /\ mcn'[q].O \notin c
        BY <1>R, <2>1, <3>1, <3>3, Unique
      <4> QED BY <4>1, <1>R
    <3> QED BY <3>2, <3>3
  <2>3. \A q \in Recs \ live' : mcn'[q] = NoConn
    BY <1>R DEF Ownership, DeadHoldNothing
  <2> QED BY <1>R, <2>2, <2>3, Shrink
<1>20. ASSUME NEW b \in BOOLEAN, NEW c \in BOOLEAN, ScanRequest(b, c)
       PROVE  Ownership' /\ Serves'
  <2>1. ptr \in live /\ ptr \in Recs /\ mcn[ptr].I = cur /\ cur \in Socks
    BY <1>20 DEF ScanRequest, Serves, Inner, TypeOK
  <2>2. Rescinded(Recycled(c)) /\ mcn'[ptr].I = cur
    <3>1. mcn[ptr].I # mcn[ptr].O
      BY <2>1, Unique
    <3> QED BY <1>20, <2>1, <3>1 DEF ScanRequest, Recycled, TypeOK, Conn
  <2>3. Ownership'
    <3> HIDE DEF Rescinded
    <3> QED BY <1>R, <2>1, <2>2
  <2> QED BY <1>20, <2>1, <2>2, <2>3 DEF ScanRequest, Serves
<1>21. ASSUME NEW b \in BOOLEAN, NEW c \in BOOLEAN, ScanReject(b, c)
       PROVE  Ownership' /\ Serves'
  <2>1. ptr \in live /\ ptr \in Recs /\ mcn[ptr].I = cur /\ cur \in Socks
    BY <1>21 DEF ScanReject, Serves, Inner, TypeOK
  <2>2. Rescinded(Recycled(c) \cup {cur})
    <3>1. mcn[ptr].I # mcn[ptr].O
      BY <2>1, Unique
    <3> QED BY <1>21, <2>1, <3>1 DEF ScanReject, Recycled, TypeOK, Conn
  <2>3. Ownership'
    <3> HIDE DEF Rescinded
    <3> QED BY <1>R, <2>1, <2>2
  <2> QED BY <1>21, <2>3 DEF ScanReject, Idle, Serves
<1>22. CASE ScanData
  <2>1. ptr \in live /\ cur \in Socks
    BY <1>22 DEF ScanData, Serves
  <2> QED BY <1>22, <2>1, TableUnchanged DEF ScanData, Serves, table
<1>23. ASSUME NEW b \in BOOLEAN, ScanResponse(b)
       PROVE  Ownership' /\ Serves'
  <2>1. ptr \in live /\ ptr \in Recs /\ mcn[ptr].O = cur /\ cur \in Socks
    BY <1>23 DEF ScanResponse, Serves, Inner, OwnedBy, TypeOK
  <2>2. Ownership'
    <3> DEFINE S == IF b THEN {cur} ELSE {}
    <3>1. /\ mcn' = DropO(mcn, S) /\ live' = live
          /\ open' = open \ S /\ S \subseteq {cur}
      BY <1>23 DEF ScanResponse
    <3>2. \A q \in Recs : /\ mcn'[q].I = mcn[q].I
                          /\ mcn'[q].O = IF q \in live /\ mcn[q].O \in S
                                         THEN INVALID ELSE mcn[q].O
                          /\ q \notin live => mcn'[q] = mcn[q]
      BY <3>1 DEF DropO, TypeOK, Conn
    <3>3. \A q \in Recs : mcn[q].I # cur
      BY <2>1, Unique
    <3> HIDE DEF S
    <3>4. \A q \in Recs : /\ mcn'[q].I # INVALID => mcn'[q].I \in open'
                          /\ mcn'[q].O # INVALID => mcn'[q].O \in open'
      BY <2>1, <3>1, <3>2, <3>3, Unique
    <3>5. \A q \in Recs \ live' : mcn'[q] = NoConn
      BY <3>1, <3>2 DEF Ownership, DeadHoldNothing
    <3> QED BY <3>1, <3>2, <3>4, <3>5, Shrink
  <2> QED BY <1>23, <2>1, <2>2 DEF ScanResponse, Serves
<1>24. CASE PostBodyCut
  BY <1>24, "post" \notin Faults DEF PostBodyCut
<1>25. ASSUME NEW r \in Recs, NEW kind \in Kinds, ConnectReuse(r, kind)
       PROVE  Ownership' /\ Serves'
  <2>1. r \in live /\ UNCHANGED <<open, live, scan>>
        /\ mcn' = [mcn EXCEPT ![r].ev = kind]
    BY <1>25, SameRecord DEF ConnectReuse, ConnectTo
  <2>2. /\ \A q \in Recs : mcn'[q].I = mcn[q].I /\ mcn'[q].O = mcn[q].O
        /\ \A q \in Recs \ live : mcn'[q] = mcn[q]
    BY <2>1 DEF TypeOK, Conn
  <2>3. Ownership'
    BY <2>1, <2>2, SameSides
  <2> QED BY <1>25, <2>1, <2>3 DEF ConnectReuse, Serves
<1>26. ASSUME NEW r \in Recs, NEW kind \in Kinds, NEW s \in Socks,
              NEW b \in BOOLEAN, ConnectNew(r, kind, s, b)
       PROVE  Ownership' /\ Serves'
  <2>1. /\ r = ptr /\ r \in live /\ mcn[r].I = cur /\ cur \in Socks
        /\ s \notin open
    BY <1>26, SameRecord DEF ConnectNew, ConnectTo
  <2> DEFINE c == [I |-> cur, O |-> s, prog |-> b, ev |-> kind]
  <2>2. mcn' = [mcn EXCEPT ![r] = c] /\ open' = open \cup {s}
        /\ live' = live \cup {r} /\ UNCHANGED scan
    BY <1>26 DEF ConnectNew
  <2>3. c \in Conn /\ c.I = cur /\ c.O = s /\ cur \in open /\ cur # s
    BY <2>1, Unique DEF Conn, Events
  <2> HIDE DEF c
  <2>4. \A q \in Recs \ {r}, x \in Socks :
          x \in OwnedBy(q) => x # c.I /\ x # c.O /\ x \in open'
    BY <2>1, <2>2, <2>3, Unique DEF OwnedBy
  <2>5. Ownership'
    <3>1. live' \subseteq Recs /\ live \cup {r} \subseteq live'
      BY <2>2 DEF TypeOK
    <3>2. {c.I, c.O} \ {INVALID} \subseteq open' /\ c.I # c.O
      BY <2>2, <2>3
    <3> QED BY <2>2, <2>3, <2>4, <3>1, <3>2, Giving, ZenonT(40)
  <2> QED BY <1>26, <2>1, <2>2, <2>5 DEF ConnectNew, Serves
<1>27. ASSUME NEW r \in Recs, NEW kind \in Kinds, ConnectFail(r, kind)
       PROVE  Ownership' /\ Serves'
  <2>1. /\ r = ptr /\ r \in live /\ mcn[r].I = cur /\ cur \in Socks
        /\ mcn[r].O = INVALID
    BY <1>27, SameRecord DEF ConnectFail, ConnectTo, FoundO
  <2>2. mcn' = [mcn EXCEPT ![r] = NoConn] /\ open' = open \ {cur}
        /\ live' = live
    BY <1>27, <2>1 DEF ConnectFail
  <2>3. Rescinded({cur})
    BY <2>1, <2>2 DEF NoConn, TypeOK
  <2>4. Ownership'
    <3> HIDE DEF Rescinded
    <3> QED BY <1>R, <2>1, <2>3
  <2> QED BY <1>27, <2>4 DEF ConnectFail, Idle, Serves
<1>28. CASE Connected
  BY <1>28, TableUnchanged DEF Connected, Idle, Serves
<1>29. CASE Relay
  BY <1>29, TableUnchanged DEF Relay, Idle, Serves
<1>30. ASSUME NEW b \in BOOLEAN, WebReply(b)
       PROVE  Ownership' /\ Serves'
  <2> DEFINE S == IF b THEN {cur} ELSE {}
  <2>1. /\ mcn' = DropI(mcn, S) /\ live' = live /\ open' = open \ S
        /\ ptr \in live /\ cur \in Socks /\ (b => mcn[ptr].I = cur)
    BY <1>30 DEF WebReply, Serves
  <2>2. \A q \in Recs : /\ mcn'[q].O = mcn[q].O
                        /\ mcn'[q].I = IF q \in live /\ mcn[q].I \in S
                                       THEN INVALID ELSE mcn[q].I
                        /\ q \notin live => mcn'[q] = mcn[q]
    BY <2>1 DEF DropI, TypeOK, Conn
  <2>3. \A q \in Recs : b => mcn[q].O # cur
    BY <2>1, Unique DEF TypeOK
  <2>4. \A q \in Recs : /\ mcn'[q].I # INVALID => mcn'[q].I \in open'
                        /\ mcn'[q].O # INVALID => mcn'[q].O \in open'
    <3>1. /\ \A s \in S : b /\ s = cur
          /\ \A q \in Recs : mcn[q].O \notin S
      BY <2>3
    <3> HIDE DEF S
    <3>2. \A q \in Recs : mcn[q].I \in Socks /\ mcn[q].I \in S => q \in live
      BY Unique
    <3> QED BY <2>1, <2>2, <3>1, <3>2, Unique
  <2>5. \A q \in Recs \ live' : mcn'[q] = NoConn
    BY <2>1, <2>2 DEF Ownership, DeadHoldNothing
  <2>6. Ownership'
    <3> HIDE DEF S
    <3> QED BY <2>1, <2>2, <2>4, <2>5, Shrink
  <2> QED BY <1>30, <2>6 DEF WebReply, Idle, Serves
<1>31. ASSUME NEW b \in BOOLEAN, NEW u \in BOOLEAN,
              NEW res \in Results,
              WebConfig(b, u, res)
       PROVE  Ownership' /\ Serves'
  <2> DEFINE SI == IF b THEN {cur} ELSE {}
             S  == IF u THEN obsR \ SI ELSE {}
             C  == SI \cup HeldI(S) \cup HeldO(S)
  <2>1. /\ mcn' = DropO(DropI(mcn, SI \cup S), S) /\ live' = live
        /\ open' = open \ C
        /\ ptr \in live /\ cur \in Socks /\ mcn[ptr].I = cur
    BY <1>31 DEF WebConfig, Serves
  <2>2. \A q \in live : /\ mcn[q].I \in C \ {INVALID} => mcn[q].I \in SI \cup S
                        /\ mcn[q].O \in C \ {INVALID} => mcn[q].O \in S
    <3>1. \A q \in Recs : mcn[q].O # cur
      BY <2>1, Unique DEF TypeOK
    <3> QED BY <3>1 DEF HeldI, HeldO, TypeOK
  <2>3. SI \cup S \in SUBSET Sock /\ S \in SUBSET Sock
    BY <2>1 DEF TypeOK
  <2>4. Ownership'
    <3> DEFINE T == SI \cup S
    <3>1. T \in SUBSET Sock /\ mcn' = DropO(DropI(mcn, T), S)
      BY <2>1, <2>3
    <3>2. \A q \in live : /\ mcn[q].I \in C \ {INVALID} => mcn[q].I \in T
                          /\ mcn[q].O \in C \ {INVALID} => mcn[q].O \in S
      BY <2>2
    <3> HIDE DEF SI, S, C, T
    <3> QED BY <2>1, <2>3, <3>1, <3>2, Closing, ZenonT(40)
  <2> QED BY <1>31, <2>4 DEF WebConfig, Idle, Serves
<1>32. CASE ReadDone
  BY <1>0, <1>32 DEF ReadDone, frame
<1>33. CASE Restart
  <2>1. \A q \in Recs : mcn'[q] = NoConn
    BY <1>33 DEF Restart
  <2>2. Ownership'
    <3>1. \A q \in Recs : mcn'[q].I = INVALID /\ mcn'[q].O = INVALID
      BY <2>1 DEF NoConn
    <3> QED BY <2>1, <3>1, Shrink
  <2> QED BY <1>33, <2>2 DEF Restart, Idle, Serves
<1>34. CASE Relaunch
  <2>1. \A q \in Recs : mcn'[q] = NoConn
    BY <1>34 DEF Relaunch
  <2>2. Ownership'
    <3>1. \A q \in Recs : mcn'[q].I = INVALID /\ mcn'[q].O = INVALID
      BY <2>1 DEF NoConn
    <3> QED BY <2>1, <3>1, Shrink
  <2> QED BY <1>34, <2>2 DEF Relaunch, Idle, Serves
<1>35. CASE UNCHANGED vars
  <2>1. OwnedBy(ptr)' = OwnedBy(ptr)
    BY <1>35 DEF vars, table, frame, OwnedBy
  <2> QED BY <1>35, <2>1, TableUnchanged DEF vars, table, frame, Serves
<1> QED
  BY <1>1, <1>2, <1>3, <1>4, <1>5, <1>6, <1>7, <1>8, <1>9, <1>10, <1>11,
     <1>12, <1>13, <1>14, <1>15, <1>16, <1>17, <1>18, <1>19, <1>20, <1>21,
     <1>22, <1>23, <1>24, <1>25, <1>26, <1>27, <1>28, <1>29, <1>30, <1>31,
     <1>32, <1>33, <1>34, <1>35
  DEF Next, Select, Accept, Complete, Callback, Scan, Proxy, Web

\* The connection table is sound at every moment: the records' sockets are
\* open descriptors, and each socket is one side of one record, which is what
\* the searches by socket in Moai_connection.c presume.
THEOREM OwnershipHolds ==
  ASSUME "post" \notin Faults
  PROVE  Spec => []Ownership
<1>1. Init => IInv
  BY InitType, InitOwns DEF IInv
<1>2. IInv /\ [Next]_vars => IInv'
  BY NextType, NextOwns DEF IInv
<1>3. Spec => []IInv
  BY <1>1, <1>2, PTL DEF Spec
<1>4. IInv => Ownership
  BY DEF IInv
<1> QED BY <1>3, <1>4, PTL

-----------------------------------------------------------------------------
(***************************************************************************)
(* What the steps may never do, from the ownership of sockets: lose track  *)
(* of an open descriptor, touch a connection that the handler does not     *)
(* serve, overflow the fd_set or leave a socket out that it has room for.  *)
(***************************************************************************)


LEMMA Inductive ==
  ASSUME "post" \notin Faults
  PROVE  Spec => []IInv
<1>1. Init => IInv
  BY InitType, InitOwns DEF IInv
<1>2. IInv /\ [Next]_vars => IInv'
  BY NextType, NextOwns DEF IInv
<1> QED BY <1>1, <1>2, PTL DEF Spec

-----------------------------------------------------------------------------
(***************************************************************************)
(* No descriptor is lost.                                                  *)
(***************************************************************************)

\* What the step opens it gives to a record, and what it takes from a record it
\* closes.
Tracks == /\ \A s \in open' \ open : s \in Owned'
          /\ \A q \in Recs : OwnedBy(q) \cap open' \subseteq Owned'

LEMMA TracksOwned ==
  ASSUME Tracks
  PROVE  (open' \ Owned') \subseteq (open \ Owned)
BY DEF Tracks, Owned

\* Records that keep what stays open
LEMMA TracksKept ==
  ASSUME open' \subseteq open,
         \A q \in Recs : OwnedBy(q) \cap open' \subseteq OwnedBy(q)'
  PROVE  Tracks
BY DEF Tracks, Owned

LEMMA TracksSame ==
  ASSUME open' \subseteq open,
         \A q \in Recs : mcn'[q].I = mcn[q].I /\ mcn'[q].O = mcn[q].O
  PROVE  Tracks
BY TracksKept DEF OwnedBy

\* The sockets SI are taken from the I side and SO from the O side, and those
\* of them that have an owner are closed.
LEMMA TracksDrop ==
  ASSUME TypeOK, NEW SI, NEW SO, mcn' = DropO(DropI(mcn, SI), SO), open' \subseteq open,
         \A r \in live : /\ mcn[r].I \in SI => mcn[r].I \notin open'
                         /\ mcn[r].O \in SO => mcn[r].O \notin open'
  PROVE  Tracks
<1>1. \A r \in Recs : /\ mcn'[r].I = IF r \in live /\ mcn[r].I \in SI
                                     THEN INVALID ELSE mcn[r].I
                      /\ mcn'[r].O = IF r \in live /\ mcn[r].O \in SO
                                     THEN INVALID ELSE mcn[r].O
  BY DEF DropO, DropI, TypeOK, Conn
<1>2. \A r \in Recs : OwnedBy(r) \cap open' \subseteq OwnedBy(r)'
  BY <1>1 DEF OwnedBy
<1> QED BY <1>2, TracksKept

LEMMA TracksErased ==
  ASSUME TypeOK, NEW r \in Recs, Erase(r)
  PROVE  Tracks
<1>1. \A q \in Recs : mcn'[q] = IF q = r THEN NoConn ELSE mcn[q]
  BY DEF Erase, TypeOK
<1>2. open' = open \ OwnedBy(r)
  BY DEF Erase, CloseOwned
<1>3. \A q \in Recs : OwnedBy(q) \cap open' \subseteq OwnedBy(q)'
  BY <1>1, <1>2 DEF OwnedBy
<1> QED BY <1>2, <1>3, TracksKept

\* The record r gets new sides, and among them the new descriptors.
LEMMA TracksGiven ==
  ASSUME TypeOK, NEW r \in Recs, NEW c, mcn' = [mcn EXCEPT ![r] = c],
         open' \subseteq open \cup ({c.I, c.O} \ {INVALID}),
         OwnedBy(r) \cap open' \subseteq {c.I, c.O}
  PROVE  Tracks
<1>1. \A q \in Recs : mcn'[q] = IF q = r THEN c ELSE mcn[q]
  BY DEF TypeOK
<1>2. \A q \in Recs : OwnedBy(q) \cap open' \subseteq OwnedBy(q)'
  BY <1>1 DEF OwnedBy
<1>3. ({c.I, c.O} \ {INVALID}) = OwnedBy(r)'
  BY <1>1 DEF OwnedBy
<1> QED BY <1>2, <1>3 DEF Tracks, Owned

LEMMA NextTracks ==
  ASSUME "post" \notin Faults, IInv, Next, pc # "Restart"
  PROVE  Tracks
<1> USE ServerAssumption, HelperTypes
<1> USE DEF IInv
<1>0. UNCHANGED <<open, mcn>> => Tracks
  BY TracksSame
<1>1. CASE Select
  <2>1. CASE SelectReady \/ SelectError
    BY <1>0, <2>1 DEF SelectReady, SelectError, table
  <2>2. CASE SelectTimeout
    <3>1. PICK X \in SUBSET Exiles, E \in SUBSET Pending : TimeoutStep(X, E)
      BY <2>2 DEF SelectTimeout
    <3>2. \A r \in Recs : mcn'[r] = IF r \in X THEN NoConn ELSE DropO(mcn, E)[r]
      BY <3>1 DEF TimeoutStep
    <3>3. \A r \in Recs : /\ DropO(mcn, E)[r].I = mcn[r].I
                          /\ DropO(mcn, E)[r].O = IF r \in live /\ mcn[r].O \in E
                                                  THEN INVALID ELSE mcn[r].O
      BY DEF DropO, TypeOK, Conn
    <3>4. /\ open' = open \ (ExiledI(X) \cup E)
          /\ \A r \in X : mcn[r].I \in ExiledI(X) /\ mcn[r].O = INVALID
      BY <3>1 DEF TimeoutStep, Exiles, ExiledI
    <3>5. \A q \in Recs : OwnedBy(q) \cap open' \subseteq OwnedBy(q)'
      BY <3>2, <3>3, <3>4 DEF OwnedBy
    <3> QED BY <3>4, <3>5, TracksKept
  <2> QED BY <1>1, <2>1, <2>2 DEF Select
<1>2. CASE Accept
  <2>1. CASE AcceptDeny \/ AcceptDone
    BY <1>0, <2>1 DEF AcceptDeny, AcceptDone, table
  <2>2. ASSUME NEW s \in Socks, NEW r \in Recs, AcceptAllow(s, r) PROVE Tracks
    <3>1. s \notin open /\ mcn[r].I # s
      BY <2>2, Unique DEF AcceptAllow
    <3>2. /\ mcn' = [mcn EXCEPT ![r] = [NoConn EXCEPT !.I = s]]
          /\ open' = (open \ OwnedBy(r)) \cup {s}
      BY <2>2, <3>1 DEF AcceptAllow
    <3>3. [NoConn EXCEPT !.I = s].I = s /\ [NoConn EXCEPT !.I = s].O = INVALID
      BY DEF NoConn
    <3> QED BY <3>2, <3>3, TracksGiven
  <2> QED BY <1>2, <2>1, <2>2 DEF Accept
<1>3. CASE Complete
  <2>1. CASE ConnectingNext \/ ConnectingUnknown \/ Completed \/ ConnectingDone
    BY <1>0, <2>1 DEF ConnectingNext, ConnectingUnknown, Completed, ConnectingDone, table
  <2>2. ASSUME NEW r \in Recs, ConnectingReady(r) PROVE Tracks
    BY <2>2, TracksSame DEF ConnectingReady, TypeOK, Conn
  <2> QED BY <1>3, <2>1, <2>2 DEF Complete
<1>4. CASE Callback
  <2>1. CASE CallbackNone
    BY <1>0, <2>1 DEF CallbackNone, table
  <2>2. CASE CallbackOk
    BY <2>2, TracksSame DEF CallbackOk, TypeOK, Conn
  <2>3. CASE CallbackFail
    BY <2>3, TracksErased DEF CallbackFail, CalledBack
  <2>4. CASE CallbackProxyFail
    <3>1. cb \in Recs /\ open' = open \ {mcn[cb].O}
      BY <2>4 DEF CallbackProxyFail, CalledBack
    <3>2. \A q \in Recs : /\ mcn'[q].I = mcn[q].I
                          /\ mcn'[q].O = IF q = cb THEN INVALID ELSE mcn[q].O
      BY <2>4, <3>1 DEF CallbackProxyFail, TypeOK, Conn
    <3>3. \A q \in Recs : OwnedBy(q) \cap open' \subseteq OwnedBy(q)'
      BY <3>1, <3>2 DEF OwnedBy
    <3> QED BY <3>1, <3>3, TracksKept
  <2> QED BY <1>4, <2>1, <2>2, <2>3, <2>4 DEF Callback
<1>5. CASE Scan
  <2>1. ASSUME NEW s \in Socks,
               ReadUnknown(s) \/ \E r \in Recs : ReadKnown(s, r)
        PROVE  Tracks
    BY <2>1, TracksSame DEF ReadUnknown, ReadKnown, table
  <2>2. CASE ScanFail
    BY <2>2, TracksErased DEF ScanFail, Serves, TypeOK
  <2>3. CASE ScanCut
    BY <2>3, TracksDrop DEF ScanCut
  <2>4. CASE ScanData
    BY <1>0, <2>4 DEF ScanData, table
  <2>5. ASSUME NEW b \in BOOLEAN, NEW c \in BOOLEAN,
               ScanRequest(b, c) \/ ScanReject(b, c)
        PROVE  Tracks
    <3>1. ptr \in Recs
      BY <2>5 DEF ScanRequest, ScanReject, Serves, TypeOK
    <3>2. \A q \in Recs : /\ q # ptr => mcn'[q] = mcn[q]
                          /\ mcn'[q].I # mcn[q].I => mcn[q].I \notin open'
                          /\ mcn'[q].O # mcn[q].O => mcn[q].O \notin open'
      BY <2>5, <3>1 DEF ScanRequest, ScanReject, Inner, Recycled, TypeOK, Conn
    <3>3. \A q \in Recs : OwnedBy(q) \cap open' \subseteq OwnedBy(q)'
      BY <3>2 DEF OwnedBy
    <3>4. open' \subseteq open
      BY <2>5 DEF ScanRequest, ScanReject
    <3> QED BY <3>3, <3>4, TracksKept
  <2>6. ASSUME NEW cut \in BOOLEAN, ScanResponse(cut) PROVE Tracks
    <3> DEFINE S == IF cut THEN {cur} ELSE {}
    <3>1. open' = open \ S /\ mcn' = DropO(mcn, S)
      BY <2>6 DEF ScanResponse
    <3> HIDE DEF S
    <3>2. \A r \in Recs : /\ mcn'[r].I = mcn[r].I
                          /\ mcn'[r].O = IF r \in live /\ mcn[r].O \in S
                                         THEN INVALID ELSE mcn[r].O
      BY <3>1 DEF DropO, TypeOK, Conn
    <3>3. \A q \in Recs : OwnedBy(q) \cap open' \subseteq OwnedBy(q)'
      BY <3>1, <3>2 DEF OwnedBy
    <3> QED BY <3>1, <3>3, TracksKept
  <2> QED BY <1>5, <2>1, <2>2, <2>3, <2>4, <2>5, <2>6 DEF Scan
<1>6. CASE Proxy
  <2>1. CASE Relay \/ Connected
    BY <1>0, <2>1 DEF Relay, Connected, table
  <2>2. CASE PostBodyCut
    BY <2>2 DEF PostBodyCut
  <2>3. ASSUME NEW r \in Recs, NEW kind \in Kinds, ConnectReuse(r, kind) PROVE Tracks
    BY <2>3, TracksSame DEF ConnectReuse, TypeOK, Conn
  <2>4. ASSUME NEW r \in Recs, NEW kind \in Kinds, NEW s \in Socks, NEW b \in BOOLEAN,
               ConnectNew(r, kind, s, b)
        PROVE  Tracks
    <3> DEFINE c == [I |-> cur, O |-> s, prog |-> b, ev |-> kind]
    <3>1. mcn[r].I = cur /\ mcn[r].O = INVALID
      BY <2>4, SameRecord DEF ConnectNew, ConnectTo, FoundO
    <3>2. mcn' = [mcn EXCEPT ![r] = c] /\ open' = open \cup {s}
      BY <2>4 DEF ConnectNew
    <3>3. OwnedBy(r) \subseteq {c.I, c.O} /\ c.O = s
      BY <3>1 DEF OwnedBy
    <3> HIDE DEF c
    <3> QED BY <3>2, <3>3, TracksGiven
  <2>5. ASSUME NEW r \in Recs, NEW kind \in Kinds, ConnectFail(r, kind) PROVE Tracks
    <3>1. mcn[r].I = cur /\ mcn[r].O = INVALID
      BY <2>5, SameRecord DEF ConnectFail, ConnectTo, FoundO
    <3>2. mcn' = [mcn EXCEPT ![r] = NoConn] /\ open' = open \ {cur}
      BY <2>5 DEF ConnectFail
    <3>3. OwnedBy(r) \cap open' \subseteq {NoConn.I, NoConn.O}
      BY <3>1, <3>2 DEF OwnedBy
    <3> QED BY <3>2, <3>3, TracksGiven
  <2> QED BY <1>6, <2>1, <2>2, <2>3, <2>4, <2>5 DEF Proxy
<1>7. CASE Web
  <2>1. ASSUME NEW b \in BOOLEAN, WebReply(b) PROVE Tracks
    <3> DEFINE S == IF b THEN {cur} ELSE {}
    <3>1. open' = open \ S /\ mcn' = DropI(mcn, S)
      BY <2>1 DEF WebReply
    <3> HIDE DEF S
    <3>2. \A r \in Recs : /\ mcn'[r].O = mcn[r].O
                          /\ mcn'[r].I = IF r \in live /\ mcn[r].I \in S
                                         THEN INVALID ELSE mcn[r].I
      BY <3>1 DEF DropI, TypeOK, Conn
    <3>3. \A q \in Recs : OwnedBy(q) \cap open' \subseteq OwnedBy(q)'
      BY <3>1, <3>2 DEF OwnedBy
    <3> QED BY <3>1, <3>3, TracksKept
  <2>2. ASSUME NEW b \in BOOLEAN, NEW u \in BOOLEAN,
               NEW res \in Results, WebConfig(b, u, res)
        PROVE  Tracks
    <3> DEFINE SI == IF b THEN {cur} ELSE {}
               S  == IF u THEN obsR \ SI ELSE {}
    <3>1. /\ mcn' = DropO(DropI(mcn, SI \cup S), S)
          /\ open' = open \ (SI \cup HeldI(S) \cup HeldO(S))
      BY <2>2 DEF WebConfig
    <3> HIDE DEF SI, S
    <3>2. \A r \in live : /\ mcn[r].I \in SI \cup S => mcn[r].I \notin open'
                          /\ mcn[r].O \in S => mcn[r].O \notin open'
      BY <3>1 DEF HeldI, HeldO, ByI, ByO
    <3> QED BY <3>1, <3>2, TracksDrop
  <2> QED BY <1>7, <2>1, <2>2 DEF Web
<1>8. CASE ReadDone \/ Relaunch
  <2>1. CASE ReadDone
    BY <1>0, <2>1 DEF ReadDone, table
  <2>2. CASE Relaunch
    BY <2>2 DEF Relaunch, Tracks
  <2> QED BY <1>8, <2>1, <2>2
<1>9. ~Restart
  BY DEF Restart
<1> QED BY <1>1, <1>2, <1>3, <1>4, <1>5, <1>6, <1>7, <1>8, <1>9 DEF Next

\* No step but the restart of the server loses track of an open descriptor: a
\* descriptor without a record would never be closed.
THEOREM NoLeakHolds ==
  ASSUME "post" \notin Faults
  PROVE  Spec => NoLeak
<1>1. IInv /\ [Next]_vars
      => [pc # "Restart" => (open' \ Owned') \subseteq (open \ Owned)]_vars
  <2> SUFFICES ASSUME IInv, Next, pc # "Restart"
               PROVE  (open' \ Owned') \subseteq (open \ Owned)
    OBVIOUS
  <2> QED BY NextTracks, TracksOwned
<1> QED BY <1>1, Inductive, PTL DEF Spec, NoLeak
-----------------------------------------------------------------------------
(***************************************************************************)
(* A handler changes no connection but the one that it serves.             *)
(***************************************************************************)

\* What the step leaves of connection r
Spares(r) == /\ mcn'[r] = mcn[r]
             /\ OwnedBy(r) \cap open \subseteq open'
             /\ OwnedBy(r) \cap obsR \subseteq obsR'

\* Sockets of q are closed and no longer observed: nobody else has them.
LEMMA SparesOthers ==
  ASSUME TypeOK, Ownership, NEW q \in Recs, NEW r \in Recs, r # q,
         NEW C, C \subseteq {mcn[q].I, mcn[q].O}, mcn'[r] = mcn[r],
         open \ C \subseteq open', obsR \ C \subseteq obsR'
  PROVE  Spares(r)
<1>1. OwnedBy(r) \cap OwnedBy(q) = {}
  BY DEF Ownership, NoSharedSocket
<1>2. OwnedBy(r) \cap C = {}
  BY <1>1 DEF OwnedBy
<1> QED BY <1>2 DEF Spares

LEMMA ObserveKeeps ==
  ASSUME NEW S, NEW o, Observe(S, o)
  PROVE  S \subseteq obsR'
BY DEF Observe

LEMMA CallbackSpares ==
  ASSUME IInv, Callback, NEW r \in Recs, r # cb
  PROVE  Spares(r)
<1> USE DEF IInv
<1>1. cb \in Recs
  BY DEF Callback, CallbackNone, CallbackOk, CallbackFail, CallbackProxyFail, CalledBack
<1>2. CASE CallbackNone
  BY <1>2 DEF CallbackNone, table, sets, Spares
<1>3. CASE CallbackOk
  <2>1. mcn'[r] = mcn[r] /\ open' = open /\ obsR \subseteq obsR'
    BY <1>3, ObserveKeeps DEF CallbackOk, TypeOK
  <2> QED BY <2>1 DEF Spares
<1>4. CASE CallbackFail
  <2>1. mcn'[r] = mcn[r] /\ open' = open \ OwnedBy(cb)
    BY <1>4 DEF CallbackFail, Erase, CloseOwned, TypeOK
  <2>2. obsR \ OwnedBy(cb) \subseteq obsR'
    BY <1>4, ObserveKeeps DEF CallbackFail
  <2>3. OwnedBy(cb) \subseteq {mcn[cb].I, mcn[cb].O}
    BY DEF OwnedBy
  <2> QED BY <1>1, <2>1, <2>2, <2>3, SparesOthers
<1>5. CASE CallbackProxyFail
  <2>1. mcn'[r] = mcn[r] /\ open' = open \ {mcn[cb].O}
    BY <1>5 DEF CallbackProxyFail, TypeOK
  <2>2. obsR \ {mcn[cb].O} \subseteq obsR'
    BY <1>5, ObserveKeeps DEF CallbackProxyFail
  <2> QED BY <1>1, <2>1, <2>2, SparesOthers
<1> QED BY <1>2, <1>3, <1>4, <1>5 DEF Callback

LEMMA ScanSpares ==
  ASSUME Alias = {}, IInv, Scan, pc = "Scan", NEW r \in Recs, r # ptr
  PROVE  Spares(r)
<1> USE DEF IInv
<1>1. ptr \in Recs /\ ptr \in live /\ cur \in {mcn[ptr].I, mcn[ptr].O} /\ cur \in Socks
  BY DEF Serves, OwnedBy, TypeOK
<1>2. CASE ScanFail
  <2>1. /\ mcn'[r] = mcn[r] /\ open' = open \ OwnedBy(ptr)
        /\ obsR' = obsR \ OwnedBy(ptr)
    BY <1>2 DEF ScanFail, Erase, CloseOwned, TypeOK
  <2>2. OwnedBy(ptr) \subseteq {mcn[ptr].I, mcn[ptr].O}
    BY DEF OwnedBy
  <2> QED BY <1>1, <2>1, <2>2, SparesOthers
<1>r. cur # mcn[r].I /\ cur # mcn[r].O
  BY <1>1, Unique
<1>3. CASE ScanCut
  <2>1. open' = open \ {cur} /\ obsR' = obsR \ {cur}
    BY <1>3 DEF ScanCut
  <2>2. mcn'[r] = mcn[r]
    BY <1>3, <1>r DEF ScanCut, DropI, DropO
  <2> QED BY <1>1, <2>1, <2>2, SparesOthers
<1>4. ASSUME NEW b \in BOOLEAN, NEW c \in BOOLEAN,
             ScanRequest(b, c) \/ ScanReject(b, c)
      PROVE  Spares(r)
  <2>1. Recycled(c) \subseteq {mcn[ptr].I, mcn[ptr].O}
    BY DEF Recycled
  <2>2. RecycledFd(c) \subseteq {mcn[ptr].I, mcn[ptr].O}
    BY DEF RecycledFd, Fd
  <2>3. mcn'[r] = mcn[r]
    BY <1>4, <1>1 DEF ScanRequest, ScanReject, TypeOK
  <2> DEFINE C == {mcn[ptr].I, mcn[ptr].O}
  <2>4. open \ C \subseteq open' /\ obsR \ C \subseteq obsR'
    BY <1>4, <1>1, <2>1, <2>2 DEF ScanRequest, ScanReject
  <2> QED BY <1>1, <2>3, <2>4, SparesOthers
<1>5. CASE ScanData
  BY <1>5 DEF ScanData, table, sets, Spares
<1>6. ASSUME NEW cut \in BOOLEAN, ScanResponse(cut) PROVE Spares(r)
  <2> DEFINE S == IF cut THEN {cur} ELSE {}
  <2>1. open' = open \ S /\ obsR' = obsR \ S /\ mcn' = DropO(mcn, S)
    BY <1>6 DEF ScanResponse
  <2>2. S \subseteq {cur}
    OBVIOUS
  <2> HIDE DEF S
  <2>3. mcn'[r] = mcn[r]
    BY <1>r, <2>1, <2>2 DEF DropO
  <2>4. S \subseteq {mcn[ptr].I, mcn[ptr].O}
    BY <1>1, <2>2
  <2> QED BY <1>1, <2>1, <2>3, <2>4, SparesOthers
<1>7. ~ \E s \in Socks : ReadUnknown(s) \/ \E q \in Recs : ReadKnown(s, q)
  BY DEF ReadUnknown, ReadKnown
<1> QED BY <1>2, <1>3, <1>4, <1>5, <1>6, <1>7 DEF Scan

LEMMA ProxySpares ==
  ASSUME "post" \notin Faults, IInv, Proxy, NEW r \in Recs, r # ptr
  PROVE  Spares(r)
<1> USE DEF IInv
<1>1. CASE Relay \/ Connected
  BY <1>1 DEF Relay, Connected, table, sets, Spares
<1>2. ASSUME NEW q \in Recs, NEW kind \in Kinds, ConnectReuse(q, kind) PROVE Spares(r)
  <2>1. q = ptr
    BY <1>2, SameRecord DEF ConnectReuse, ConnectTo
  <2> QED BY <1>2, <2>1 DEF ConnectReuse, Spares, TypeOK
<1>3. ASSUME NEW q \in Recs, NEW kind \in Kinds, NEW s \in Socks, NEW b \in BOOLEAN,
             ConnectNew(q, kind, s, b)
      PROVE  Spares(r)
  <2>1. q = ptr
    BY <1>3, SameRecord DEF ConnectNew, ConnectTo
  <2> QED BY <1>3, <2>1 DEF ConnectNew, Spares, TypeOK
<1>4. ASSUME NEW q \in Recs, NEW kind \in Kinds, ConnectFail(q, kind) PROVE Spares(r)
  <2>1. q = ptr /\ mcn[q].I = cur
    BY <1>4, SameRecord DEF ConnectFail, ConnectTo
  <2>2. mcn'[r] = mcn[r] /\ open' = open \ {cur} /\ obsR' = obsR \ {cur}
    BY <1>4, <2>1 DEF ConnectFail, TypeOK
  <2>3. {cur} \subseteq {mcn[q].I, mcn[q].O}
    BY <2>1
  <2> QED BY <2>1, <2>2, <2>3, SparesOthers
<1>5. ~PostBodyCut
  BY DEF PostBodyCut
<1> QED BY <1>1, <1>2, <1>3, <1>4, <1>5 DEF Proxy

LEMMA WebSpares ==
  ASSUME IInv, Web, ~ProxyChanged, NEW r \in Recs, r # ptr
  PROVE  Spares(r)
<1> USE DEF IInv
<1>1. pc = "Dispatch" /\ ptr \in Recs
  BY DEF Web, WebReply, WebConfig, Serves, TypeOK
<1>2. PICK b \in BOOLEAN : WebReply(b) \/ \E res \in Results : WebConfig(b, FALSE, res)
  <2>1. ASSUME NEW b \in BOOLEAN, NEW u \in BOOLEAN, NEW res \in Results,
               WebConfig(b, u, res)
        PROVE  WebConfig(b, FALSE, res)
    BY <2>1 DEF ProxyChanged
  <2> QED BY <2>1 DEF Web
<1> DEFINE S == IF b THEN {cur} ELSE {}
<1>3. b => scan = "Request"
  BY <1>2 DEF WebReply, WebConfig
<1>4. S \subseteq {mcn[ptr].I, mcn[ptr].O} /\ S \subseteq {cur}
  BY <1>1, <1>3 DEF Serves
<1>5. mcn[r].I \notin S
  BY <1>1, <1>3, Unique DEF Serves
<1>6. open' = open \ S /\ obsR' = obsR \ S /\ mcn'[r] = mcn[r]
  <2>1. CASE WebReply(b)
    BY <1>5, <2>1 DEF WebReply, DropI
  <2>2. CASE \E res \in Results : WebConfig(b, FALSE, res)
    <3>1. /\ open' = open \ (S \cup HeldI({}) \cup HeldO({}))
          /\ mcn' = DropO(DropI(mcn, S \cup {}), {})
          /\ obsR' = obsR \ (S \cup HeldI({}) \cup HeldO({}))
      BY <2>2 DEF WebConfig
    <3>2. HeldI({}) = {} /\ HeldO({}) = {}
      BY DEF HeldI, HeldO
    <3> HIDE DEF S
    <3> QED BY <1>5, <3>1, <3>2 DEF DropI, DropO
  <2> QED BY <1>2, <2>1, <2>2
<1> QED BY <1>1, <1>4, <1>6, SparesOthers

\* The handler of one connection changes no other: its record stays, its sockets
\* stay open and observed.  Assumed: FD_CLR of ZnkSocket_INVALID does nothing.
THEOREM IsolationHolds ==
  ASSUME "post" \notin Faults, Alias = {}
  PROVE  Spec => Isolation
<1>1. ASSUME IInv, Next, NEW r \in Recs, pc \in Handling, ~ProxyChanged,
             ~Serving(r)
      PROVE  Spares(r)
  <2>1. r # ptr /\ r # cb
    BY <1>1 DEF Serving
  <2>2. (pc = "Scan" /\ Scan) \/ Callback \/ Proxy \/ Web
    <3>1. ~Select
      BY <1>1 DEF Handling, Select, SelectReady, SelectError, SelectTimeout, TimeoutStep
    <3>2. ~Accept
      BY <1>1 DEF Handling, Accept, AcceptDeny, AcceptDone, AcceptAllow
    <3>3. ~Complete
      BY <1>1 DEF Handling, Complete, ConnectingNext, ConnectingUnknown, Completed,
                  ConnectingDone, ConnectingReady
    <3>4. Scan => pc = "Scan"
      BY <1>1 DEF Handling, Scan, ReadUnknown, ReadKnown, ScanFail, ScanCut,
                  ScanData, ScanRequest, ScanReject, ScanResponse
    <3>5. ~(ReadDone \/ Restart \/ Relaunch)
      BY <1>1 DEF Handling, ReadDone, Restart, Relaunch
    <3> QED BY <1>1, <3>1, <3>2, <3>3, <3>4, <3>5 DEF Next
  <2> QED BY <1>1, <2>1, <2>2, ScanSpares, CallbackSpares,
               ProxySpares, WebSpares
<1>2. IInv /\ [Next]_vars =>
        [\A r \in Recs :
           pc \in Handling /\ ~ProxyChanged /\ ~Serving(r)
           => /\ mcn'[r] = mcn[r]
              /\ OwnedBy(r) \cap open \subseteq open'
              /\ OwnedBy(r) \cap obsR \subseteq obsR']_vars
  BY <1>1 DEF Spares
<1> QED BY <1>2, Inductive, PTL DEF Spec, Isolation
-----------------------------------------------------------------------------
(***************************************************************************)
(* The capacity of the two fd_sets.                                        *)
(***************************************************************************)

Fits(S) == S \subseteq Socks /\ Cardinality(S) <= Cap

LEMMA FitsLess ==
  ASSUME IsFiniteSet(Socks), NEW T, Fits(T), NEW S \in SUBSET T
  PROVE  Fits(S)
<1>1. IsFiniteSet(T) /\ T \in SUBSET Socks
  BY FS_Subset DEF Fits
<1>2. IsFiniteSet(S) /\ Cardinality(S) <= Cardinality(T)
  BY <1>1, FS_Subset
<1>3. Cardinality(S) \in Nat /\ Cardinality(T) \in Nat
  BY <1>1, <1>2, FS_CardinalityType
<1> QED BY <1>1, <1>2, <1>3, ServerAssumption DEF Fits

LEMMA FitsRoom ==
  ASSUME IsFiniteSet(Socks), NEW S, Fits(S), NEW s \in Sock, HasRoom(S, s)
  PROVE  Fits(S \cup Fd(s))
<1>1. PICK x \in Socks : Fd(s) = {x}
  BY ServerAssumption DEF HasRoom, Fd, Sock
<1>2. IsFiniteSet(S) /\ Cardinality(S) \in Nat
  BY FS_Subset, FS_CardinalityType DEF Fits
<1>3. CASE x \in S
  <2>1. S \cup {x} = S
    BY <1>3
  <2> QED BY <1>1, <2>1
<1>4. CASE x \notin S
  <2>1. Cardinality(S) < Cap
    BY <1>1, <1>4 DEF HasRoom
  <2>2. Cardinality(S \cup {x}) = Cardinality(S) + 1
    BY <1>2, <1>4, FS_AddElement
  <2>3. Cardinality(S \cup {x}) <= Cap
    BY <1>2, <2>1, <2>2, ServerAssumption
  <2> QED BY <1>1, <2>3 DEF Fits
<1> QED BY <1>3, <1>4

\* The fd_set with what is adopted from the reserve; and a set that has no room
\* for a socket has none when more is in it.
LEMMA FitsAdopted ==
  ASSUME IsFiniteSet(Socks), NEW S, Fits(S), NEW Q \in SUBSET Sock, NEW A \in Adopted(S, Q)
  PROVE  /\ Fits(S \cup Bits(A))
         /\ \A s \in Sock : ~HasRoom(S, s) => ~HasRoom(S \cup Bits(A), s)
<1>1. A \subseteq Sock /\ (Bits(A) \subseteq S \/ Cardinality(S \cup Bits(A)) <= Cap)
  BY DEF Adopted
<1>2. Bits(A) \subseteq Socks
  BY <1>1, ServerAssumption DEF Bits, Fd, Sock
<1> DEFINE T == S \cup Bits(A)
<1>3. Fits(T)
  <2>1. CASE Bits(A) \subseteq S
    <3>1. T = S
      BY <2>1
    <3> QED BY <3>1
  <2>2. CASE Cardinality(T) <= Cap
    BY <1>2, <2>2 DEF Fits
  <2> QED BY <1>1, <2>1, <2>2
<1>4. S \subseteq T
  OBVIOUS
<1> HIDE DEF T
<1>5. IsFiniteSet(T)
  BY <1>3, FS_Subset DEF Fits
<1>6. /\ IsFiniteSet(S) /\ Cardinality(S) <= Cardinality(T)
      /\ (Cardinality(T) = Cardinality(S) => T = S)
  BY <1>4, <1>5, FS_Subset
<1>7. Cardinality(S) \in Nat /\ Cardinality(T) \in Nat
  BY <1>5, <1>6, FS_CardinalityType
<1>8. ASSUME NEW s \in Sock, ~HasRoom(S, s), HasRoom(T, s) PROVE FALSE
  <2>1. Fd(s) # {} /\ ~(Fd(s) \subseteq S) /\ ~(Cardinality(S) < Cap)
    BY <1>8 DEF HasRoom
  <2>2. Cardinality(T) = Cardinality(S)
    BY <1>3, <1>6, <1>7, <2>1, ServerAssumption DEF Fits
  <2>3. T = S
    BY <1>6, <2>2
  <2> QED BY <1>8, <2>3
<1> QED BY <1>3, <1>8 DEF T

LEMMA FitsObserve ==
  ASSUME IsFiniteSet(Socks), NEW S, Fits(S), NEW o \in Sock, Observe(S, o)
  PROVE  Fits(obsR')
BY FitsRoom DEF Observe

LEMMA ReadDoneFits ==
  ASSUME IsFiniteSet(Socks), TypeOK, Fits(obsR), ReadDone
  PROVE  Fits(obsR') /\ \A s \in resA' \cup resC' : ~HasRoom(obsR', s)
<1>1. resA \in SUBSET Sock /\ resC \in SUBSET Sock
  BY DEF TypeOK, Sock
<1>2. PICK A \in Adopted(obsR, resA) :
        /\ resA' = resA \ A
        /\ \E C \in Adopted(obsR \cup Bits(A), resC) :
             resC' = resC \ C /\ obsR' = obsR \cup Bits(A) \cup Bits(C)
  BY DEF ReadDone
<1> DEFINE T == obsR \cup Bits(A)
<1>3. PICK C \in Adopted(T, resC) : resC' = resC \ C /\ obsR' = T \cup Bits(C)
  BY <1>2
<1>4. Fits(T) /\ \A s \in resA' : ~HasRoom(T, s)
  <2>1. \A s \in resA : HasRoom(obsR \cup Bits(A), s) <=> s \in A
    BY DEF Adopted
  <2> QED BY <1>1, <1>2, <2>1, FitsAdopted
<1> HIDE DEF T
<1>5. \A s \in resC' : ~HasRoom(obsR', s)
  <2>1. \A s \in resC : HasRoom(T \cup Bits(C), s) <=> s \in C
    BY DEF Adopted
  <2> QED BY <1>3, <2>1
<1>6. Fits(T \cup Bits(C)) /\ \A s \in Sock : ~HasRoom(T, s) => ~HasRoom(T \cup Bits(C), s)
  BY <1>1, <1>4, FitsAdopted
<1>7. \A s \in resA' : ~HasRoom(obsR', s)
  BY <1>1, <1>2, <1>3, <1>4, <1>6
<1> QED BY <1>3, <1>5, <1>6, <1>7

LEMMA NextFits ==
  ASSUME IsFiniteSet(Socks), TypeOK, CalledBack, Fits(obsR), Next
  PROVE  Fits(obsR') /\ (pc = "Read" /\ pc' = "Select" =>
                           \A s \in resA' \cup resC' : ~HasRoom(obsR', s))
<1> USE HelperTypes
<1>0. ASSUME obsR' \subseteq obsR, ~(pc = "Read" /\ pc' = "Select")
      PROVE  Fits(obsR') /\ ~(pc = "Read" /\ pc' = "Select")
  BY <1>0, FitsLess
<1>1. CASE Select
  BY <1>0, <1>1 DEF Select, SelectReady, SelectError, SelectTimeout, TimeoutStep, sets
<1>2. CASE Accept
  <2>1. CASE AcceptDeny \/ AcceptDone
    BY <1>0, <2>1 DEF AcceptDeny, AcceptDone, sets
  <2>2. ASSUME NEW s \in Socks, NEW r \in Recs, AcceptAllow(s, r)
        PROVE  Fits(obsR') /\ ~(pc = "Read" /\ pc' = "Select")
    <3> DEFINE S == IF mcn[r].I = s THEN obsR ELSE obsR \ OwnedBy(r)
    <3>1. Fits(S)
      BY FitsLess
    <3>2. obsR' = IF HasRoom(S, s) THEN S \cup {s} ELSE S
      BY <2>2 DEF AcceptAllow
    <3>3. Fd(s) = {s} /\ s \in Sock
      BY ServerAssumption DEF Fd, Sock
    <3> HIDE DEF S
    <3>4. Fits(obsR')
      BY <3>1, <3>2, <3>3, FitsRoom
    <3> QED BY <2>2, <3>4 DEF AcceptAllow
  <2> QED BY <1>2, <2>1, <2>2 DEF Accept
<1>3. CASE Complete
  BY <1>0, <1>3 DEF Complete, ConnectingNext, ConnectingUnknown, Completed,
     ConnectingDone, ConnectingReady, sets
<1>4. CASE Callback
  <2>1. pc # "Read" /\ cb \in Recs /\ mcn[cb].O \in Sock
    BY <1>4 DEF Callback, CallbackNone, CallbackOk, CallbackFail, CallbackProxyFail,
       CalledBack
  <2>2. CASE CallbackNone
    BY <1>0, <2>1, <2>2 DEF CallbackNone, sets
  <2>3. CASE ~CallbackNone
    <3>1. PICK S \in SUBSET obsR : Observe(S, mcn[cb].O)
      BY <1>4, <2>3 DEF Callback, CallbackOk, CallbackFail, CallbackProxyFail
    <3>2. Fits(S)
      BY FitsLess
    <3> QED BY <2>1, <3>1, <3>2, FitsObserve
  <2> QED BY <2>2, <2>3
<1>5. CASE Scan
  BY <1>0, <1>5 DEF Scan, ReadUnknown, ReadKnown, ScanFail, ScanCut, ScanData,
     ScanRequest, ScanReject, ScanResponse, sets
<1>6. CASE Proxy
  BY <1>0, <1>6 DEF Proxy, Relay, Connected, PostBodyCut, ConnectReuse, ConnectNew,
     ConnectFail, ConnectTo, sets
<1>7. CASE Web
  BY <1>0, <1>7, ZenonT(40) DEF Web, WebReply, WebConfig
<1>8. CASE ReadDone
  BY <1>8, ReadDoneFits
<1>9. CASE Restart \/ Relaunch
  BY <1>0, <1>9 DEF Restart, Relaunch
<1> QED BY <1>1, <1>2, <1>3, <1>4, <1>5, <1>6, <1>7, <1>8, <1>9 DEF Next

\* Sockets are added to the write set by AddConnecting only, if it has room.
FitsW(S) == S \subseteq Socks /\ Cardinality(S) <= RoomW

LEMMA FitsWLess ==
  ASSUME IsFiniteSet(Socks), FitsW(obsW), NEW S \in SUBSET obsW
  PROVE  FitsW(S)
<1>1. IsFiniteSet(obsW)
  BY FS_Subset DEF FitsW
<1>2. IsFiniteSet(S) /\ Cardinality(S) <= Cardinality(obsW)
  BY <1>1, FS_Subset
<1>3. Cardinality(S) \in Nat /\ Cardinality(obsW) \in Nat /\ RoomW \in Nat
  BY <1>1, <1>2, FS_CardinalityType, ServerAssumption DEF RoomW
<1> QED BY <1>2, <1>3 DEF FitsW

LEMMA AddFits ==
  ASSUME IsFiniteSet(Socks), FitsW(obsW), NEW s \in Socks
  PROVE  FitsW(Noted(s))
<1>1. IsFiniteSet(obsW) /\ Cardinality(obsW) \in Nat /\ RoomW \in Nat
  BY FS_Subset, FS_CardinalityType, ServerAssumption DEF FitsW, RoomW
<1>2. CASE s \in obsW
  <2>1. obsW \cup {s} = obsW
    BY <1>2
  <2> QED BY <2>1 DEF Noted
<1>3. CASE s \notin obsW
  <2>1. Cardinality(obsW \cup {s}) = Cardinality(obsW) + 1
    BY <1>1, <1>3, FS_AddElement
  <2> QED BY <1>1, <1>3, <2>1 DEF Noted, FitsW
<1> QED BY <1>2, <1>3

LEMMA NextFitsW ==
  ASSUME IsFiniteSet(Socks), TypeOK, FitsW(obsW), Next
  PROVE  FitsW(obsW')
<1>0. ASSUME obsW' \subseteq obsW PROVE FitsW(obsW')
  BY <1>0, FitsWLess
<1>1. CASE Proxy
  <2>1. ASSUME NEW r \in Recs, NEW kind \in Kinds, ConnectReuse(r, kind)
        PROVE  FitsW(obsW')
    <3>1. mcn[r].O \in Socks
      BY <2>1, HelperTypes DEF ConnectReuse, FoundO
    <3>2. obsW' \in {obsW, Noted(mcn[r].O)}
      BY <2>1 DEF ConnectReuse, AddConnecting
    <3> QED BY <3>1, <3>2, AddFits
  <2>2. ASSUME NEW r \in Recs, NEW kind \in Kinds, NEW s \in Socks, NEW b \in BOOLEAN,
               ConnectNew(r, kind, s, b)
        PROVE  FitsW(obsW')
    <3>1. obsW' \in {obsW, Noted(s)}
      BY <2>2 DEF ConnectNew, AddConnecting
    <3> QED BY <3>1, AddFits
  <2>3. CASE PostBodyCut \/ Relay \/ Connected \/
             \E r \in Recs, kind \in Kinds : ConnectFail(r, kind)
    BY <1>0, <2>3 DEF PostBodyCut, Relay, Connected, ConnectFail, sets
  <2> QED BY <1>1, <2>1, <2>2, <2>3 DEF Proxy
<1>2. CASE Select \/ Accept
  BY <1>0, <1>2 DEF Select, SelectReady, SelectError, SelectTimeout, TimeoutStep,
     Accept, AcceptDeny, AcceptDone, AcceptAllow, sets
<1>3. CASE Complete \/ Callback
  BY <1>0, <1>3 DEF Complete, ConnectingNext, ConnectingUnknown, Completed,
     ConnectingDone, ConnectingReady, Callback, CallbackNone, CallbackOk,
     CallbackFail, CallbackProxyFail, Erase, CloseOwned, sets
<1>4. CASE Scan
  BY <1>0, <1>4 DEF Scan, ReadUnknown, ReadKnown, ScanFail, ScanCut, ScanData,
     ScanRequest, ScanReject, ScanResponse, Erase, CloseOwned, sets
<1>5. CASE Web
  BY <1>0, <1>5, ZenonT(40) DEF Web, WebReply, WebConfig
<1>6. CASE ReadDone \/ Restart \/ Relaunch
  BY <1>0, <1>6 DEF ReadDone, Restart, Relaunch
<1> QED BY <1>1, <1>2, <1>3, <1>4, <1>5, <1>6 DEF Next

\* Neither fd_set holds more sockets than it has room for, and a pass ends with
\* sockets left in reserve only when there is no room for them.
THEOREM CapacityHolds ==
  ASSUME IsFiniteSet(Socks)
  PROVE  Spec => CapacityRespected
<1> DEFINE FInv == TypeOK /\ CalledBack /\ Fits(obsR) /\ FitsW(obsW)
<1>1. Init => FInv
  BY InitType, FS_EmptySet, ServerAssumption DEF Init, Fits, FitsW, RoomW
<1>2. FInv /\ [Next]_vars => FInv'
  <2>1. Fits(obsR) /\ FitsW(obsW) /\ UNCHANGED vars => Fits(obsR)' /\ FitsW(obsW)'
    BY DEF vars, sets, Fits, FitsW
  <2> QED BY <2>1, NextType, NextFits, NextFitsW DEF Fits, FitsW
<1>3. FInv /\ [Next]_vars
      => [/\ Cardinality(obsR') <= Cap /\ Cardinality(obsW') <= RoomW
          /\ pc = "Read" /\ pc' = "Select" =>
               \A s \in resA' \cup resC' : ~HasRoom(obsR', s)]_vars
  BY NextFits, NextFitsW DEF Fits, FitsW
<1> QED BY <1>1, <1>2, <1>3, PTL DEF Spec, CapacityRespected
-----------------------------------------------------------------------------
(***************************************************************************)
(* One record for every browser's socket, whatever fails.                  *)
(***************************************************************************)

\* Every record keeps its I socket or forgets it.
OnlyLess == live' \subseteq live /\ \A r \in Recs : mcn'[r].I \in {mcn[r].I, INVALID}

LEMMA OneRecordLess ==
  ASSUME TypeOK, OneRecordPerISock, OnlyLess
  PROVE  OneRecordPerISock'
BY DEF TypeOK, OneRecordPerISock, OnlyLess

\* Socket s becomes the I socket of a record that RecordFor chooses.
LEMMA OneRecordGiven ==
  ASSUME TypeOK, OneRecordPerISock, NEW s \in Sock, NEW r \in RecordFor(s),
         mcn'[r].I \in {s, INVALID}, \A q \in Recs \ {r} : mcn'[q] = mcn[q],
         live' = live \cup {r}
  PROVE  OneRecordPerISock'
<1>1. \A q \in live : mcn[q].I = s => r \in ByI(s) /\ r \in live
  BY DEF RecordFor, ByI
<1>2. \A q \in live : mcn[q].I = s /\ s # INVALID => q = r
  BY <1>1 DEF ByI, OneRecordPerISock
<1> QED BY <1>2 DEF TypeOK, OneRecordPerISock

LEMMA DropKeepsI ==
  ASSUME TypeOK, NEW S, NEW T, NEW r \in Recs
  PROVE  /\ DropO(mcn, S)[r].I = mcn[r].I
         /\ DropO(DropI(mcn, T), S)[r].I \in {mcn[r].I, INVALID}
         /\ DropI(mcn, T)[r].I \in {mcn[r].I, INVALID}
BY DEF TypeOK, Conn, DropI, DropO

LEMMA NextOneRecord ==
  ASSUME TypeOK, CalledBack, OneRecordPerISock, Next
  PROVE  OneRecordPerISock'
<1>1. ASSUME UNCHANGED <<live, mcn>> PROVE OneRecordPerISock'
  BY <1>1 DEF OneRecordPerISock
<1> USE DEF table
<1>2. CASE Select
  <2>1. CASE SelectTimeout
    <3>1. PICK X \in SUBSET Exiles, E \in SUBSET Pending : TimeoutStep(X, E)
      BY <2>1 DEF SelectTimeout
    <3>2. \A r \in Recs : mcn'[r] \in {NoConn, DropO(mcn, E)[r]}
      BY <3>1 DEF TimeoutStep
    <3>3. OnlyLess
      BY <3>1, <3>2, DropKeepsI DEF TimeoutStep, OnlyLess, NoConn
    <3> QED BY <3>3, OneRecordLess
  <2> QED BY <1>1, <1>2, <2>1 DEF Select, SelectReady, SelectError
<1>3. CASE Accept
  <2>1. ASSUME NEW s \in Socks, NEW r \in Recs, AcceptAllow(s, r)
        PROVE  OneRecordPerISock'
    <3>1. /\ r \in RecordFor(s) /\ live' = live \cup {r} /\ s \in Sock
          /\ \A q \in Recs \ {r} : mcn'[q] = mcn[q]
          /\ mcn'[r].I = s
      BY <2>1 DEF AcceptAllow, TypeOK, NoConn, Sock
    <3> QED BY <3>1, OneRecordGiven
  <2> QED BY <1>1, <1>3, <2>1 DEF Accept, AcceptDeny, AcceptDone
<1>4. CASE Complete \/ Callback
  <2>1. CASE CallbackNone \/ ConnectingNext \/ ConnectingUnknown \/ Completed \/ ConnectingDone
    BY <1>1, <2>1 DEF CallbackNone, ConnectingNext, ConnectingUnknown, Completed,
       ConnectingDone
  <2>2. CASE CallbackFail
    BY <2>2, OneRecordLess DEF CallbackFail, Erase, OnlyLess, NoConn, TypeOK
  <2>3. CASE CallbackOk \/ CallbackProxyFail
    <3>1. /\ live' = live
          /\ \/ mcn' = [mcn EXCEPT ![cb].ev = "none"]
             \/ mcn' = [mcn EXCEPT ![cb].O = INVALID]
      BY <2>3 DEF CallbackOk, CallbackProxyFail
    <3> QED BY <3>1, OneRecordLess DEF OnlyLess, TypeOK, Conn
  <2>4. ASSUME NEW r \in Recs, ConnectingReady(r) PROVE OneRecordPerISock'
    BY <2>4, OneRecordLess DEF ConnectingReady, OnlyLess, TypeOK, Conn
  <2> QED BY <1>4, <2>1, <2>2, <2>3, <2>4 DEF Complete, Callback
<1>5. CASE Scan
  <2>1. CASE ScanData \/ \E s \in Socks : ReadUnknown(s) \/ \E r \in Recs : ReadKnown(s, r)
    BY <1>1, <2>1 DEF ScanData, ReadUnknown, ReadKnown
  <2>2. CASE ScanFail
    BY <2>2, OneRecordLess DEF ScanFail, Erase, OnlyLess, NoConn, TypeOK
  <2>3. CASE ScanCut \/ \E b \in BOOLEAN : ScanResponse(b)
    BY <2>3, OneRecordLess, DropKeepsI DEF ScanCut, ScanResponse, OnlyLess
  <2>4. ASSUME NEW b \in BOOLEAN, NEW c \in BOOLEAN, ScanRequest(b, c) \/ ScanReject(b, c)
        PROVE  OneRecordPerISock'
    <3>1. live' = live /\ \A r \in Recs : mcn'[r].I \in {mcn[r].I, INVALID}
      BY <2>4 DEF ScanRequest, ScanReject, TypeOK, Conn
    <3> QED BY <3>1, OneRecordLess DEF OnlyLess
  <2> QED BY <1>5, <2>1, <2>2, <2>3, <2>4 DEF Scan
<1>6. CASE Proxy
  <2>1. CASE Relay \/ Connected
    BY <1>1, <2>1 DEF Relay, Connected
  <2>2. CASE PostBodyCut
    BY <2>2, OneRecordLess DEF PostBodyCut, OnlyLess, TypeOK, Conn
  <2>3. ASSUME NEW r \in Recs, NEW kind \in Kinds, ConnectReuse(r, kind)
        PROVE  OneRecordPerISock'
    BY <2>3, OneRecordLess DEF ConnectReuse, OnlyLess, TypeOK, Conn
  <2>4. ASSUME NEW r \in Recs, NEW kind \in Kinds, NEW s \in Socks, NEW b \in BOOLEAN,
               ConnectNew(r, kind, s, b)
        PROVE  OneRecordPerISock'
    <3>1. /\ r \in RecordFor(cur) /\ live' = live \cup {r} /\ cur \in Sock
          /\ \A q \in Recs \ {r} : mcn'[q] = mcn[q]
          /\ mcn'[r].I \in {cur, INVALID}
      BY <2>4 DEF ConnectNew, ConnectTo, TypeOK
    <3> QED BY <3>1, OneRecordGiven
  <2>5. ASSUME NEW r \in Recs, NEW kind \in Kinds, ConnectFail(r, kind)
        PROVE  OneRecordPerISock'
    <3>1. /\ r \in RecordFor(cur) /\ live' = live \cup {r} /\ cur \in Sock
          /\ \A q \in Recs \ {r} : mcn'[q] = mcn[q]
          /\ mcn'[r].I \in {cur, INVALID}
      BY <2>5 DEF ConnectFail, ConnectTo, TypeOK, NoConn
    <3> QED BY <3>1, OneRecordGiven
  <2> QED BY <1>6, <2>1, <2>2, <2>3, <2>4, <2>5 DEF Proxy
<1>7. CASE Web
  BY <1>7, OneRecordLess, DropKeepsI DEF Web, WebReply, WebConfig, OnlyLess
<1>8. CASE ReadDone
  BY <1>1, <1>8 DEF ReadDone
<1>9. CASE Restart \/ Relaunch
  BY <1>9, OneRecordLess DEF Restart, Relaunch, OnlyLess, NoConn
<1> QED BY <1>2, <1>3, <1>4, <1>5, <1>6, <1>7, <1>8, <1>9 DEF Next

\* A browser's socket is that of one record only, also where the body of a POST
\* broke off and the handler went on with the number of the closed socket.
THEOREM OneRecordPerISockHolds == Spec => []OneRecordPerISock
<1> DEFINE OInv == TypeOK /\ CalledBack /\ OneRecordPerISock
<1>1. Init => OInv
  BY InitType DEF Init, OneRecordPerISock
<1>2. OInv /\ [Next]_vars => OInv'
  <2>1. OneRecordPerISock /\ UNCHANGED vars => OneRecordPerISock'
    BY DEF vars, table, OneRecordPerISock
  <2> QED BY <2>1, NextType, NextOneRecord
<1> QED BY <1>1, <1>2, PTL DEF Spec
=============================================================================
