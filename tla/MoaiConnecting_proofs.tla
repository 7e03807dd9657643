------------------------- MODULE MoaiConnecting_proofs -------------------------
(***************************************************************************)
(* Proofs about connecting_socks_, the array of the sockets whose connect  *)
(* is in progress: it agrees with the copy that the second phase of a pass *)
(* goes through, and with the connection table whenever the server waits,  *)
(* for any number of sockets, records and listening sockets.               *)
(***************************************************************************)
EXTENDS MoaiServer_proofs

-----------------------------------------------------------------------------
(***************************************************************************)
(* The erasing of entries from an array                                    *)
(***************************************************************************)

\* The indices of the entries of q that stay when those in S are erased
Kept(q, S) == {i \in DOMAIN q : q[i] \notin S}

LEMMA KeptShape ==
  ASSUME NEW T, NEW q \in Seq(T), NEW S
  PROVE  /\ Kept(q, S) \in SUBSET Nat /\ IsFiniteSet(Kept(q, S))
         /\ Cardinality(Kept(q, S)) \in Nat
         /\ Increasing(InOrder(Kept(q, S)), Kept(q, S))
         /\ Without(q, S) = [i \in 1..Cardinality(Kept(q, S)) |->
                               q[InOrder(Kept(q, S))[i]]]
<1>1. DOMAIN q = 1..Len(q) /\ Len(q) \in Nat
  OBVIOUS
<1>2. Kept(q, S) \in SUBSET Nat /\ IsFiniteSet(Kept(q, S))
  <2>1. IsFiniteSet(1..Len(q))
    BY <1>1, FS_Interval
  <2>2. Kept(q, S) \in SUBSET (1..Len(q))
    BY <1>1 DEF Kept
  <2> QED BY <2>1, <2>2, FS_Subset
<1>3. Increasing(InOrder(Kept(q, S)), Kept(q, S))
  BY <1>2, InOrderType
<1>4. DOMAIN InOrder(Kept(q, S)) = 1..Cardinality(Kept(q, S))
  BY <1>3 DEF Increasing
<1>5. Without(q, S) = [i \in 1..Cardinality(Kept(q, S)) |->
                         q[InOrder(Kept(q, S))[i]]]
  BY <1>4 DEF Without, Kept
<1> QED BY <1>2, <1>3, <1>5, FS_CardinalityType

\* An increasing enumeration of K goes through each member of K once.
LEMMA EachOnce ==
  ASSUME NEW K \in SUBSET Nat, IsFiniteSet(K), NEW f, Increasing(f, K)
  PROVE  /\ \A i, j \in DOMAIN f : f[i] = f[j] => i = j
         /\ \A k \in K : \E i \in DOMAIN f : f[i] = k
<1> DEFINE n == Cardinality(K)
<1>1. n \in Nat /\ IsFiniteSet(1..n) /\ Cardinality(1..n) = n
  <2>1. n \in Nat
    BY FS_CardinalityType
  <2> HIDE DEF n
  <2>2. IsFiniteSet(1..n) /\ Cardinality(1..n) = IF 1 > n THEN 0 ELSE n - 1 + 1
    BY <2>1, FS_Interval
  <2> QED BY <2>1, <2>2
<1>2. f \in [1..n -> K] /\ \A i, j \in 1..n : i < j => f[i] < f[j]
  BY DEF Increasing
<1>3. \A i, j \in 1..n : f[i] = f[j] => i = j
  <2> HIDE DEF n
  <2> TAKE i, j \in 1..n
  <2>1. f[i] \in Nat /\ f[j] \in Nat
    BY <1>2
  <2>2. i < j \/ j < i \/ i = j
    BY <1>1
  <2> QED BY <2>1, <2>2, <1>2
<1>4. f \in Injection(1..n, K)
  <2> HIDE DEF n
  <2> QED BY <1>2, <1>3 DEF Injection, IsInjective
<1>5. f \in Surjection(1..n, K)
  BY <1>1, <1>4, FS_Injection
<1>6. \A k \in K : \E i \in 1..n : f[i] = k
  <2> HIDE DEF n
  <2> QED BY <1>5 DEF Surjection
<1>7. DOMAIN f = 1..n
  BY <1>2
<1> QED BY <1>3, <1>6, <1>7

LEMMA WithoutEntries ==
  ASSUME NEW T, NEW q \in Seq(T), NEW S
  PROVE  Entries(Without(q, S)) = Entries(q) \ S
<1> DEFINE K == Kept(q, S)
           f == InOrder(K)
<1>1. /\ K \in SUBSET Nat /\ IsFiniteSet(K) /\ Increasing(f, K)
      /\ Without(q, S) = [i \in 1..Cardinality(K) |-> q[f[i]]]
  BY KeptShape
<1>2. K = {i \in DOMAIN q : q[i] \notin S}
  BY DEF Kept
<1> HIDE DEF K, f
<1>3. f \in [1..Cardinality(K) -> K] /\ DOMAIN Without(q, S) = DOMAIN f
  BY <1>1 DEF Increasing
<1>4. Entries(Without(q, S)) = {q[f[i]] : i \in DOMAIN f}
  BY <1>1, <1>3 DEF Entries
<1>5. \A k \in K : \E i \in DOMAIN f : f[i] = k
  BY <1>1, EachOnce
<1>6. Entries(q) = {q[k] : k \in DOMAIN q}
  BY DEF Entries
<1> QED BY <1>2, <1>3, <1>4, <1>5, <1>6

\* Each socket is in the array at most once (INVALID may be several times).
Distinct(q) == \A i, j \in DOMAIN q : q[i] = q[j] /\ q[i] # INVALID => i = j

\* Only the first entry may be INVALID.
InvalidFirst(q) == \A i \in DOMAIN q : q[i] = INVALID => i = 1

LEMMA WithoutDistinct ==
  ASSUME NEW T, NEW q \in Seq(T), NEW S
  PROVE  /\ Distinct(q) => Distinct(Without(q, S))
         /\ InvalidFirst(q) => InvalidFirst(Without(q, S))
<1> DEFINE K == Kept(q, S)
           f == InOrder(K)
<1>1. /\ K \in SUBSET Nat /\ IsFiniteSet(K) /\ Increasing(f, K)
      /\ Without(q, S) = [i \in 1..Cardinality(K) |-> q[f[i]]]
      /\ Cardinality(K) \in Nat
  BY KeptShape
<1>2. K = {i \in DOMAIN q : q[i] \notin S} /\ DOMAIN q = 1..Len(q)
  BY DEF Kept
<1> HIDE DEF K, f
<1>3. f \in [1..Cardinality(K) -> K] /\ DOMAIN Without(q, S) = DOMAIN f
  BY <1>1 DEF Increasing
<1>4. \A i, j \in DOMAIN f : f[i] = f[j] => i = j
  BY <1>1, EachOnce
<1>5. \A i \in DOMAIN f : f[i] \in DOMAIN q /\ Without(q, S)[i] = q[f[i]]
  BY <1>1, <1>2, <1>3
<1>6. Distinct(q) => Distinct(Without(q, S))
  BY <1>3, <1>4, <1>5 DEF Distinct
<1>7. \A i \in DOMAIN f : f[i] = 1 => i = 1
  <2> SUFFICES ASSUME NEW i \in DOMAIN f, f[i] = 1, i # 1 PROVE FALSE
    OBVIOUS
  <2>1. 1 \in DOMAIN f /\ 1 < i
    BY <1>1, <1>3
  <2>2. f[1] < f[i]
    BY <1>1, <2>1 DEF Increasing
  <2>3. f[1] \in 1..Len(q)
    BY <1>2, <1>3, <2>1
  <2> QED BY <2>2, <2>3
<1>8. InvalidFirst(q) => InvalidFirst(Without(q, S))
  BY <1>3, <1>5, <1>7 DEF InvalidFirst
<1> QED BY <1>6, <1>8

\* Erasing what is not there changes nothing.
LEMMA WithoutNothing ==
  ASSUME NEW T, NEW q \in Seq(T), NEW S, Entries(q) \cap S = {}
  PROVE  Without(q, S) = q
<1> DEFINE K == Kept(q, S)
           f == InOrder(K)
           n == Len(q)
<1>1. /\ K \in SUBSET Nat /\ IsFiniteSet(K) /\ Increasing(f, K)
      /\ Without(q, S) = [i \in 1..Cardinality(K) |-> q[f[i]]]
  BY KeptShape
<1>2. K = 1..n /\ n \in Nat
  BY DEF Kept, Entries
<1>3. Cardinality(K) = n
  <2> HIDE DEF K, n
  <2>1. Cardinality(1..n) = IF 1 > n THEN 0 ELSE n - 1 + 1
    BY <1>2, FS_Interval
  <2> QED BY <1>2, <2>1
<1> HIDE DEF K, f
<1>4. /\ f \in [1..n -> 1..n]
      /\ \A i, j \in 1..n : i < j => f[i] < f[j]
  BY <1>1, <1>2, <1>3 DEF Increasing
<1>5. /\ \A i, j \in 1..n : f[i] = f[j] => i = j
      /\ \A k \in 1..n : \E i \in 1..n : f[i] = k
  BY <1>1, <1>2, <1>4, EachOnce
<1> DEFINE D == {i \in 1..n : f[i] # i}
<1>6. D = {}
  <2> SUFFICES ASSUME D # {} PROVE FALSE
    OBVIOUS
  <2>1. D \in SUBSET Nat /\ IsFiniteSet(D)
    <3>1. IsFiniteSet(1..n)
      BY <1>1, <1>2
    <3>2. D \in SUBSET (1..n)
      OBVIOUS
    <3> QED BY <3>1, <3>2, <1>2, FS_Subset
  <2>2. PICK m \in D : \A k \in D : k <= m
    <3> HIDE DEF D
    <3> QED BY <2>1, Greatest
  <2> HIDE DEF n
  <2>3. m \in 1..n /\ f[m] \in 1..n /\ f[m] # m
    BY <2>2, <1>4
  <2>4. \A k \in 1..n : k > m => f[k] = k
    BY <2>2, <1>2
  <2>5. PICK k \in 1..n : f[k] = m
    BY <2>3, <1>5
  <2>6. k < m
    BY <2>3, <2>4, <2>5, <1>2
  <2>7. m < f[m]
    BY <2>3, <2>5, <2>6, <1>4
  <2>8. f[f[m]] = f[m]
    BY <2>3, <2>4, <2>7
  <2> QED BY <2>3, <2>8, <1>5
<1>7. Without(q, S) = [i \in 1..n |-> q[i]]
  <2> HIDE DEF n
  <2>1. \A i \in 1..n : f[i] = i
    BY <1>6
  <2> QED BY <2>1, <1>1, <1>3
<1> QED BY <1>7

LEMMA CompactedKeeps ==
  ASSUME NEW q \in Seq(Sock)
  PROVE  /\ Distinct(q) => Distinct(Compacted(q))
         /\ InvalidFirst(Compacted(q))
         /\ Entries(Compacted(q)) \ {INVALID} = Entries(q) \ {INVALID}
<1>1. CASE q = <<>>
  BY <1>1 DEF Compacted, InvalidFirst
<1>2. CASE q # <<>>
  <2> DEFINE t == Tail(q)
             I == {INVALID}
             w == Without(t, I)
  <2>1. /\ t \in Seq(Sock) /\ Len(t) = Len(q) - 1 /\ Len(q) \in Nat \ {0}
        /\ \A i \in 1..Len(t) : t[i] = q[i + 1]
        /\ Head(q) = q[1]
    BY <1>2
  <2>2. /\ w \in Seq(Sock) /\ Entries(w) = Entries(t) \ I
        /\ Distinct(t) => Distinct(w)
    <3> HIDE DEF t, I
    <3> QED BY <2>1, WithoutType, WithoutEntries, WithoutDistinct
  <2>3. Compacted(q) = <<Head(q)>> \o w
    BY <1>2 DEF Compacted
  <2> HIDE DEF w, t
  <2>4. /\ DOMAIN Compacted(q) = 1..(Len(w) + 1)
        /\ Compacted(q)[1] = q[1]
        /\ \A i \in DOMAIN w : Compacted(q)[i + 1] = w[i]
        /\ \A i \in DOMAIN Compacted(q) :
             i = 1 \/ (i - 1 \in DOMAIN w /\ Compacted(q)[i] = w[i - 1])
    BY <2>1, <2>2, <2>3
  <2>5. \A i \in DOMAIN w : w[i] \in Entries(t) /\ w[i] # INVALID
    BY <2>2 DEF Entries
  <2>6. InvalidFirst(Compacted(q))
    BY <2>4, <2>5 DEF InvalidFirst
  <2>7. ASSUME Distinct(q) PROVE Distinct(Compacted(q))
    <3>0. /\ 1 \in DOMAIN q
          /\ \A i \in DOMAIN t : /\ i + 1 \in DOMAIN q /\ i + 1 # 1
                                 /\ t[i] = q[i + 1] /\ i \in Nat
      BY <2>1
    <3>1. Distinct(t) /\ \A i \in DOMAIN t : t[i] = q[1] => q[1] = INVALID
      <4>1. \A i \in DOMAIN t : t[i] = q[1] => q[1] = INVALID
        BY <3>0, <2>7 DEF Distinct
      <4>2. ASSUME NEW i \in DOMAIN t, NEW j \in DOMAIN t, t[i] = t[j], t[i] # INVALID
            PROVE  i = j
        <5>1. i + 1 = j + 1
          BY <3>0, <4>2, <2>7 DEF Distinct
        <5> QED BY <5>1, <3>0
      <4> QED BY <4>1, <4>2 DEF Distinct
    <3>2. Distinct(w) /\ \A i \in DOMAIN w : w[i] # q[1]
      BY <3>1, <2>2, <2>5 DEF Entries
    <3>3. ASSUME NEW i \in DOMAIN Compacted(q), NEW j \in DOMAIN Compacted(q),
                 Compacted(q)[i] = Compacted(q)[j], Compacted(q)[i] # INVALID
          PROVE  i = j
      <4>1. CASE i = 1 /\ j # 1
        BY <4>1, <3>2, <3>3, <2>4
      <4>2. CASE i # 1 /\ j = 1
        BY <4>2, <3>2, <3>3, <2>4
      <4>3. CASE i # 1 /\ j # 1
        <5>1. i - 1 = j - 1
          BY <4>3, <3>2, <3>3, <2>4 DEF Distinct
        <5> QED BY <5>1, <2>4, <2>2
      <4> QED BY <4>1, <4>2, <4>3
    <3> QED BY <3>3 DEF Distinct
  <2>8. Entries(Compacted(q)) = {q[1]} \cup Entries(w)
    <3>1. Entries(Compacted(q)) \subseteq {q[1]} \cup Entries(w)
      BY <2>4 DEF Entries
    <3>2. \A i \in DOMAIN w : i + 1 \in DOMAIN Compacted(q)
      BY <2>2, <2>4
    <3>3. 1 \in DOMAIN Compacted(q)
      BY <2>2, <2>4
    <3>4. {q[1]} \cup Entries(w) \subseteq Entries(Compacted(q))
      BY <2>4, <3>2, <3>3 DEF Entries
    <3> QED BY <3>1, <3>4
  <2>9. Entries(q) = {q[1]} \cup Entries(t)
    <3>1. \A i \in DOMAIN q : i = 1 \/ (i - 1 \in DOMAIN t /\ t[i - 1] = q[i])
      BY <2>1
    <3>2. \A i \in DOMAIN t : i + 1 \in DOMAIN q /\ t[i] = q[i + 1]
      BY <2>1
    <3>3. 1 \in DOMAIN q
      BY <2>1
    <3> QED BY <3>1, <3>2, <3>3 DEF Entries
  <2> QED BY <2>2, <2>6, <2>7, <2>8, <2>9
<1> QED BY <1>1, <1>2

-----------------------------------------------------------------------------
(***************************************************************************)
(* The copy of the array agrees with the array throughout the loop.        *)
(***************************************************************************)

\* A callback invoked from the loop, or the return from it
Marking == pc = "Completed" \/ (pc = "Callback" /\ ret = "Completed")

SameFrom(n) == /\ Len(connecting) = Len(wk)
               /\ \A i \in DOMAIN wk : i >= n => connecting[i] = wk[i]

\* SnapshotAligned, and why: the entry whose callback is invoked has been
\* marked, and as no socket is in the array twice, the callback, which closes
\* no other O socket than that, finds nothing to erase.
Aligned ==
  /\ Distinct(connecting)
  /\ pc = "Connecting" \/ Marking \/ wk = <<>>
  /\ pc = "Callback" => ret # "Read"
  /\ pc = "Connecting" => SameFrom(idx)
  /\ Marking => idx <= Len(wk) /\ SameFrom(idx + 1)
  /\ pc = "Callback" /\ Marking =>
       mcn[cb].O \notin Entries(connecting) \ {INVALID}

\* Steps of a callback that close at most the O socket of its record
LEMMA CallbackAligned ==
  ASSUME TypeOK, Aligned, pc = "Callback", pc' = ret, UNCHANGED <<wk, idx, ret>>,
         \/ connecting' = connecting
         \/ connecting' = Without(connecting, {mcn[cb].O} \ {INVALID})
  PROVE  Aligned'
<1>1. connecting \in Seq(Sock) /\ ret \in {"Completed", "Connected"}
  BY DEF TypeOK, Aligned
<1>2. Distinct(connecting')
  BY <1>1, WithoutDistinct DEF Aligned
<1>3. CASE ret = "Connected"
  BY <1>2, <1>3 DEF Aligned, Marking
<1>4. CASE ret = "Completed"
  <2> DEFINE S == {mcn[cb].O} \ {INVALID}
  <2>1. Entries(connecting) \cap S = {}
    BY <1>4 DEF Aligned, Marking
  <2>2. connecting' = connecting
    <3>1. connecting' = connecting \/ connecting' = Without(connecting, S)
      OBVIOUS
    <3> HIDE DEF S
    <3> QED BY <3>1, <2>1, <1>1, WithoutNothing
  <2> QED BY <1>4, <2>2 DEF Aligned, Marking, SameFrom
<1> QED BY <1>1, <1>3, <1>4

\* The entry that MarkDone marks
LEMMA Marked ==
  ASSUME TypeOK, Aligned, pc = "Connecting", idx <= Len(wk), MarkDone
  PROVE  /\ Distinct(connecting') /\ Len(connecting') = Len(wk)
         /\ \A i \in DOMAIN wk : i >= idx + 1 => connecting'[i] = wk[i]
         /\ Entries(connecting') \ {INVALID}
              = (Entries(connecting) \ {wk[idx]}) \ {INVALID}
         /\ connecting[idx] = wk[idx] /\ idx \in DOMAIN connecting
         /\ connecting' \in Seq(Sock)
<1>1. /\ connecting \in Seq(Sock) /\ wk \in Seq(Sock) /\ idx \in Nat \ {0}
      /\ Distinct(connecting) /\ Len(connecting) = Len(wk)
      /\ \A i \in DOMAIN wk : i >= idx => connecting[i] = wk[i]
  BY DEF TypeOK, Aligned, SameFrom
<1>2. /\ idx \in DOMAIN connecting /\ idx \in DOMAIN wk /\ connecting[idx] = wk[idx]
      /\ DOMAIN connecting = DOMAIN wk /\ DOMAIN connecting = 1..Len(wk)
  BY <1>1
<1>3. connecting' = [connecting EXCEPT ![idx] = INVALID]
  BY <1>2 DEF MarkDone
<1>4. /\ DOMAIN connecting' = DOMAIN connecting /\ Len(connecting') = Len(connecting)
      /\ connecting' \in Seq(Sock)
      /\ \A i \in DOMAIN connecting :
           connecting'[i] = IF i = idx THEN INVALID ELSE connecting[i]
  BY <1>1, <1>2, <1>3 DEF Sock
<1>5. Distinct(connecting')
  BY <1>1, <1>4 DEF Distinct
<1>6. \A i \in DOMAIN wk : i >= idx + 1 => i >= idx /\ i # idx
  BY <1>1
<1>7. Entries(connecting') \ {INVALID}
        = (Entries(connecting) \ {wk[idx]}) \ {INVALID}
  <2>1. \A i \in DOMAIN connecting : connecting[i] = wk[idx] /\ wk[idx] # INVALID => i = idx
    BY <1>1, <1>2 DEF Distinct
  <2> QED BY <2>1, <1>2, <1>4 DEF Entries
<1> QED BY <1>1, <1>2, <1>4, <1>5, <1>6, <1>7

LEMMA InitAligned == Init => Aligned
BY DEF Init, Aligned, Distinct, Marking

LEMMA NextAligned ==
  ASSUME TypeOK, CalledBack, Aligned, [Next]_vars
  PROVE  Aligned'
<1> USE ServerAssumption, HelperTypes
<1>a. connecting \in Seq(Sock) /\ Distinct(connecting) /\ idx \in Nat \ {0}
  BY DEF TypeOK, Aligned
<1>b. \A S : Distinct(Without(connecting, S))
  BY <1>a, WithoutDistinct
<1>c. \A s : s \notin Entries(connecting) => Distinct(Append(connecting, s))
  BY <1>a DEF Distinct, Entries
<1>0. /\ wk' = <<>> /\ Distinct(connecting') /\ pc' \notin {"Connecting", "Completed"}
      /\ pc' = "Callback" => ret' = "Connected"
      => Aligned'
  BY DEF Aligned, Marking
<1>d. pc \notin {"Connecting", "Completed", "Callback"} => wk = <<>>
  BY DEF Aligned, Marking
<1>1. CASE SelectReady
  BY <1>1, <1>0, <1>a, <1>d DEF SelectReady, sets
<1>2. CASE SelectError
  BY <1>2, <1>0, <1>a, <1>d DEF SelectError, sets, pass
<1>3. CASE SelectTimeout
  <2>1. PICK X \in SUBSET Exiles, E \in SUBSET Pending : TimeoutStep(X, E)
    BY <1>3 DEF SelectTimeout
  <2> QED BY <2>1, <1>0, <1>b, <1>d DEF TimeoutStep, pass
<1>4. CASE AcceptDeny
  BY <1>4, <1>0, <1>a, <1>d DEF AcceptDeny, sets
<1>5. ASSUME NEW s \in Socks, NEW r \in Recs, AcceptAllow(s, r) PROVE Aligned'
  BY <1>5, <1>0, <1>a, <1>b, <1>d DEF AcceptAllow
<1>6. CASE AcceptDone
  BY <1>6, <1>a DEF AcceptDone, sets, Aligned, Marking, SameFrom
<1>7. CASE ConnectingNext
  <2>1. SameFrom(idx) /\ wk \in Seq(Sock)
    BY <1>7 DEF ConnectingNext, Aligned, TypeOK
  <2>2. \A i \in DOMAIN wk : i >= idx + 1 => i >= idx
    BY <1>a, <2>1
  <2> QED BY <1>7, <1>a, <2>1, <2>2
        DEF ConnectingNext, sets, Aligned, Marking, SameFrom
<1>8. ASSUME NEW r \in Recs, ConnectingReady(r) PROVE Aligned'
  <2>1. /\ Distinct(connecting') /\ Len(connecting') = Len(wk)
        /\ \A i \in DOMAIN wk : i >= idx + 1 => connecting'[i] = wk[i]
        /\ Entries(connecting') \ {INVALID}
             = (Entries(connecting) \ {wk[idx]}) \ {INVALID}
    BY <1>8, Marked DEF ConnectingReady
  <2>2. mcn'[r].O = wk[idx]
    BY <1>8 DEF ConnectingReady, ByO, TypeOK, Conn
  <2>3. /\ pc' = "Callback" /\ ret' = "Completed" /\ cb' = r
        /\ wk' = wk /\ idx' = idx /\ idx <= Len(wk)
    BY <1>8 DEF ConnectingReady, pass
  <2>4. Entries(connecting)' = Entries(connecting')
    BY DEF Entries
  <2> HIDE DEF Entries
  <2>5. (mcn[cb].O)' \notin Entries(connecting)' \ {INVALID}
    BY <2>1, <2>2, <2>3, <2>4
  <2> QED BY <2>1, <2>3, <2>5 DEF Aligned, Marking, SameFrom
<1>9. CASE ConnectingUnknown
  <2>1. /\ Distinct(connecting') /\ Len(connecting') = Len(wk)
        /\ \A i \in DOMAIN wk : i >= idx + 1 => connecting'[i] = wk[i]
    BY <1>9, Marked DEF ConnectingUnknown
  <2> QED BY <1>9, <2>1 DEF ConnectingUnknown, Aligned, Marking, SameFrom, pass
<1>10. CASE Completed
  BY <1>10, <1>a DEF Completed, Aligned, Marking, SameFrom
<1>11. CASE ConnectingDone
  <2>1. Distinct(connecting')
    BY <1>11, <1>a, CompactedKeeps DEF ConnectingDone
  <2> QED BY <1>11, <2>1, <1>0 DEF ConnectingDone
<1>12. CASE CallbackNone
  BY <1>12, CallbackAligned DEF CallbackNone, sets, pass, frame
<1>13. CASE CallbackOk
  BY <1>13, CallbackAligned DEF CallbackOk, pass, frame
<1>14. CASE CallbackFail
  BY <1>14, CallbackAligned DEF CallbackFail, Erase, CloseOwned, pass, frame
<1>15. CASE CallbackProxyFail
  BY <1>15, CallbackAligned DEF CallbackProxyFail, pass, frame
<1>16. ASSUME NEW s \in Socks, NEW r \in Recs, ReadKnown(s, r) PROVE Aligned'
  BY <1>16, <1>0, <1>a, <1>d DEF ReadKnown, sets
<1>17. ASSUME NEW s \in Socks, ReadUnknown(s) PROVE Aligned'
  BY <1>17, <1>0, <1>a, <1>d DEF ReadUnknown
<1>18. CASE ScanFail
  BY <1>18, <1>0, <1>b, <1>d DEF ScanFail, Erase, CloseOwned, pass
<1>19. CASE ScanCut
  BY <1>19, <1>0, <1>b, <1>d DEF ScanCut, pass
<1>20. ASSUME NEW b \in BOOLEAN, NEW c \in BOOLEAN, ScanRequest(b, c) PROVE Aligned'
  BY <1>20, <1>0, <1>b, <1>d DEF ScanRequest, pass
<1>21. ASSUME NEW b \in BOOLEAN, NEW c \in BOOLEAN, ScanReject(b, c) PROVE Aligned'
  BY <1>21, <1>0, <1>b, <1>d DEF ScanReject, pass
<1>22. CASE ScanData
  BY <1>22, <1>0, <1>a, <1>d DEF ScanData, sets, pass
<1>23. ASSUME NEW b \in BOOLEAN, ScanResponse(b) PROVE Aligned'
  BY <1>23, <1>0, <1>b, <1>d DEF ScanResponse, pass
<1>24. CASE PostBodyCut
  BY <1>24, <1>0, <1>a, <1>d DEF PostBodyCut, pass
<1>25. ASSUME NEW r \in Recs, NEW kind \in Kinds, ConnectReuse(r, kind) PROVE Aligned'
  <2>1. Distinct(connecting')
    <3> DEFINE o == mcn[r].O
    <3>1. \/ connecting' = connecting
          \/ o \notin Entries(connecting) /\ connecting' = Append(connecting, o)
      BY <1>25 DEF ConnectReuse, AddConnecting
    <3> HIDE DEF o
    <3> QED BY <3>1, <1>a, <1>c
  <2>2. wk' = <<>>
    BY <1>25, <1>d DEF ConnectReuse, ConnectTo, pass
  <2> QED BY <1>25, <2>1, <2>2, <1>0 DEF ConnectReuse
<1>26. ASSUME NEW r \in Recs, NEW kind \in Kinds, NEW s \in Socks,
              NEW b \in BOOLEAN, ConnectNew(r, kind, s, b)
       PROVE  Aligned'
  BY <1>26, <1>0, <1>a, <1>c, <1>d, ZenonT(40)
  DEF ConnectNew, ConnectTo, AddConnecting, pass
<1>27. ASSUME NEW r \in Recs, NEW kind \in Kinds, ConnectFail(r, kind) PROVE Aligned'
  BY <1>27, <1>0, <1>a, <1>d DEF ConnectFail, ConnectTo, pass
<1>28. CASE Connected
  BY <1>28, <1>0, <1>a, <1>d DEF Connected, sets, pass
<1>29. CASE Relay
  BY <1>29, <1>0, <1>a, <1>d DEF Relay, sets, pass
<1>30. ASSUME NEW b \in BOOLEAN, WebReply(b) PROVE Aligned'
  BY <1>30, <1>0, <1>a, <1>d DEF WebReply, pass
<1>31. ASSUME NEW b \in BOOLEAN, NEW u \in BOOLEAN,
              NEW res \in Results,
              WebConfig(b, u, res)
       PROVE  Aligned'
  BY <1>31, <1>0, <1>b, <1>d DEF WebConfig, pass
<1>32. CASE ReadDone
  BY <1>32, <1>0, <1>a, <1>d DEF ReadDone, pass
<1>33. CASE Restart
  <2>1. Distinct(<<>>)
    BY DEF Distinct
  <2> QED BY <1>33, <1>0, <2>1 DEF Restart
<1>34. CASE Relaunch
  <2>1. Distinct(<<>>)
    BY DEF Distinct
  <2> QED BY <1>34, <1>0, <2>1 DEF Relaunch
<1>35. CASE UNCHANGED vars
  BY <1>35 DEF vars, table, sets, pass, frame, Aligned, Marking, SameFrom,
               Distinct, Entries
<1>36. Select \/ Accept \/ Complete => Aligned'
  BY <1>1, <1>2, <1>3, <1>4, <1>5, <1>6, <1>7, <1>8, <1>9, <1>10, <1>11
  DEF Select, Accept, Complete
<1>37. Callback \/ Scan => Aligned'
  BY <1>12, <1>13, <1>14, <1>15, <1>16, <1>17, <1>18, <1>19, <1>20, <1>21,
     <1>22, <1>23
  DEF Callback, Scan
<1>38. Proxy \/ Web => Aligned'
  BY <1>24, <1>25, <1>26, <1>27, <1>28, <1>29, <1>30, <1>31 DEF Proxy, Web
<1> QED BY <1>32, <1>33, <1>34, <1>35, <1>36, <1>37, <1>38 DEF Next

\* Throughout the loop over the copy of connecting_socks_ the array, which is
\* marked at the index of the copy, agrees with the copy after that index,
\* whatever the callbacks erase, and with any failure and aliasing.
THEOREM SnapshotAlignedHolds == Spec => []SnapshotAligned
<1>1. Init => TypeOK /\ CalledBack /\ Aligned
  BY InitType, InitAligned
<1>2. TypeOK /\ CalledBack /\ Aligned /\ [Next]_vars
      => (TypeOK /\ CalledBack /\ Aligned)'
  BY NextType, NextAligned
<1>3. TypeOK /\ Aligned => SnapshotAligned
  <2> SUFFICES ASSUME TypeOK, Aligned, InConnectingLoop
               PROVE  /\ Len(connecting) = Len(wk)
                      /\ \A i \in DOMAIN wk : i > idx => connecting[i] = wk[i]
    BY DEF SnapshotAligned
  <2>1. idx \in Nat /\ \A i \in DOMAIN wk : i \in Nat
    BY DEF TypeOK
  <2>2. SameFrom(idx) \/ SameFrom(idx + 1)
    BY DEF InConnectingLoop, Aligned, Marking
  <2>3. \A i \in DOMAIN wk : i > idx => i >= idx /\ i >= idx + 1
    BY <2>1
  <2> QED BY <2>2, <2>3 DEF SameFrom
<1> QED BY <1>1, <1>2, <1>3, PTL DEF Spec

-----------------------------------------------------------------------------
(***************************************************************************)
(* What is observed for writing is in the array, whatever fails, whichever *)
(* bit FD_CLR(-1) clears and however little room there is.  Between the    *)
(* marking of an entry and the return from its callback the socket is      *)
(* still observed.                                                         *)
(***************************************************************************)

Handled == \A s \in obsW : s \in Entries(connecting) \/ (Marking /\ s = wk[idx])

LEMMA HandledSame ==
  ASSUME Handled, connecting' = connecting, obsW' \subseteq obsW,
         Marking => Marking' /\ wk'[idx'] = wk[idx]
  PROVE  Handled'
BY DEF Handled, Entries

LEMMA HandledLess ==
  ASSUME TypeOK, Handled, NEW S, connecting' = Without(connecting, S),
         obsW' \subseteq obsW \ S, Marking => Marking' /\ wk'[idx'] = wk[idx]
  PROVE  Handled'
<1>1. Entries(connecting') = Entries(connecting) \ S
  BY WithoutEntries DEF TypeOK
<1>2. Entries(connecting)' = Entries(connecting')
  BY DEF Entries
<1> QED BY <1>1, <1>2 DEF Handled

LEMMA HandledMore ==
  ASSUME TypeOK, Handled, ~Marking, NEW s \in Socks, AddConnecting(s)
  PROVE  Handled'
<1>1. connecting \in Seq(Sock) /\ s \in Sock
  BY DEF TypeOK, Sock
<1>2. obsW' \subseteq obsW \cup {s}
  BY DEF AddConnecting, Noted
<1>3. CASE s \in Entries(connecting)
  BY <1>2, <1>3 DEF AddConnecting, Handled, Entries
<1>4. CASE s \notin Entries(connecting)
  <2>1. connecting' = Append(connecting, s)
    BY <1>4 DEF AddConnecting
  <2>2. /\ Len(connecting) + 1 \in DOMAIN connecting'
        /\ connecting'[Len(connecting) + 1] = s
        /\ \A i \in DOMAIN connecting :
             i \in DOMAIN connecting' /\ connecting'[i] = connecting[i]
    BY <1>1, <2>1
  <2> QED BY <1>2, <2>2 DEF Handled, Entries
<1> QED BY <1>3, <1>4

LEMMA LoopHandled ==
  ASSUME TypeOK, Aligned, Handled, Complete
  PROVE  Handled'
<1>0. /\ connecting \in Seq(Sock) /\ wk \in Seq(Sock) /\ idx \in Nat \ {0}
      /\ obsW \subseteq Socks /\ INVALID \notin Socks
  BY ServerAssumption DEF TypeOK
<1>1. CASE ConnectingNext
  BY <1>1, HandledSame DEF ConnectingNext, sets, Marking
<1>2. CASE ConnectingUnknown \/ \E r \in Recs : ConnectingReady(r)
  <2>1. /\ pc = "Connecting" /\ MarkDone /\ idx <= Len(wk) /\ ~Marking
        /\ UNCHANGED <<obsW, wk, idx>> /\ Marking'
    BY <1>2 DEF ConnectingUnknown, ConnectingReady, pass, Marking
  <2>2. Entries(connecting') \ {INVALID} = (Entries(connecting) \ {wk[idx]}) \ {INVALID}
    BY <2>1, Marked
  <2>3. Entries(connecting)' = Entries(connecting')
    BY DEF Entries
  <2> QED BY <1>0, <2>1, <2>2, <2>3 DEF Handled
<1>3. CASE Completed
  <2>1. UNCHANGED connecting /\ obsW' = obsW \ Fd(wk[idx])
    BY <1>3 DEF Completed, Done
  <2>2. \A s \in obsW' : s # wk[idx] /\ s \in obsW
    BY <1>0, <2>1 DEF Fd
  <2> QED BY <2>1, <2>2 DEF Handled, Entries
<1>4. CASE ConnectingDone
  <2>1. /\ pc = "Connecting" /\ UNCHANGED obsW
        /\ connecting' = IF wk = <<>> THEN connecting ELSE Compacted(connecting)
    BY <1>4 DEF ConnectingDone
  <2>2. Entries(connecting') \ {INVALID} = Entries(connecting) \ {INVALID}
    BY <1>0, <2>1, CompactedKeeps
  <2>3. Entries(connecting)' = Entries(connecting')
    BY DEF Entries
  <2> QED BY <1>0, <2>1, <2>2, <2>3 DEF Handled, Marking
<1> QED BY <1>1, <1>2, <1>3, <1>4 DEF Complete

LEMMA CallbackHandled ==
  ASSUME TypeOK, Aligned, Handled, Callback
  PROVE  Handled'
<1>1. Marking => Marking' /\ wk'[idx'] = wk[idx]
  BY DEF Callback, CallbackNone, CallbackOk, CallbackFail, CallbackProxyFail,
         Marking, pass
<1>2. CASE CallbackNone \/ CallbackOk
  BY <1>1, <1>2, HandledSame DEF CallbackNone, CallbackOk, sets
<1>3. CASE CallbackFail \/ CallbackProxyFail
  <2> DEFINE S == {mcn[cb].O} \ {INVALID}
  <2>1. connecting' = Without(connecting, S) /\ obsW' \subseteq obsW \ S
    BY <1>3 DEF CallbackFail, CallbackProxyFail, Erase, CloseOwned
  <2> QED BY <1>1, <2>1, HandledLess
<1> QED BY <1>2, <1>3 DEF Callback

LEMMA ScanHandled ==
  ASSUME TypeOK, Handled, Aligned, Scan
  PROVE  Handled'
<1>0. obsW \subseteq Socks /\ INVALID \notin Socks /\ ~Marking
  BY ServerAssumption
  DEF TypeOK, Marking, Scan, ReadUnknown, ReadKnown, ScanFail, ScanCut, ScanData,
      ScanRequest, ScanReject, ScanResponse
<1>1. CASE ScanData \/ \E s \in Socks : ReadUnknown(s) \/ \E r \in Recs : ReadKnown(s, r)
  BY <1>0, <1>1, HandledSame DEF ScanData, ReadUnknown, ReadKnown, sets
<1>2. CASE ScanFail
  <2> DEFINE S == {mcn[ptr].O} \ {INVALID}
  <2>1. connecting' = Without(connecting, S) /\ obsW' \subseteq obsW \ S
    BY <1>2 DEF ScanFail, Erase, CloseOwned
  <2> QED BY <1>0, <2>1, HandledLess
<1>3. CASE ScanCut
  <2>1. /\ connecting' = Without(connecting, HeldO({cur}))
        /\ obsW' \subseteq obsW \ HeldO({cur})
    BY <1>3 DEF ScanCut
  <2> QED BY <1>0, <2>1, HandledLess
<1>4. ASSUME NEW b \in BOOLEAN, NEW c \in BOOLEAN, ScanRequest(b, c) \/ ScanReject(b, c)
      PROVE  Handled'
  <2>1. /\ connecting' = Without(connecting, Recycled(c))
        /\ obsW' = obsW \ RecycledFd(c)
    BY <1>4 DEF ScanRequest, ScanReject
  <2>2. obsW' \subseteq obsW \ Recycled(c)
    BY <1>0, <2>1 DEF Recycled, RecycledFd, Fd
  <2> QED BY <1>0, <2>1, <2>2, HandledLess
<1>5. ASSUME NEW b \in BOOLEAN, ScanResponse(b) PROVE Handled'
  <2> DEFINE S == IF b THEN {cur} ELSE {}
  <2>1. connecting' = Without(connecting, S) /\ obsW' = obsW \ S
    BY <1>5 DEF ScanResponse
  <2> HIDE DEF S
  <2> QED BY <1>0, <2>1, HandledLess
<1> QED BY <1>1, <1>2, <1>3, <1>4, <1>5 DEF Scan

LEMMA ProxyHandled ==
  ASSUME TypeOK, Handled, Proxy
  PROVE  Handled'
<1>0. ~Marking
  BY DEF Marking, Proxy, PostBodyCut, Relay, Connected, ConnectReuse, ConnectNew,
         ConnectFail, ConnectTo
<1>1. CASE \/ PostBodyCut \/ Relay \/ Connected
           \/ \E r \in Recs, kind \in Kinds : ConnectFail(r, kind)
  BY <1>0, <1>1, HandledSame DEF PostBodyCut, Relay, Connected, ConnectFail, sets
<1>2. ASSUME NEW r \in Recs, NEW kind \in Kinds, ConnectReuse(r, kind) PROVE Handled'
  <2>1. mcn[r].O \in Socks
    BY <1>2, HelperTypes DEF ConnectReuse, FoundO
  <2>2. AddConnecting(mcn[r].O) \/ UNCHANGED <<connecting, obsW>>
    BY <1>2 DEF ConnectReuse
  <2> QED BY <1>0, <2>1, <2>2, HandledSame, HandledMore
<1>3. ASSUME NEW r \in Recs, NEW kind \in Kinds, NEW s \in Socks, NEW b \in BOOLEAN,
             ConnectNew(r, kind, s, b)
      PROVE  Handled'
  <2>1. AddConnecting(s) \/ UNCHANGED <<connecting, obsW>>
    BY <1>3 DEF ConnectNew
  <2> QED BY <1>0, <2>1, HandledSame, HandledMore
<1> QED BY <1>1, <1>2, <1>3 DEF Proxy

LEMMA NextHandled ==
  ASSUME TypeOK, Aligned, Handled, [Next]_vars
  PROVE  Handled'
<1>0. obsW \subseteq Socks /\ INVALID \notin Socks
  BY ServerAssumption DEF TypeOK
<1>1. CASE Select \/ Accept
  <2>1. ~Marking
    BY <1>1 DEF Marking, Select, SelectReady, SelectError, SelectTimeout, TimeoutStep,
       Accept, AcceptDeny, AcceptDone, AcceptAllow
  <2>2. CASE SelectReady \/ SelectError \/ AcceptDeny \/ AcceptDone
    BY <2>1, <2>2, HandledSame DEF SelectReady, SelectError, AcceptDeny, AcceptDone, sets
  <2>3. CASE SelectTimeout
    <3>1. PICK E \in SUBSET Pending : \E X \in SUBSET Exiles : TimeoutStep(X, E)
      BY <2>3 DEF SelectTimeout
    <3> DEFINE S == E \cup {INVALID}
    <3>2. connecting' = Without(connecting, S) /\ obsW' \subseteq obsW \ S
      BY <1>0, <3>1 DEF TimeoutStep
    <3> QED BY <2>1, <3>2, HandledLess
  <2>4. ASSUME NEW s \in Socks, NEW r \in Recs, AcceptAllow(s, r) PROVE Handled'
    <3>1. \/ UNCHANGED <<connecting, obsW>>
          \/ connecting' = Without(connecting, OwnedBy(r)) /\ obsW' = obsW \ OwnedBy(r)
      BY <2>4 DEF AcceptAllow
    <3> QED BY <2>1, <3>1, HandledSame, HandledLess
  <2> QED BY <1>1, <2>2, <2>3, <2>4 DEF Select, Accept
<1>2. CASE Web
  <2>1. ~Marking
    BY <1>2 DEF Marking, Web, WebReply, WebConfig
  <2>2. ASSUME NEW b \in BOOLEAN, WebReply(b) PROVE Handled'
    BY <2>1, <2>2, HandledSame DEF WebReply
  <2>3. ASSUME NEW b \in BOOLEAN, NEW u \in BOOLEAN, NEW res \in Results,
               WebConfig(b, u, res)
        PROVE  Handled'
    <3> DEFINE S == HeldO(IF u THEN obsR \ (IF b THEN {cur} ELSE {}) ELSE {})
    <3>1. connecting' = Without(connecting, S) /\ obsW' = obsW \ S
      BY <2>3 DEF WebConfig
    <3> HIDE DEF S
    <3> QED BY <2>1, <3>1, HandledLess
  <2> QED BY <1>2, <2>2, <2>3 DEF Web
<1>3. CASE ReadDone
  BY <1>3, HandledSame DEF ReadDone, Marking
<1>4. CASE Restart \/ Relaunch
  BY <1>4 DEF Restart, Relaunch, Handled
<1>5. CASE UNCHANGED vars
  BY <1>5 DEF vars, sets, pass, frame, Handled, Marking, Entries
<1> QED BY <1>1, <1>2, <1>3, <1>4, <1>5, LoopHandled, CallbackHandled, ScanHandled,
           ProxyHandled DEF Next

\* Every socket that select is to report as writable is one that the loop over
\* connecting_socks_ looks at: select never reports one again and again.
THEOREM WritableHandledHolds == Spec => []WritableHandled
<1> DEFINE HInv == TypeOK /\ CalledBack /\ Aligned /\ Handled
<1>1. Init => HInv
  BY InitType, InitAligned DEF Init, Handled
<1>2. HInv /\ [Next]_vars => HInv'
  BY NextType, NextAligned, NextHandled
<1>3. HInv => WritableHandled
  BY DEF Handled, WritableHandled, Marking
<1> QED BY <1>1, <1>2, <1>3, PTL DEF Spec

-----------------------------------------------------------------------------
(***************************************************************************)
(* The array, the sockets observed for writing and the connection table    *)
(* agree.  Between the completion of a connect and the return from its     *)
(* callback the socket is still observed for writing.                      *)
(***************************************************************************)

\* The O sockets whose connect is in progress
InProgress == {s \in Socks : \E r \in live : mcn[r].prog /\ mcn[r].O = s}

Looping == pc = "Connecting" \/ Marking

Mirror ==
  /\ Entries(connecting) \ {INVALID} = InProgress
  /\ InProgress = IF Marking THEN obsW \ {wk[idx]} ELSE obsW
  /\ Looping \/ InvalidFirst(connecting)

\* The write set has room for a socket of every record.
RoomForAll == IsFiniteSet(Recs) /\ Cardinality(Recs) <= RoomW

\* A connect finds room: its record had no O socket yet.
RoomNow == \A r \in live, s \in Socks :
             obsW = InProgress /\ mcn[r].O = INVALID => Noted(s) = obsW \cup {s}

LEMMA RoomFound ==
  ASSUME RoomForAll, TypeOK
  PROVE  RoomNow
<1> SUFFICES ASSUME NEW r \in live, NEW s \in Socks, obsW = InProgress, mcn[r].O = INVALID
             PROVE  Noted(s) = obsW \cup {s}
  BY DEF RoomNow
<1>1. live \subseteq Recs /\ INVALID \notin Socks /\ RoomW \in Nat
  BY ServerAssumption DEF TypeOK, RoomW
<1> DEFINE Others == Recs \ {r}
           f == [x \in obsW |-> CHOOSE q \in live : mcn[q].O = x]
<1>2. ASSUME NEW x \in obsW PROVE f[x] \in Others /\ mcn[f[x]].O = x
  <2>1. x \in Socks /\ \E q \in live : mcn[q].O = x
    BY <1>2 DEF InProgress
  <2> QED BY <1>1, <2>1
<1>3. f \in Injection(obsW, Others)
  <2>1. f \in [obsW -> Others]
    BY <1>2
  <2>2. \A x, y \in DOMAIN f : f[x] = f[y] => x = y
    BY <1>2
  <2> QED BY <2>1, <2>2 DEF Injection, IsInjective
<1>4. /\ IsFiniteSet(Others) /\ Cardinality(Others) = Cardinality(Recs) - 1
      /\ Cardinality(Recs) \in Nat
  BY <1>1, FS_RemoveElement, FS_CardinalityType DEF RoomForAll
<1> HIDE DEF f, Others
<1>5. IsFiniteSet(obsW) /\ Cardinality(obsW) <= Cardinality(Others)
  BY <1>3, <1>4, FS_Injection
<1>6. Cardinality(obsW) \in Nat
  BY <1>5, FS_CardinalityType
<1>7. Cardinality(obsW) < RoomW
  BY <1>1, <1>4, <1>5, <1>6 DEF RoomForAll
<1> QED BY <1>7 DEF Noted

\* The O socket of r is closed, or no longer in progress.
LEMMA LessOne ==
  ASSUME TypeOK, Ownership, NEW r \in Recs,
         \A q \in Recs : q # r =>
           /\ q \in live' <=> q \in live
           /\ mcn'[q].prog = mcn[q].prog /\ mcn'[q].O = mcn[q].O,
         r \in live' => ~mcn'[r].prog \/ mcn'[r].O = INVALID,
         live' \subseteq Recs
  PROVE  \A s \in Socks : s \in InProgress' <=> s \in InProgress /\ s # mcn[r].O
<1> TAKE s \in Socks
<1>0. live \subseteq Recs /\ s # INVALID
  BY ServerAssumption DEF TypeOK
<1>1. s \in InProgress' => s \in InProgress /\ s # mcn[r].O
  <2> SUFFICES ASSUME NEW q \in live', mcn'[q].prog, mcn'[q].O = s
               PROVE  s \in InProgress /\ s # mcn[r].O
    BY DEF InProgress
  <2>1. q # r /\ q \in Recs
    BY <1>0
  <2>2. q \in live /\ mcn[q].prog /\ mcn[q].O = s
    BY <2>1
  <2> QED BY <2>1, <2>2, Unique DEF InProgress
<1>2. s \in InProgress /\ s # mcn[r].O => s \in InProgress'
  BY <1>0 DEF InProgress
<1> QED BY <1>1, <1>2

\* The O sockets in S are closed and forgotten.
LEMMA LessSet ==
  ASSUME TypeOK, NEW SI, NEW S, mcn' = DropO(DropI(mcn, SI), S), live' = live
  PROVE  \A s \in Socks : s \in InProgress' <=> s \in InProgress /\ s \notin S
<1>1. \A r \in live : /\ r \in Recs
                      /\ mcn'[r].prog = mcn[r].prog
                      /\ mcn'[r].O = IF mcn[r].O \in S THEN INVALID ELSE mcn[r].O
  BY DEF DropO, DropI, TypeOK, Conn
<1> QED BY <1>1, ServerAssumption DEF InProgress

LEMMA SameProgress ==
  ASSUME TypeOK, \A r \in live' : mcn'[r].prog /\ mcn'[r].O # INVALID
                   => r \in live /\ mcn[r].prog /\ mcn[r].O = mcn'[r].O,
         \A r \in live : mcn[r].prog /\ mcn[r].O # INVALID
                   => r \in live' /\ mcn'[r].prog /\ mcn'[r].O = mcn[r].O
  PROVE  InProgress' = InProgress
<1>1. \A s \in Socks : s # INVALID
  BY ServerAssumption
<1>2. \A s \in Socks : (\E r \in live' : mcn'[r].prog /\ mcn'[r].O = s)
                       => \E r \in live : mcn[r].prog /\ mcn[r].O = s
  BY <1>1
<1>3. \A s \in Socks : (\E r \in live : mcn[r].prog /\ mcn[r].O = s)
                       => \E r \in live' : mcn'[r].prog /\ mcn'[r].O = s
  BY <1>1
<1> QED BY <1>2, <1>3 DEF InProgress

\* Outside of the loop, what goes goes from everywhere.
LEMMA MirrorFewer ==
  ASSUME TypeOK, Mirror, ~Looping, ~Looping', NEW S,
         connecting' = Without(connecting, S),
         obsW' \subseteq obsW, \A s \in obsW : s \in obsW' <=> s \notin S,
         \A s \in Socks : s \in InProgress' <=> s \in InProgress /\ s \notin S
  PROVE  Mirror'
<1>1. connecting \in Seq(Sock) /\ obsW \subseteq Socks
  BY DEF TypeOK
<1>2. Entries(connecting') = Entries(connecting) \ S /\ InvalidFirst(connecting')
  BY <1>1, WithoutEntries, WithoutDistinct DEF Mirror
<1>3. InProgress \subseteq Socks /\ InProgress' \subseteq Socks
  BY DEF InProgress
<1>4. InProgress' = InProgress \ S
  BY <1>3
<1>5. Entries(connecting)' = Entries(connecting')
  BY DEF Entries
<1>6. InvalidFirst(connecting)'
  BY <1>2 DEF InvalidFirst
<1>7. Entries(connecting)' \ {INVALID} = InProgress'
  BY <1>2, <1>4, <1>5 DEF Mirror
<1>8. obsW' = InProgress'
  BY <1>1, <1>4 DEF Mirror, Looping
<1> QED BY <1>6, <1>7, <1>8 DEF Mirror, Looping

LEMMA MirrorSame ==
  ASSUME Mirror, ~Looping, ~Looping', UNCHANGED <<connecting, obsW>>,
         InProgress' = InProgress
  PROVE  Mirror'
<1>1. Entries(connecting)' = Entries(connecting)
  BY DEF Entries
<1>2. InvalidFirst(connecting)' <=> InvalidFirst(connecting)
  BY DEF InvalidFirst
<1> QED BY <1>1, <1>2 DEF Mirror, Looping

LEMMA CallbackMirror ==
  ASSUME "post" \notin Faults, IInv, Aligned, Mirror, Callback
  PROVE  Mirror'
<1> USE ServerAssumption, HelperTypes
<1> DEFINE o == mcn[cb].O
           S == {o} \ {INVALID}
<1>1. /\ pc = "Callback" /\ pc' = ret /\ ret \in {"Completed", "Connected"}
      /\ UNCHANGED <<wk, idx, ret>> /\ cb \in live /\ cb \in Recs /\ live \subseteq Recs
      /\ connecting \in Seq(Sock) /\ obsW \subseteq Socks
  BY DEF Callback, CallbackNone, CallbackOk, CallbackFail, CallbackProxyFail,
         IInv, TypeOK, CalledBack, Serves, Aligned, pass, frame
<1>2. ~Looping <=> ret = "Connected"
  BY <1>1 DEF Looping, Marking
<1>3. Looping' <=> Looping
  BY <1>1 DEF Looping, Marking
<1>4. CASE CallbackNone \/ CallbackOk
  <2>1. UNCHANGED <<connecting, obsW, live>>
    BY <1>4 DEF CallbackNone, CallbackOk, table, sets
  <2>2. \A r \in Recs : mcn'[r].prog = mcn[r].prog /\ mcn'[r].O = mcn[r].O
    BY <1>1, <1>4 DEF CallbackNone, CallbackOk, table, IInv, TypeOK, Conn
  <2>3. InProgress' = InProgress
    BY <2>1, <2>2, <1>1, SameProgress DEF IInv
  <2>4. Entries(connecting)' = Entries(connecting)
    BY <2>1 DEF Entries
  <2>5. InvalidFirst(connecting)' <=> InvalidFirst(connecting)
    BY <2>1 DEF InvalidFirst
  <2>6. Marking' <=> Marking
    BY <1>1 DEF Marking
  <2> QED BY <2>1, <2>3, <2>4, <2>5, <2>6, <1>1, <1>3 DEF Mirror
<1>5. CASE CallbackFail \/ CallbackProxyFail
  <2>1. connecting' = Without(connecting, S) /\ obsW' = obsW \ S
    BY <1>1, <1>5 DEF CallbackFail, CallbackProxyFail, Erase, CloseOwned
  <2>2. \A s \in Socks : s \in InProgress' <=> s \in InProgress /\ s # o
    <3>1. \A q \in Recs : q # cb => mcn'[q] = mcn[q] /\ (q \in live' <=> q \in live)
      BY <1>1, <1>5 DEF CallbackFail, CallbackProxyFail, Erase, IInv, TypeOK
    <3>2. live' \subseteq Recs /\ mcn'[cb].O = INVALID
      BY <1>1, <1>5
      DEF CallbackFail, CallbackProxyFail, Erase, IInv, TypeOK, NoConn, Conn
    <3> QED BY <3>1, <3>2, <1>1, LessOne DEF IInv
  <2> HIDE DEF S
  <2>3. \A s \in Socks : s \in InProgress' <=> s \in InProgress /\ s \notin S
    BY <2>2 DEF S
  <2>4. CASE ~Looping
    BY <2>1, <2>3, <2>4, <1>3, MirrorFewer DEF IInv
  <2>5. CASE Looping
    <3>1. Entries(connecting') = Entries(connecting) \ S
      BY <1>1, <2>1, WithoutEntries
    <3>2. Entries(connecting)' = Entries(connecting')
      BY DEF Entries
    <3>3. InProgress' = InProgress \ S
      BY <2>3 DEF InProgress
    <3>4. Marking /\ Marking'
      BY <2>5, <1>1 DEF Looping, Marking
    <3>5. InProgress = obsW \ {wk[idx]} /\ Entries(connecting) \ {INVALID} = InProgress
      BY <3>4 DEF Mirror
    <3>6. wk'[idx'] = wk[idx]
      BY <1>1
    <3> QED BY <2>1, <2>5, <1>3, <3>1, <3>2, <3>3, <3>4, <3>5, <3>6 DEF Mirror
  <2> QED BY <2>4, <2>5
<1> QED BY <1>4, <1>5 DEF Callback

LEMMA LoopMirror ==
  ASSUME "post" \notin Faults, Alias = {}, IInv, Aligned, Mirror, Complete
  PROVE  Mirror'
<1> USE ServerAssumption, HelperTypes
<1>0. /\ connecting \in Seq(Sock) /\ wk \in Seq(Sock) /\ idx \in Nat \ {0}
      /\ obsW \subseteq Socks /\ live \subseteq Recs
  BY DEF IInv, TypeOK
<1>a. ASSUME idx <= Len(wk) PROVE wk[idx] \in Sock
  BY <1>0, <1>a
<1>b. \A S : \A s \in Sock : FdIsset(S, s) => s \in Socks
  BY DEF FdIsset, Fd, Sock
<1>1. CASE ConnectingNext
  <2>1. UNCHANGED <<table, connecting, obsW, pc>> /\ pc = "Connecting"
    BY <1>1 DEF ConnectingNext, sets
  <2>2. InProgress' = InProgress /\ Entries(connecting)' = Entries(connecting)
    BY <2>1 DEF table, InProgress, Entries
  <2> QED BY <2>1, <2>2 DEF Mirror, Looping, Marking
<1>2. CASE ConnectingUnknown \/ \E r \in Recs : ConnectingReady(r)
  <2> DEFINE w == wk[idx]
  <2>1. /\ pc = "Connecting" /\ MarkDone /\ idx <= Len(wk) /\ FdIsset(rdyW, w)
        /\ UNCHANGED <<obsW, wk, idx, live>> /\ w \in Socks /\ Marking'
    BY <1>2, <1>a, <1>b DEF ConnectingUnknown, ConnectingReady, pass, table, Marking
  <2>2. Entries(connecting') \ {INVALID} = (Entries(connecting) \ {w}) \ {INVALID}
    BY <2>1, Marked DEF IInv
  <2>3. Entries(connecting)' = Entries(connecting')
    BY DEF Entries
  <2>4. Entries(connecting) \ {INVALID} = InProgress /\ InProgress = obsW
    BY <2>1 DEF Mirror, Marking
  <2>5. InProgress' = InProgress \ {w}
    <3>1. CASE ConnectingUnknown
      <4>1. UNCHANGED <<live, mcn>> /\ \A r \in live : mcn[r].O # w
        BY <3>1 DEF ConnectingUnknown, table, ByO
      <4> QED BY <4>1 DEF InProgress
    <3>2. ASSUME NEW r \in Recs, ConnectingReady(r) PROVE InProgress' = InProgress \ {w}
      <4>1. r \in live /\ mcn[r].O = w
        BY <3>2 DEF ConnectingReady, ByO
      <4>2. /\ \A q \in Recs : q # r => mcn'[q] = mcn[q]
            /\ ~mcn'[r].prog
        BY <3>2 DEF ConnectingReady, IInv, TypeOK, Conn
      <4>3. \A s \in Socks : s \in InProgress' <=> s \in InProgress /\ s # w
        <5>1. \A q \in Recs : q # r =>
                /\ q \in live' <=> q \in live
                /\ mcn'[q].prog = mcn[q].prog /\ mcn'[q].O = mcn[q].O
          BY <4>2, <2>1
        <5>2. live' \subseteq Recs
          BY <2>1, <1>0
        <5> QED BY <4>1, <4>2, <5>1, <5>2, LessOne DEF IInv
      <4> QED BY <4>3 DEF InProgress
    <3> QED BY <1>2, <3>1, <3>2
  <2>6. wk'[idx'] = w /\ obsW' = obsW
    BY <2>1
  <2> HIDE DEF w
  <2> QED BY <2>1, <2>2, <2>3, <2>4, <2>5, <2>6 DEF Mirror, Looping
<1>3. CASE Completed
  <2>1. /\ pc = "Completed" /\ pc' = "Connecting" /\ UNCHANGED <<table, connecting>>
        /\ obsW' = obsW \ Fd(wk[idx]) /\ idx <= Len(wk)
    BY <1>3 DEF Completed, Done, Aligned, Marking
  <2>2. obsW' = obsW \ {wk[idx]}
    BY <2>1, <1>0, <1>a DEF Fd
  <2>3. InProgress' = InProgress /\ Entries(connecting)' = Entries(connecting)
    BY <2>1 DEF table, InProgress, Entries
  <2> QED BY <2>1, <2>2, <2>3 DEF Mirror, Looping, Marking
<1>4. CASE ConnectingDone
  <2>1. /\ pc = "Connecting" /\ pc' = "Read" /\ UNCHANGED <<table, obsW>>
        /\ connecting' = IF wk = <<>> THEN connecting ELSE Compacted(connecting)
    BY <1>4 DEF ConnectingDone
  <2>2. /\ InvalidFirst(connecting')
        /\ Entries(connecting') \ {INVALID} = Entries(connecting) \ {INVALID}
    <3>1. CASE wk = <<>>
      <4>1. Len(connecting) = 0
        BY <3>1, <2>1 DEF Aligned, SameFrom
      <4> QED BY <3>1, <4>1, <2>1, <1>0 DEF InvalidFirst
    <3>2. CASE wk # <<>>
      BY <3>2, <2>1, <1>0, CompactedKeeps
    <3> QED BY <3>1, <3>2
  <2>3. /\ InProgress' = InProgress /\ Entries(connecting)' = Entries(connecting')
        /\ InvalidFirst(connecting)' <=> InvalidFirst(connecting')
    BY <2>1 DEF table, InProgress, Entries, InvalidFirst
  <2> QED BY <2>1, <2>2, <2>3 DEF Mirror, Looping, Marking
<1> QED BY <1>1, <1>2, <1>3, <1>4 DEF Complete

LEMMA SelectMirror ==
  ASSUME "post" \notin Faults, Alias = {}, IInv, Mirror, Select \/ Accept
  PROVE  Mirror'
<1> USE ServerAssumption, HelperTypes DEF IInv
<1>0. obsW \subseteq Socks /\ live \subseteq Recs
  BY DEF TypeOK
<1>1. CASE SelectReady \/ SelectError \/ AcceptDeny \/ AcceptDone
  <2>1. UNCHANGED <<table, sets>> /\ pc \in {"Select", "Accept"}
        /\ pc' \in {"Accept", "Restart", "Connecting"}
    BY <1>1 DEF SelectReady, SelectError, AcceptDeny, AcceptDone
  <2>2. InProgress' = InProgress /\ Entries(connecting)' = Entries(connecting)
    BY <2>1 DEF table, sets, InProgress, Entries
  <2>3. InvalidFirst(connecting)' <=> InvalidFirst(connecting)
    BY <2>1 DEF sets, InvalidFirst
  <2> QED BY <2>1, <2>2, <2>3 DEF Mirror, Looping, Marking, sets
<1>2. CASE SelectTimeout
  <2>1. PICK X \in SUBSET Exiles, E \in SUBSET Pending : TimeoutStep(X, E)
    BY <1>2 DEF SelectTimeout
  <2> DEFINE S == E \cup {INVALID}
  <2>2. /\ connecting' = Without(connecting, S) /\ obsW' = obsW \ E
        /\ ~Looping /\ ~Looping' /\ live' = live \ X
        /\ \A r \in X : r \in live /\ mcn[r].O = INVALID
        /\ \A r \in Recs : mcn'[r] = IF r \in X THEN NoConn ELSE DropO(mcn, E)[r]
    BY <2>1 DEF TimeoutStep, frame, Looping, Marking, Exiles
  <2>3. \A r \in live : /\ DropO(mcn, E)[r].prog = mcn[r].prog
                        /\ DropO(mcn, E)[r].O = IF mcn[r].O \in E THEN INVALID
                                                ELSE mcn[r].O
    BY DEF DropO, TypeOK, Conn
  <2>4. \A s \in Socks : s \in InProgress' <=> s \in InProgress /\ s \notin S
    <3> TAKE s \in Socks
    <3>1. s \in InProgress' => s \in InProgress /\ s \notin S
      <4> SUFFICES ASSUME NEW q \in live \ X, mcn'[q].prog, mcn'[q].O = s
                   PROVE  s \in InProgress /\ s \notin S
        BY <2>2 DEF InProgress
      <4>1. q \in live /\ mcn[q].prog /\ mcn[q].O = s /\ s \notin E
        BY <1>0, <2>2, <2>3
      <4> QED BY <4>1 DEF InProgress
    <3>2. s \in InProgress /\ s \notin S => s \in InProgress'
      <4> SUFFICES ASSUME NEW q \in live, mcn[q].prog, mcn[q].O = s, s \notin E
                   PROVE  s \in InProgress'
        BY DEF InProgress
      <4>1. q \in live \ X /\ mcn'[q].prog /\ mcn'[q].O = s
        BY <1>0, <2>2, <2>3
      <4> QED BY <4>1, <2>2 DEF InProgress
    <3> QED BY <3>1, <3>2
  <2>5. obsW' \subseteq obsW /\ \A s \in obsW : s \in obsW' <=> s \notin S
    BY <2>2, <1>0
  <2> HIDE DEF S
  <2> QED BY <2>2, <2>4, <2>5, MirrorFewer
<1>3. ASSUME NEW s \in Socks, NEW r \in Recs, AcceptAllow(s, r) PROVE Mirror'
  <2>1. s \notin open /\ mcn[r].I # s
    BY <1>3, Unique DEF AcceptAllow
  <2> DEFINE S == OwnedBy(r)
  <2>2. /\ connecting' = Without(connecting, S) /\ obsW' = obsW \ S
        /\ mcn' = [mcn EXCEPT ![r] = [NoConn EXCEPT !.I = s]]
        /\ live' = live \cup {r} /\ ~Looping /\ ~Looping'
    BY <1>3, <2>1 DEF AcceptAllow, frame, Looping, Marking
  <2>3. \A q \in Recs : mcn'[q] = IF q = r THEN [NoConn EXCEPT !.I = s] ELSE mcn[q]
    BY <2>2 DEF TypeOK
  <2>4. mcn'[r].O = INVALID
    BY <2>3 DEF NoConn
  <2>5. \A x \in Socks : x \in InProgress' <=> x \in InProgress /\ x # mcn[r].O
    <3>1. live' \subseteq Recs
      BY <1>0, <2>2
    <3>2. \A q \in Recs : q # r =>
            /\ q \in live' <=> q \in live
            /\ mcn'[q].prog = mcn[q].prog /\ mcn'[q].O = mcn[q].O
      BY <2>2, <2>3
    <3> QED BY <2>4, <3>1, <3>2, LessOne
  <2>6. \A x \in Socks : x \in InProgress => x # mcn[r].I
    BY <1>0, Unique DEF InProgress
  <2>7. \A x \in Socks : x \in InProgress' <=> x \in InProgress /\ x \notin S
    BY <2>5, <2>6 DEF OwnedBy
  <2> HIDE DEF S
  <2> QED BY <2>2, <2>7, MirrorFewer
<1> QED BY <1>1, <1>2, <1>3 DEF Select, Accept

LEMMA ScanMirror ==
  ASSUME "post" \notin Faults, Alias = {}, IInv, Mirror, Scan
  PROVE  Mirror'
<1> USE ServerAssumption, HelperTypes DEF IInv
<1>0. /\ obsW \subseteq Socks /\ live \subseteq Recs /\ cur \in Sock
      /\ ~Looping /\ ~Looping'
  BY DEF TypeOK, Scan, ReadUnknown, ReadKnown, ScanFail, ScanCut, ScanData,
         ScanRequest, ScanReject, ScanResponse, Looping, Marking, frame, Idle
<1>a. pc = "Scan" => ptr \in live /\ cur \in Socks /\ ptr \in Recs
  BY <1>0 DEF Serves
<1>b. \A s \in InProgress : s \in Socks /\ ByO(s) # {}
  BY DEF InProgress, ByO
<1>1. CASE ScanData \/ \E s \in Socks : ReadUnknown(s) \/ \E r \in Recs : ReadKnown(s, r)
  <2>1. UNCHANGED <<connecting, obsW, live, mcn>>
    BY <1>1 DEF ScanData, ReadUnknown, ReadKnown, table, sets
  <2>2. InProgress' = InProgress
    BY <2>1 DEF InProgress
  <2> QED BY <1>0, <2>1, <2>2, MirrorSame
<1>2. CASE ScanFail
  <2> DEFINE S == {mcn[ptr].O} \ {INVALID}
  <2>1. /\ connecting' = Without(connecting, S) /\ obsW' = obsW \ S
        /\ mcn' = [mcn EXCEPT ![ptr] = NoConn] /\ live' = live \ {ptr}
        /\ ptr \in Recs
    BY <1>2, <1>a DEF ScanFail, Erase, CloseOwned
  <2>2. \A s \in Socks : s \in InProgress' <=> s \in InProgress /\ s # mcn[ptr].O
    <3>1. \A q \in Recs : q # ptr =>
            /\ q \in live' <=> q \in live
            /\ mcn'[q].prog = mcn[q].prog /\ mcn'[q].O = mcn[q].O
      BY <2>1
    <3> QED BY <1>0, <2>1, <3>1, LessOne
  <2>3. \A s \in Socks : s \in InProgress' <=> s \in InProgress /\ s \notin S
    BY <2>2
  <2> HIDE DEF S
  <2> QED BY <1>0, <2>1, <2>3, MirrorFewer
<1>3. CASE ScanCut
  <2> DEFINE S == HeldO({cur})
  <2>1. /\ connecting' = Without(connecting, S) /\ obsW' = obsW \ S
        /\ mcn' = DropO(DropI(mcn, {cur}), {cur}) /\ live' = live
    BY <1>3 DEF ScanCut
  <2>2. \A s \in Socks : s \in InProgress' <=> s \in InProgress /\ s \notin {cur}
    BY <2>1, LessSet
  <2>3. \A s \in Socks : s \in InProgress' <=> s \in InProgress /\ s \notin S
    BY <2>2, <1>b DEF HeldO
  <2> HIDE DEF S
  <2> QED BY <1>0, <2>1, <2>3, MirrorFewer
<1>4. ASSUME NEW b \in BOOLEAN, NEW c \in BOOLEAN, ScanRequest(b, c) \/ ScanReject(b, c)
      PROVE  Mirror'
  <2> DEFINE S == Recycled(c)
  <2>1. /\ connecting' = Without(connecting, S) /\ obsW' = obsW \ RecycledFd(c)
        /\ live' = live /\ pc = "Scan"
        /\ \A q \in Recs : q # ptr => mcn'[q] = mcn[q]
        /\ mcn'[ptr].prog = mcn[ptr].prog
        /\ mcn'[ptr].O = IF c THEN INVALID ELSE mcn[ptr].O
    <3>1. CASE ScanRequest(b, c)
      BY <1>a, <3>1 DEF ScanRequest, TypeOK, Conn
    <3>2. CASE ScanReject(b, c)
      BY <1>a, <3>2 DEF ScanReject, TypeOK, Conn
    <3> QED BY <1>4, <3>1, <3>2
  <2>2. \A s \in Socks : s \in InProgress' <=> s \in InProgress /\ s \notin S
    <3>1. CASE c
      <4>1. \A s \in Socks : s \in InProgress' <=> s \in InProgress /\ s # mcn[ptr].O
        BY <1>0, <1>a, <2>1, <3>1, LessOne
      <4> QED BY <4>1, <3>1 DEF Recycled
    <3>2. CASE ~c
      <4>1. \A q \in Recs : mcn'[q].prog = mcn[q].prog /\ mcn'[q].O = mcn[q].O
        BY <2>1, <3>2, <1>a
      <4>2. InProgress' = InProgress
        BY <1>0, <2>1, <4>1, SameProgress
      <4> QED BY <4>2, <3>2 DEF Recycled
    <3> QED BY <3>1, <3>2
  <2>3. obsW' \subseteq obsW /\ \A s \in obsW : s \in obsW' <=> s \notin S
    BY <1>0, <2>1 DEF Recycled, RecycledFd, Fd
  <2> HIDE DEF S
  <2> QED BY <1>0, <2>1, <2>2, <2>3, MirrorFewer
<1>5. ASSUME NEW b \in BOOLEAN, ScanResponse(b) PROVE Mirror'
  <2> DEFINE S == IF b THEN {cur} ELSE {}
  <2>1. /\ connecting' = Without(connecting, S) /\ obsW' = obsW \ S
        /\ mcn' = DropO(mcn, S) /\ live' = live
    BY <1>5 DEF ScanResponse
  <2> DEFINE N == {}
  <2>2. DropI(mcn, N) = mcn
    BY DEF DropI, TypeOK
  <2> HIDE DEF S, N
  <2>3. mcn' = DropO(DropI(mcn, N), S)
    BY <2>1, <2>2
  <2>4. \A s \in Socks : s \in InProgress' <=> s \in InProgress /\ s \notin S
    BY <2>1, <2>3, LessSet
  <2> QED BY <1>0, <2>1, <2>4, MirrorFewer
<1> QED BY <1>1, <1>2, <1>3, <1>4, <1>5 DEF Scan

LEMMA ProxyMirror ==
  ASSUME "post" \notin Faults, Alias = {}, RoomNow, IInv, Mirror, Proxy
  PROVE  Mirror'
<1> USE ServerAssumption, HelperTypes DEF IInv
<1>0. /\ obsW \subseteq Socks /\ live \subseteq Recs /\ cur \in Sock
      /\ connecting \in Seq(Sock)
  BY DEF TypeOK
<1>1. CASE Relay \/ Connected
  <2>1. UNCHANGED <<connecting, obsW, live, mcn>> /\ ~Looping /\ ~Looping'
    BY <1>1 DEF Relay, Connected, table, sets, Looping, Marking
  <2>2. InProgress' = InProgress
    BY <2>1 DEF InProgress
  <2> QED BY <2>1, <2>2, MirrorSame
<1>2. ASSUME NEW r \in Recs, NEW kind \in Kinds, ConnectReuse(r, kind) PROVE Mirror'
  <2>1. /\ pc = "Dispatch" /\ mcn[r].O # INVALID /\ live' = live
        /\ mcn' = [mcn EXCEPT ![r].ev = kind] /\ ~Looping /\ ~Looping'
    BY <1>2 DEF ConnectReuse, ConnectTo, FoundO, Looping, Marking
  <2>2. r \in live
    BY <1>2, <2>1, SameRecord DEF ConnectReuse
  <2>3. \A q \in Recs : mcn'[q].prog = mcn[q].prog /\ mcn'[q].O = mcn[q].O
    BY <2>1 DEF TypeOK, Conn
  <2>4. InProgress' = InProgress
    BY <1>0, <2>1, <2>3, SameProgress
  <2>5. mcn[r].prog => mcn[r].O \in InProgress
    BY <2>1, <2>2 DEF InProgress
  <2>6. InProgress = obsW /\ Entries(connecting) \ {INVALID} = InProgress
    BY <2>1 DEF Mirror, Looping
  <2>7. UNCHANGED <<connecting, obsW>>
    <3> DEFINE o == mcn[r].O
    <3>1. \/ UNCHANGED <<connecting, obsW>>
          \/ /\ mcn[r].prog /\ obsW' \in {obsW, obsW \cup {o}}
             /\ o \in Entries(connecting) => connecting' = connecting
      BY <1>2 DEF ConnectReuse, AddConnecting, Noted
    <3>2. mcn[r].prog => o \in obsW /\ o \in Entries(connecting)
      BY <2>5, <2>6
    <3> HIDE DEF o
    <3>3. o \in obsW => obsW \cup {o} = obsW
      OBVIOUS
    <3>4. CASE mcn[r].prog
      BY <3>1, <3>2, <3>3, <3>4
    <3>5. CASE ~mcn[r].prog
      BY <3>1, <3>5
    <3> QED BY <3>4, <3>5
  <2> QED BY <2>1, <2>4, <2>7, MirrorSame
<1>3. ASSUME NEW r \in Recs, NEW kind \in Kinds, NEW s \in Socks,
             NEW b \in BOOLEAN, ConnectNew(r, kind, s, b)
      PROVE  Mirror'
  <2>1. /\ pc = "Dispatch" /\ s \notin open /\ live' = live \cup {r}
        /\ mcn' = [mcn EXCEPT ![r] = [I |-> cur, O |-> s, prog |-> b, ev |-> kind]]
        /\ ~Looping /\ ~Looping'
    BY <1>3 DEF ConnectNew, ConnectTo, Looping, Marking
  <2>2. r \in live /\ mcn[r].O = INVALID
    BY <1>3, <2>1, SameRecord DEF ConnectNew, FoundO
  <2>3. \A q \in Recs : mcn'[q] = IF q = r THEN [I |-> cur, O |-> s, prog |-> b, ev |-> kind]
                                  ELSE mcn[q]
    BY <2>1 DEF TypeOK
  <2>4. mcn'[r].prog = b /\ mcn'[r].O = s /\ live' = live
    BY <2>1, <2>2, <2>3
  <2>5. \A q \in Recs : q # r => mcn'[q] = mcn[q]
    BY <2>3
  <2>6. /\ InProgress = obsW /\ Entries(connecting) \ {INVALID} = InProgress
        /\ InvalidFirst(connecting)
    BY <2>1 DEF Mirror, Looping
  <2>7. s \notin InProgress /\ s # INVALID
    BY <1>0, <2>1, Unique DEF InProgress
  <2>8. CASE b
    <3>1. InProgress' = InProgress \cup {s}
      <4>1. \A x \in Socks : (\E q \in live : mcn'[q].prog /\ mcn'[q].O = x)
              <=> (x = s \/ \E q \in live : mcn[q].prog /\ mcn[q].O = x)
        BY <1>0, <2>2, <2>4, <2>5, <2>8
      <4> QED BY <4>1, <2>4 DEF InProgress
    <3>2. connecting' = Append(connecting, s) /\ obsW' = obsW \cup {s}
      <4>1. Noted(s) = obsW \cup {s}
        BY <2>2, <2>6 DEF RoomNow
      <4> QED BY <1>3, <2>6, <2>7, <2>8, <4>1 DEF ConnectNew, AddConnecting
    <3>3. /\ DOMAIN connecting' = 1..(Len(connecting) + 1)
          /\ DOMAIN connecting = 1..Len(connecting) /\ Len(connecting) \in Nat
          /\ \A i \in DOMAIN connecting : connecting'[i] = connecting[i]
          /\ connecting'[Len(connecting) + 1] = s
      BY <1>0, <3>2
    <3>4. Entries(connecting') = Entries(connecting) \cup {s}
      <4>1. \A i \in DOMAIN connecting' : i \in DOMAIN connecting \/ i = Len(connecting) + 1
        BY <3>3
      <4>2. /\ \A i \in DOMAIN connecting : i \in DOMAIN connecting'
            /\ Len(connecting) + 1 \in DOMAIN connecting'
        BY <3>3
      <4> QED BY <3>3, <4>1, <4>2 DEF Entries
    <3>5. InvalidFirst(connecting')
      <4>1. \A i \in DOMAIN connecting' : i \in DOMAIN connecting \/ i = Len(connecting) + 1
        BY <3>3
      <4> QED BY <3>3, <4>1, <2>6, <2>7 DEF InvalidFirst
    <3>6. Entries(connecting)' = Entries(connecting') /\ InvalidFirst(connecting)'
      BY <3>5 DEF Entries, InvalidFirst
    <3> QED BY <2>1, <2>6, <2>7, <3>1, <3>2, <3>4, <3>6 DEF Mirror, Looping
  <2>9. CASE ~b
    <3>1. UNCHANGED <<connecting, obsW>>
      BY <1>3, <2>9 DEF ConnectNew
    <3>2. InProgress' = InProgress
      BY <1>0, <2>2, <2>4, <2>5, <2>9, SameProgress
    <3> QED BY <2>1, <3>1, <3>2, MirrorSame
  <2> QED BY <2>8, <2>9
<1>4. ASSUME NEW r \in Recs, NEW kind \in Kinds, ConnectFail(r, kind) PROVE Mirror'
  <2>1. /\ pc = "Dispatch" /\ live' = live \cup {r} /\ mcn' = [mcn EXCEPT ![r] = NoConn]
        /\ ~Looping /\ ~Looping' /\ UNCHANGED <<connecting, obsW>>
    BY <1>4 DEF ConnectFail, ConnectTo, Looping, Marking
  <2>2. r \in live /\ mcn[r].O = INVALID
    BY <1>4, <2>1, SameRecord DEF ConnectFail, FoundO
  <2>3. live' = live /\ \A q \in Recs : mcn'[q] = IF q = r THEN NoConn ELSE mcn[q]
    BY <2>1, <2>2 DEF TypeOK
  <2>4. InProgress' = InProgress
    BY <1>0, <2>2, <2>3, SameProgress DEF NoConn
  <2> QED BY <2>1, <2>4, MirrorSame
<1>5. ~PostBodyCut
  BY DEF PostBodyCut
<1> QED BY <1>1, <1>2, <1>3, <1>4, <1>5 DEF Proxy

LEMMA WebMirror ==
  ASSUME "post" \notin Faults, Alias = {}, IInv, Mirror, Web
  PROVE  Mirror'
<1> USE ServerAssumption, HelperTypes DEF IInv
<1>0. obsW \subseteq Socks
  BY DEF TypeOK
<1>1. ASSUME NEW b \in BOOLEAN, WebReply(b) PROVE Mirror'
  <2>1. /\ UNCHANGED <<connecting, obsW, live>> /\ ~Looping /\ ~Looping'
        /\ mcn' = DropI(mcn, IF b THEN {cur} ELSE {})
    BY <1>1 DEF WebReply, Looping, Marking, Idle
  <2>2. \A r \in live : mcn'[r].prog = mcn[r].prog /\ mcn'[r].O = mcn[r].O
    BY <2>1 DEF DropI, TypeOK, Conn
  <2>3. InProgress' = InProgress
    BY <2>1, <2>2, SameProgress
  <2> QED BY <2>1, <2>3, MirrorSame
<1>2. ASSUME NEW b \in BOOLEAN, NEW u \in BOOLEAN,
             NEW res \in Results,
             WebConfig(b, u, res)
      PROVE  Mirror'
  <2> DEFINE SI == IF b THEN {cur} ELSE {}
             C  == IF u THEN obsR \ SI ELSE {}
             S  == HeldO(C)
  <2>1. /\ mcn' = DropO(DropI(mcn, SI \cup C), C) /\ live' = live
        /\ obsW' = obsW \ S /\ connecting' = Without(connecting, S)
        /\ ~Looping /\ ~Looping'
    BY <1>2 DEF WebConfig, Looping, Marking, Idle
  <2> HIDE DEF SI, C
  <2>2. \A s \in Socks : s \in InProgress' <=> s \in InProgress /\ s \notin C
    BY <2>1, LessSet
  <2>3. \A s \in Socks : s \in InProgress' <=> s \in InProgress /\ s \notin S
    BY <2>2 DEF HeldO, InProgress, ByO
  <2> HIDE DEF S
  <2> QED BY <2>1, <2>3, MirrorFewer
<1> QED BY <1>1, <1>2 DEF Web

LEMMA RestMirror ==
  ASSUME Mirror, TypeOK, ReadDone \/ Restart \/ Relaunch \/ UNCHANGED vars
  PROVE  Mirror'
<1>1. CASE ReadDone
  <2>1. UNCHANGED <<connecting, obsW, live, mcn>> /\ ~Looping /\ ~Looping'
    BY <1>1 DEF ReadDone, table, Looping, Marking
  <2>2. InProgress' = InProgress
    BY <2>1 DEF InProgress
  <2> QED BY <2>1, <2>2, MirrorSame
<1>2. CASE Restart \/ Relaunch
  <2>1. /\ connecting' = <<>> /\ obsW' = {} /\ pc' = "Select"
        /\ mcn' = [r \in Recs |-> NoConn] /\ live' \subseteq Recs
    BY <1>2 DEF Restart, Relaunch, TypeOK
  <2>2. InProgress' = {}
    BY <2>1, ServerAssumption DEF InProgress, NoConn
  <2>3. Entries(connecting)' = {} /\ InvalidFirst(connecting)'
    BY <2>1 DEF Entries, InvalidFirst
  <2> QED BY <2>1, <2>2, <2>3 DEF Mirror, Marking
<1>3. CASE UNCHANGED vars
  BY <1>3 DEF vars, table, sets, pass, frame, Mirror, Looping, Marking,
              InProgress, Entries, InvalidFirst
<1> QED BY <1>1, <1>2, <1>3

LEMMA InitMirror == Init => Mirror
BY DEF Init, Mirror, Looping, Marking, InProgress, Entries, InvalidFirst

LEMMA NextMirror ==
  ASSUME "post" \notin Faults, Alias = {}, RoomNow, IInv, Aligned, Mirror, [Next]_vars
  PROVE  Mirror'
<1>1. TypeOK
  BY DEF IInv
<1> QED
  BY <1>1, SelectMirror, LoopMirror, CallbackMirror, ScanMirror, ProxyMirror,
     WebMirror, RestMirror DEF Next

\* Whenever the server waits, the array, the sockets observed for writing and
\* the connects in progress in the table are the same.  Assumed: POST bodies
\* arrive whole, FD_CLR of ZnkSocket_INVALID does nothing, and the write set has
\* room for a socket of every record.
THEOREM ConnectingMirrorsHolds ==
  ASSUME "post" \notin Faults, Alias = {}, RoomForAll
  PROVE  Spec => []ConnectingMirrors
<1>1. Init => IInv /\ Aligned /\ Mirror
  BY InitType, InitOwns, InitAligned, InitMirror DEF IInv
<1>2. IInv /\ Aligned /\ Mirror /\ [Next]_vars => (IInv /\ Aligned /\ Mirror)'
  BY NextType, NextOwns, NextAligned, NextMirror, RoomFound DEF IInv
<1>3. IInv /\ Aligned /\ Mirror => ConnectingMirrors
  <2> SUFFICES ASSUME IInv, Aligned, Mirror, pc = "Select" PROVE ConnectingMirrors!2
    BY DEF ConnectingMirrors
  <2>1. /\ Entries(connecting) \ {INVALID} = InProgress /\ InProgress = obsW
        /\ InvalidFirst(connecting) /\ Distinct(connecting)
    BY DEF Mirror, Looping, Marking, Aligned
  <2>2. InProgress = {mcn[r].O : r \in {q \in live : mcn[q].prog}} \ {INVALID}
    BY HelperTypes, ServerAssumption DEF InProgress, IInv, TypeOK
  <2>3. \A i, j \in DOMAIN connecting : connecting[i] = connecting[j] => i = j
    BY <2>1 DEF InvalidFirst, Distinct
  <2> QED BY <2>1, <2>2, <2>3 DEF InvalidFirst
<1> QED BY <1>1, <1>2, <1>3, PTL DEF Spec
=============================================================================
