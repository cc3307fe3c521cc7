------------------------ MODULE BlockDownloadProofs -------------------------
(***************************************************************************)
(* The downloads, for any block tree, any set of peers and any limits:     *)
(* the requests in flight, the lists and the counters of the nodes agree,  *)
(* no request is taken from its peer, only a peer that owes a block is     *)
(* said to stall, and the last common block is one that both sides have.   *)
(*                                                                         *)
(* MarkBlockAsReceived and MarkBlockAsInFlight change three variables at   *)
(* once, so what they keep (Books) is said of the value they work on.      *)
(* That a block is common needs that nothing but blocks of its own chain   *)
(* is ever noted of a peer (Shares), and that the active chain is complete *)
(* and sound (ChainSound).                                                 *)
(***************************************************************************)
EXTENDS BlockDownload, FiniteSetTheorems, TLAPS

-----------------------------------------------------------------------------
(* The invariant.                                                          *)

NodeBooks(s) ==
    /\ \A e, f \in s.vBlocksInFlight : e.hash = f.hash => e = f
    /\ s.nBlocksInFlight = Cardinality(s.vBlocksInFlight)
    /\ s.nBlocksInFlightValidHeaders = ValidHeaders(s.vBlocksInFlight)
    /\ s.nStallingSince => s.vBlocksInFlight # {}

Listed(q) == UNION {q.state[p].vBlocksInFlight : p \in DOMAIN q.state}

Books(q) ==
    /\ DOMAIN q.state \subseteq NodeIds
    /\ q.state \in [DOMAIN q.state -> CNodeStates]
    /\ q.flight \in [Blocks -> NodeIds \cup {None}]
    /\ q.queued \in Int
    /\ \A b \in Blocks, p \in NodeIds :
           q.flight[b] = p
               <=> p \in DOMAIN q.state /\ \E e \in q.state[p].vBlocksInFlight : e.hash = b
    /\ \A p \in DOMAIN q.state : NodeBooks(q.state[p])
    /\ q.queued >= ValidHeaders(Listed(q))

Shares(p, s) ==
    /\ s.hashLastUnknownBlock \in Has[p] \cup {None}
    /\ s.pindexBestKnownBlock \in (Has[p] \cap mapBlockIndex) \cup {None}
    /\ s.pindexLastCommonBlock # None =>
           Linked(haveData, s.pindexLastCommonBlock) /\ s.pindexLastCommonBlock \in Has[p]

ChainSound ==
    /\ mapBlockIndex \subseteq Blocks
    /\ haveData \subseteq mapBlockIndex /\ failed \subseteq mapBlockIndex
    /\ tip \in haveData \ failed
    /\ Linked(haveData, tip)
    /\ haveData \cap BadContext = {}
    /\ \A b \in failed : Bad(b) \/ b \in BadContext

DInv ==
    /\ unseen \subseteq NodeIds /\ Connected \cap unseen = {}
    /\ SyncExact /\ ChainSound /\ Books(Queue)
    /\ \A p \in Connected : Shares(p, mapNodeState[p])

-----------------------------------------------------------------------------
(* The block tree.                                                         *)

LEMMA Tree ==
    /\ Genesis \in Blocks /\ Path[Genesis] = {Genesis} /\ nHeight[Genesis] = 0
    /\ \A b \in Blocks : /\ nHeight[b] \in Nat /\ nChainWork[b] \in Nat
                         /\ Path[b] \subseteq Blocks
                         /\ Genesis \in Path[b] /\ b \in Path[b]
    /\ \A b \in Blocks : b # Genesis =>
           /\ pprev[b] \in Blocks /\ Path[b] = Path[pprev[b]] \cup {b}
           /\ nHeight[b] = nHeight[pprev[b]] + 1
BY TreeAssumption

(* TreeAssumption's induction.                                             *)
LEMMA TreeInduction ==
    ASSUME NEW G \in SUBSET Blocks, Genesis \in G,
           \A b \in Blocks : (b # Genesis /\ pprev[b] \in G) => b \in G
    PROVE  G = Blocks
BY TreeAssumption

(* Ancestors of ancestors are ancestors and are not higher.                *)
LEMMA Ancestors ==
    ASSUME NEW b \in Blocks, NEW a \in Path[b]
    PROVE  Path[a] \subseteq Path[b] /\ nHeight[a] <= nHeight[b]
<1> DEFINE G == {x \in Blocks : \A y \in Path[x] :
                     Path[y] \subseteq Path[x] /\ nHeight[y] <= nHeight[x]}
<1>1. Genesis \in G
  BY Tree
<1>2. ASSUME NEW x \in Blocks, x # Genesis, pprev[x] \in G PROVE x \in G
  <2>1. /\ Path[x] = Path[pprev[x]] \cup {x} /\ nHeight[x] = nHeight[pprev[x]] + 1
        /\ pprev[x] \in Blocks /\ nHeight[pprev[x]] \in Nat
    BY <1>2, Tree
  <2>2. \A y \in Path[pprev[x]] : y \in Blocks /\ nHeight[y] \in Nat
    BY <2>1, Tree
  <2> QED  BY <1>2, <2>1, <2>2
<1>3. G = Blocks
  <2> HIDE DEF G
  <2>1. G \in SUBSET Blocks
    BY DEF G
  <2> QED  BY <1>1, <1>2, <2>1, TreeInduction
<1> QED  BY <1>3

(* Blocks of one chain have a highest and a lowest.                        *)
LEMMA Extremes ==
    ASSUME NEW b \in Blocks, NEW S \in SUBSET Path[b], S # {}
    PROVE  /\ \E m \in S : \A c \in S : nHeight[c] <= nHeight[m]
           /\ \E m \in S : \A c \in S : nHeight[m] <= nHeight[c]
<1> DEFINE P(x) == \A T \in SUBSET Path[x] : T # {} =>
                       /\ \E m \in T : \A c \in T : nHeight[c] <= nHeight[m]
                       /\ \E m \in T : \A c \in T : nHeight[m] <= nHeight[c]
           G == {x \in Blocks : P(x)}
<1>1. Genesis \in G
  BY Tree
<1>2. ASSUME NEW x \in Blocks, x # Genesis, pprev[x] \in G PROVE x \in G
  <2>1. Path[x] = Path[pprev[x]] \cup {x}
    BY <1>2, Tree
  <2>2. \A c \in Path[x] : nHeight[c] \in Nat /\ nHeight[c] <= nHeight[x]
    BY Ancestors, Tree
  <2>3. SUFFICES ASSUME NEW T \in SUBSET Path[x], T # {}
                 PROVE  /\ \E m \in T : \A c \in T : nHeight[c] <= nHeight[m]
                        /\ \E m \in T : \A c \in T : nHeight[m] <= nHeight[c]
    OBVIOUS
  <2>4. CASE x \notin T
    <3>1. T \in SUBSET Path[pprev[x]] /\ P(pprev[x])
      BY <1>2, <2>1, <2>3, <2>4, Zenon
    <3> QED  BY <2>3, <3>1
  <2>5. CASE x \in T
    <3>1. \E m \in T : \A c \in T : nHeight[c] <= nHeight[m]
      BY <2>2, <2>5
    <3>2. CASE T = {x}
      BY <2>2, <3>1, <3>2
    <3>3. CASE T # {x}
      <4>1. T \ {x} \in SUBSET Path[pprev[x]] /\ T \ {x} # {}
        BY <2>1, <2>5, <3>3
      <4>2. PICK m \in T \ {x} : \A c \in T \ {x} : nHeight[m] <= nHeight[c]
        <5>1. P(pprev[x])
          BY <1>2, Zenon
        <5> QED  BY <4>1, <5>1, Zenon
      <4>3. nHeight[m] <= nHeight[x]
        BY <2>2, <4>2
      <4> QED  BY <3>1, <4>2, <4>3
    <3> QED  BY <3>2, <3>3
  <2> QED  BY <2>4, <2>5
<1>3. G = Blocks
  <2> HIDE DEF G
  <2>1. G \in SUBSET Blocks
    BY DEF G
  <2> QED  BY <1>1, <1>2, <2>1, TreeInduction
<1> QED  BY <1>3

(* A chain has a block of every height up to its own.                      *)
LEMMA EveryHeight ==
    ASSUME NEW b \in Blocks, NEW h \in 0 .. nHeight[b]
    PROVE  \E a \in Path[b] : nHeight[a] = h
<1> DEFINE G == {x \in Blocks : \A i \in 0 .. nHeight[x] :
                     \E a \in Path[x] : nHeight[a] = i}
<1>1. Genesis \in G
  BY Tree
<1>2. ASSUME NEW x \in Blocks, x # Genesis, pprev[x] \in G PROVE x \in G
  <2>1. /\ Path[x] = Path[pprev[x]] \cup {x} /\ nHeight[x] = nHeight[pprev[x]] + 1
        /\ nHeight[pprev[x]] \in Nat
    BY <1>2, Tree
  <2> QED  BY <1>2, <2>1
<1>3. G = Blocks
  <2> HIDE DEF G
  <2>1. G \in SUBSET Blocks
    BY DEF G
  <2> QED  BY <1>1, <1>2, <2>1, TreeInduction
<1> QED  BY <1>3

-----------------------------------------------------------------------------
(* Counting requests.                                                      *)

QueuedBlocks == [hash : Blocks, fValidatedHeaders : BOOLEAN]

LEMMA FiniteRequests ==
    ASSUME NEW S \in SUBSET QueuedBlocks
    PROVE  /\ IsFiniteSet(S) /\ Cardinality(S) \in Nat /\ ValidHeaders(S) \in Nat
           /\ Cardinality(S) = 0 <=> S = {}
<1> DEFINE f == [x \in Blocks \X (0 .. 1) |->
                     [hash |-> x[1], fValidatedHeaders |-> x[2] = 1]]
<1>1. IsFiniteSet(0 .. 1)
  <2>1. 0 \in Int /\ 1 \in Int
    OBVIOUS
  <2> QED  BY <2>1, FS_Interval, Zenon
<1>2. IsFiniteSet(Blocks \X (0 .. 1))
  BY <1>1, FS_Product, DownloadAssumption
<1>3. f \in Surjection(Blocks \X (0 .. 1), QueuedBlocks)
  <2>1. f \in [Blocks \X (0 .. 1) -> QueuedBlocks]
    BY DEF QueuedBlocks
  <2>2. ASSUME NEW e \in QueuedBlocks PROVE \E x \in Blocks \X (0 .. 1) : f[x] = e
    <3>1. <<e.hash, Count(e.fValidatedHeaders)>> \in Blocks \X (0 .. 1)
      BY DEF QueuedBlocks, Count
    <3>2. f[<<e.hash, Count(e.fValidatedHeaders)>>] = e
      BY <3>1 DEF QueuedBlocks, Count
    <3> QED  BY <3>1, <3>2, Zenon
  <2> QED  BY <2>1, <2>2, Zenon DEF Surjection
<1>4. IsFiniteSet(QueuedBlocks)
  <2> HIDE DEF f
  <2> QED  BY <1>2, <1>3, FS_Surjection
<1>5. IsFiniteSet(S)
  BY <1>4, FS_Subset
<1>6. IsFiniteSet({e \in S : e.fValidatedHeaders})
  BY <1>5, FS_Subset
<1>7. Cardinality(S) \in Nat /\ ValidHeaders(S) \in Nat
  BY <1>5, <1>6, FS_CardinalityType DEF ValidHeaders
<1> QED  BY <1>5, <1>7, FS_EmptySet

LEMMA CountRemoved ==
    ASSUME NEW S \in SUBSET QueuedBlocks, NEW T \in SUBSET S
    PROVE  /\ Cardinality(S \ T) = Cardinality(S) - Cardinality(T)
           /\ ValidHeaders(S \ T) = ValidHeaders(S) - ValidHeaders(T)
           /\ ValidHeaders(T) <= ValidHeaders(S)
<1> DEFINE V(X) == {e \in X : e.fValidatedHeaders}
<1>1. IsFiniteSet(S) /\ IsFiniteSet(V(S))
  <2>1. IsFiniteSet(S)
    BY FiniteRequests
  <2> QED  BY <2>1, FS_Subset
<1>2. Cardinality(S \ T) = Cardinality(S) - Cardinality(T)
  <2>1. S \cap T = T
    OBVIOUS
  <2> QED  BY <1>1, <2>1, FS_Difference, Zenon
<1>3. Cardinality(V(S \ T)) = Cardinality(V(S)) - Cardinality(V(T))
  <2>1. V(S \ T) = V(S) \ V(T) /\ V(S) \cap V(T) = V(T)
    OBVIOUS
  <2> HIDE DEF V
  <2> QED  BY <1>1, <2>1, FS_Difference
<1>4. Cardinality(V(T)) <= Cardinality(V(S))
  BY <1>1, FS_Subset
<1> QED  BY <1>2, <1>3, <1>4 DEF ValidHeaders

LEMMA CountAdded ==
    ASSUME NEW S \in SUBSET QueuedBlocks, NEW T \in SUBSET QueuedBlocks, S \cap T = {}
    PROVE  /\ Cardinality(S \cup T) = Cardinality(S) + Cardinality(T)
           /\ ValidHeaders(S \cup T) = ValidHeaders(S) + ValidHeaders(T)
<1>1. S \cup T \in SUBSET QueuedBlocks /\ T \in SUBSET (S \cup T) /\ (S \cup T) \ T = S
  OBVIOUS
<1>2. /\ Cardinality(S) = Cardinality(S \cup T) - Cardinality(T)
      /\ ValidHeaders(S) = ValidHeaders(S \cup T) - ValidHeaders(T)
  BY <1>1, CountRemoved
<1>3. /\ Cardinality(S) \in Nat /\ Cardinality(T) \in Nat /\ Cardinality(S \cup T) \in Nat
      /\ ValidHeaders(S) \in Nat /\ ValidHeaders(T) \in Nat /\ ValidHeaders(S \cup T) \in Nat
  BY <1>1, FiniteRequests
<1> QED  BY <1>2, <1>3

(* Counting nodes.                                                         *)
LEMMA CountChanged ==
    ASSUME NEW S \in SUBSET NodeIds, NEW T \in SUBSET NodeIds, NEW p \in NodeIds,
           S \ {p} = T \ {p}
    PROVE  /\ Cardinality(S) \in Nat
           /\ Cardinality(T) = Cardinality(S) - Count(p \in S) + Count(p \in T)
<1>1. IsFiniteSet(S) /\ IsFiniteSet(T)
  BY FS_Subset, DownloadAssumption
<1>2. Cardinality(S) \in Nat /\ Cardinality(T) \in Nat
  BY <1>1, FS_CardinalityType
<1> DEFINE n == Cardinality(S \ {p})
<1>3. /\ n = IF p \in S THEN Cardinality(S) - 1 ELSE Cardinality(S)
      /\ n = IF p \in T THEN Cardinality(T) - 1 ELSE Cardinality(T)
  <2>1. n = IF p \in S THEN Cardinality(S) - 1 ELSE Cardinality(S)
    BY <1>1, FS_RemoveElement
  <2>2. Cardinality(T \ {p}) = IF p \in T THEN Cardinality(T) - 1 ELSE Cardinality(T)
    BY <1>1, FS_RemoveElement
  <2>3. n = Cardinality(T \ {p})
    BY Zenon
  <2> QED  BY <2>1, <2>2, <2>3, Zenon
<1> HIDE DEF n
<1> QED  BY <1>2, <1>3 DEF Count

(* The invariant types the state.                                          *)
LEMMA Typed == DInv => TypeOK
<1> SUFFICES ASSUME DInv PROVE TypeOK
  OBVIOUS
<1>1. /\ Connected \subseteq NodeIds /\ mapNodeState \in [Connected -> CNodeStates]
      /\ mapBlocksInFlight \in [Blocks -> NodeIds \cup {None}]
      /\ nQueuedValidatedHeaders \in Int
  BY DEF DInv, Books, Queue, Connected
<1>2. nSyncStarted \in Nat /\ nPreferredDownload \in Nat
  <2> DEFINE F == {p \in Connected : mapNodeState[p].fSyncStarted}
             G == {p \in Connected : mapNodeState[p].fPreferredDownload}
  <2>1. IsFiniteSet(F) /\ IsFiniteSet(G)
    BY <1>1, FS_Subset, DownloadAssumption
  <2> QED  BY <2>1, FS_CardinalityType DEF DInv, SyncExact
<1>3. ASSUME NEW p \in Connected
      PROVE  {mapNodeState[p].pindexBestKnownBlock, mapNodeState[p].pindexLastCommonBlock}
                 \subseteq mapBlockIndex \cup {None}
  <2>1. Shares(p, mapNodeState[p]) /\ haveData \subseteq mapBlockIndex
    BY DEF DInv, ChainSound
  <2>2. mapNodeState[p].pindexLastCommonBlock \in Blocks \cup {None}
    BY <1>1 DEF CNodeStates
  <2> QED  BY <2>1, <2>2, Tree DEF Shares, Linked
<1>4. unseen \subseteq NodeIds /\ Connected \subseteq NodeIds \ unseen
  BY <1>1 DEF DInv
<1> QED  BY <1>1, <1>2, <1>3, <1>4 DEF DInv, ChainSound, TypeOK

-----------------------------------------------------------------------------
(* MarkBlockAsReceived and MarkBlockAsInFlight keep the books, and touch   *)
(* nothing else of a node.                                                 *)

Elsewhere(s, t) ==
    /\ t.pindexBestKnownBlock = s.pindexBestKnownBlock
    /\ t.hashLastUnknownBlock = s.hashLastUnknownBlock
    /\ t.pindexLastCommonBlock = s.pindexLastCommonBlock
    /\ t.fSyncStarted = s.fSyncStarted /\ t.fPreferredDownload = s.fPreferredDownload

LEMMA NewNode == CNodeState \in CNodeStates
BY DEF CNodeState, CNodeStates

LEMMA ListedBy ==
    ASSUME NEW q, NEW e
    PROVE  e \in Listed(q) <=> \E p \in DOMAIN q.state : e \in q.state[p].vBlocksInFlight
BY DEF Listed

LEMMA Lists ==
    ASSUME NEW q, Books(q)
    PROVE  /\ \A p \in DOMAIN q.state : q.state[p].vBlocksInFlight \in SUBSET QueuedBlocks
           /\ Listed(q) \in SUBSET QueuedBlocks
           /\ \A p \in DOMAIN q.state : \A e \in q.state[p].vBlocksInFlight :
                  e.hash \in Blocks /\ q.flight[e.hash] = p
<1>1. \A p \in DOMAIN q.state : q.state[p].vBlocksInFlight \in SUBSET QueuedBlocks
  <2>1. \A p \in DOMAIN q.state : q.state[p] \in CNodeStates
    BY DEF Books
  <2> QED  BY <2>1 DEF CNodeStates, QueuedBlocks
<1>2. Listed(q) \in SUBSET QueuedBlocks
  BY <1>1 DEF Listed
<1>3. ASSUME NEW p \in DOMAIN q.state, NEW e \in q.state[p].vBlocksInFlight
      PROVE  e.hash \in Blocks /\ q.flight[e.hash] = p
  <2>1. e.hash \in Blocks
    BY <1>1 DEF QueuedBlocks
  <2> QED  BY <2>1 DEF Books
<1> QED  BY <1>1, <1>2, <1>3

Recount(s, v, n, m, stalls) ==
    [s EXCEPT !.vBlocksInFlight = v, !.nBlocksInFlight = n,
              !.nBlocksInFlightValidHeaders = m, !.nStallingSince = stalls]

LEMMA EmptyBooks ==
    ASSUME NEW q, q.state = <<>>, q.queued = 0, q.flight = [b \in Blocks |-> None]
    PROVE  Books(q)
<1>1. /\ DOMAIN q.state = {} /\ q.state \in [DOMAIN q.state -> CNodeStates]
      /\ q.flight \in [Blocks -> NodeIds \cup {None}]
  OBVIOUS
<1>2. ValidHeaders(Listed(q)) = 0
  <2>1. {e \in Listed(q) : e.fValidatedHeaders} = {}
    BY <1>1 DEF Listed
  <2> QED  BY <2>1, FS_EmptySet DEF ValidHeaders
<1>3. \A b \in Blocks, p \in NodeIds : q.flight[b] # p
  BY DownloadAssumption
<1>4. q.queued \in Int /\ q.queued >= ValidHeaders(Listed(q))
  BY <1>2
<1> QED  BY <1>1, <1>3, <1>4, Zenon DEF Books

LEMMA Recounted ==
    ASSUME NEW s \in CNodeStates, NEW v \in SUBSET QueuedBlocks, NEW n \in Int, NEW m \in Int,
           NEW stalls \in BOOLEAN, NEW t, t = Recount(s, v, n, m, stalls)
    PROVE  /\ t \in CNodeStates /\ Elsewhere(s, t)
           /\ t.vBlocksInFlight = v /\ t.nBlocksInFlight = n
           /\ t.nBlocksInFlightValidHeaders = m /\ t.nStallingSince = stalls
BY Zenon DEF CNodeStates, Elsewhere, QueuedBlocks, Recount

LEMMA Settled ==
    ASSUME NEW s \in CNodeStates, NodeBooks(s), NEW owed \in SUBSET s.vBlocksInFlight
    PROVE  /\ Settle(s, owed) \in CNodeStates /\ NodeBooks(Settle(s, owed))
           /\ Settle(s, owed).vBlocksInFlight = s.vBlocksInFlight \ owed
           /\ Elsewhere(s, Settle(s, owed))
<1>1. CASE owed = {}
  BY <1>1 DEF Settle, Elsewhere
<1>2. CASE owed # {}
  <2> DEFINE v == s.vBlocksInFlight \ owed
             n == s.nBlocksInFlight - Cardinality(owed)
             m == s.nBlocksInFlightValidHeaders - ValidHeaders(owed)
             stalls == FALSE
  <2>1. s.vBlocksInFlight \in SUBSET QueuedBlocks
    BY DEF CNodeStates, QueuedBlocks
  <2>2. v \in SUBSET QueuedBlocks /\ owed \in SUBSET QueuedBlocks
    BY <2>1
  <2>3. /\ Cardinality(owed) \in Nat /\ ValidHeaders(owed) \in Nat
        /\ Cardinality(v) \in Nat /\ ValidHeaders(v) \in Nat
    BY <2>2, FiniteRequests
  <2>4. n = Cardinality(v) /\ m = ValidHeaders(v)
    BY <2>1, CountRemoved DEF NodeBooks
  <2>5. Settle(s, owed) = Recount(s, v, n, m, stalls)
    BY <1>2, Zenon DEF Settle, Recount
  <2>6. n \in Int /\ m \in Int /\ stalls \in BOOLEAN /\ ~stalls
    BY <2>3, <2>4
  <2>7. \A e, f \in v : e.hash = f.hash => e = f
    BY DEF NodeBooks
  <2>8. v = s.vBlocksInFlight \ owed
    OBVIOUS
  <2> HIDE DEF v, n, m, stalls
  <2>9. /\ Settle(s, owed) \in CNodeStates /\ Elsewhere(s, Settle(s, owed))
        /\ Settle(s, owed).vBlocksInFlight = v /\ Settle(s, owed).nBlocksInFlight = n
        /\ Settle(s, owed).nBlocksInFlightValidHeaders = m
        /\ Settle(s, owed).nStallingSince = stalls
    BY <2>2, <2>5, <2>6, Recounted
  <2>10. NodeBooks(Settle(s, owed))
    BY <2>4, <2>6, <2>7, <2>9, Zenon DEF NodeBooks
  <2> QED  BY <2>8, <2>9, <2>10
<1> QED  BY <1>1, <1>2

LEMMA Burdened ==
    ASSUME NEW s \in CNodeStates, NodeBooks(s), NEW new \in SUBSET QueuedBlocks,
           \A e, f \in s.vBlocksInFlight \cup new : e.hash = f.hash => e = f,
           s.vBlocksInFlight \cap new = {}
    PROVE  /\ Burden(s, new) \in CNodeStates /\ NodeBooks(Burden(s, new))
           /\ Burden(s, new).vBlocksInFlight = s.vBlocksInFlight \cup new
           /\ Elsewhere(s, Burden(s, new))
<1> DEFINE v == s.vBlocksInFlight \cup new
           n == s.nBlocksInFlight + Cardinality(new)
           m == s.nBlocksInFlightValidHeaders + ValidHeaders(new)
<1>1. s.vBlocksInFlight \in SUBSET QueuedBlocks /\ s.nStallingSince \in BOOLEAN
  BY DEF CNodeStates, QueuedBlocks
<1>2. v \in SUBSET QueuedBlocks
  BY <1>1
<1>3. Cardinality(v) \in Nat /\ ValidHeaders(v) \in Nat
  BY <1>2, FiniteRequests
<1>4. n = Cardinality(v) /\ m = ValidHeaders(v)
  BY <1>1, CountAdded DEF NodeBooks
<1>5. Burden(s, new) = Recount(s, v, n, m, s.nStallingSince)
  BY Zenon DEF Burden, Recount, CNodeStates
<1>6. n \in Int /\ m \in Int
  BY <1>3, <1>4
<1>7. /\ v = s.vBlocksInFlight \cup new
      /\ s.nStallingSince => v # {}
      /\ \A e, f \in v : e.hash = f.hash => e = f
  BY DEF NodeBooks
<1> HIDE DEF v, n, m
<1>8. /\ Burden(s, new) \in CNodeStates /\ Elsewhere(s, Burden(s, new))
      /\ Burden(s, new).vBlocksInFlight = v /\ Burden(s, new).nBlocksInFlight = n
      /\ Burden(s, new).nBlocksInFlightValidHeaders = m
      /\ Burden(s, new).nStallingSince = s.nStallingSince
  BY <1>1, <1>2, <1>5, <1>6, Recounted
<1>9. NodeBooks(Burden(s, new))
  BY <1>4, <1>7, <1>8, Zenon DEF NodeBooks
<1> QED  BY <1>7, <1>8, <1>9

LEMMA Received ==
    ASSUME NEW q, Books(q), NEW B \in SUBSET Blocks,
           NEW r, r = MarkBlockAsReceived(q, B)
    PROVE  /\ Books(r) /\ DOMAIN r.state = DOMAIN q.state
           /\ \A p \in DOMAIN q.state : Elsewhere(q.state[p], r.state[p])
           /\ \A b \in Blocks : r.flight[b] = IF b \in B THEN None ELSE q.flight[b]
<1> DEFINE O(p) == Owed(q, p, B)
           gone == UNION {O(p) : p \in DOMAIN q.state}
<1>1. ASSUME NEW p \in DOMAIN q.state
      PROVE  /\ O(p) = {e \in q.state[p].vBlocksInFlight : e.hash \in B}
             /\ O(p) \in SUBSET q.state[p].vBlocksInFlight
  BY Lists DEF Owed
<1>2. /\ r.state = [p \in DOMAIN q.state |-> Settle(q.state[p], O(p))]
      /\ r.flight = [b \in Blocks |-> IF b \in B THEN None ELSE q.flight[b]]
      /\ r.queued = q.queued - ValidHeaders(gone)
  BY Zenon DEF MarkBlockAsReceived
<1>3. ASSUME NEW p \in DOMAIN q.state
      PROVE  /\ r.state[p] \in CNodeStates /\ NodeBooks(r.state[p])
             /\ r.state[p].vBlocksInFlight = q.state[p].vBlocksInFlight \ O(p)
             /\ Elsewhere(q.state[p], r.state[p])
  <2>1. q.state[p] \in CNodeStates /\ NodeBooks(q.state[p])
    BY DEF Books
  <2>2. r.state[p] = Settle(q.state[p], O(p))
    BY <1>2
  <2> HIDE DEF O
  <2> QED  BY <1>1, <2>1, <2>2, Settled
<1>4. DOMAIN r.state = DOMAIN q.state
  BY <1>2
<1>5. ASSUME NEW b \in Blocks, NEW p \in NodeIds
      PROVE  r.flight[b] = p <=>
                 p \in DOMAIN r.state /\ \E e \in r.state[p].vBlocksInFlight : e.hash = b
  <2>1. q.flight[b] = p <=>
            p \in DOMAIN q.state /\ \E e \in q.state[p].vBlocksInFlight : e.hash = b
    BY DEF Books
  <2>2. p # None
    BY DownloadAssumption
  <2>3. r.flight[b] = IF b \in B THEN None ELSE q.flight[b]
    BY <1>2, Zenon
  <2>4. p \in DOMAIN q.state => r.state[p].vBlocksInFlight =
            {e \in q.state[p].vBlocksInFlight : e.hash \notin B}
    BY <1>1, <1>3
  <2> QED  BY <1>4, <2>1, <2>2, <2>3, <2>4, Zenon
<1>6. r.queued \in Int /\ r.queued >= ValidHeaders(Listed(r))
  <2>1. gone \in SUBSET Listed(q) /\ Listed(q) \in SUBSET QueuedBlocks
    BY <1>1, Lists DEF Listed
  <2>2. Listed(r) = Listed(q) \ gone
    <3>1. ASSUME NEW p \in DOMAIN q.state, NEW e \in q.state[p].vBlocksInFlight
          PROVE  e \in gone <=> e \in O(p)
      BY <1>1, Lists
    <3>2. \A p \in DOMAIN q.state :
              r.state[p].vBlocksInFlight = q.state[p].vBlocksInFlight \ O(p)
      BY <1>3
    <3> HIDE DEF O
    <3> QED  BY <1>4, <3>1, <3>2 DEF Listed
  <2>3. \A T \in SUBSET Listed(q) :
            ValidHeaders(Listed(q) \ T) = ValidHeaders(Listed(q)) - ValidHeaders(T)
    BY <2>1, CountRemoved
  <2>4. ValidHeaders(Listed(q)) \in Nat /\ ValidHeaders(gone) \in Nat
    BY <2>1, FiniteRequests
  <2>5. r.queued = q.queued - ValidHeaders(gone)
    BY <1>2
  <2> HIDE DEF gone
  <2>6. ValidHeaders(Listed(r)) = ValidHeaders(Listed(q)) - ValidHeaders(gone)
    BY <2>1, <2>2, <2>3
  <2>7. q.queued \in Int /\ q.queued >= ValidHeaders(Listed(q))
    BY DEF Books
  <2> QED  BY <2>4, <2>5, <2>6, <2>7
<1>7. Books(r)
  <2>1. DOMAIN r.state \subseteq NodeIds
    BY <1>4 DEF Books
  <2>2. r.state \in [DOMAIN r.state -> CNodeStates]
    <3>1. r.state = [p \in DOMAIN q.state |-> r.state[p]]
      BY <1>2, Zenon
    <3> QED  BY <1>3, <1>4, <3>1
  <2>3. r.flight \in [Blocks -> NodeIds \cup {None}]
    BY <1>2 DEF Books
  <2>4. \A p \in DOMAIN r.state : NodeBooks(r.state[p])
    BY <1>3, <1>4
  <2> QED  BY <1>5, <1>6, <2>1, <2>2, <2>3, <2>4, Zenon DEF Books
<1>8. \A b \in Blocks : r.flight[b] = IF b \in B THEN None ELSE q.flight[b]
  BY <1>2, Zenon
<1> QED  BY <1>3, <1>4, <1>7, <1>8, Zenon

(* r is q after the blocks of B were asked of p.                           *)
Asked(q, p, B, r) ==
    /\ Books(r) /\ DOMAIN r.state = DOMAIN q.state
    /\ \A n \in DOMAIN q.state : Elsewhere(q.state[n], r.state[n])
    /\ \A b \in Blocks : r.flight[b] = IF b \in B THEN p ELSE q.flight[b]

LEMMA Requested ==
    ASSUME NEW q, Books(q), NEW p \in DOMAIN q.state, NEW B \in SUBSET Blocks,
           NEW validated \in BOOLEAN
    PROVE  Asked(q, p, B, MarkBlockAsInFlight(q, p, B, validated))
<1> DEFINE m == MarkBlockAsReceived(q, B)
           new == {[hash |-> b, fValidatedHeaders |-> validated] : b \in B}
           r == MarkBlockAsInFlight(q, p, B, validated)
<1>1. /\ r.state = [m.state EXCEPT ![p] = Burden(@, new)]
      /\ r.flight = [b \in Blocks |-> IF b \in B THEN p ELSE m.flight[b]]
      /\ r.queued = m.queued + ValidHeaders(new)
  BY DEF MarkBlockAsInFlight
<1>2. /\ Books(m) /\ DOMAIN m.state = DOMAIN q.state
      /\ \A n \in DOMAIN q.state : Elsewhere(q.state[n], m.state[n])
      /\ \A b \in Blocks : m.flight[b] = IF b \in B THEN None ELSE q.flight[b]
  BY Received
<1>3. /\ new \in SUBSET QueuedBlocks
      /\ \A e, f \in new : e.hash \in B /\ (e.hash = f.hash => e = f)
      /\ \A b \in B : \E e \in new : e.hash = b
  <2>1. new \in SUBSET QueuedBlocks
    BY DEF QueuedBlocks
  <2>2. \A e \in new : e.hash \in B /\ e = [hash |-> e.hash, fValidatedHeaders |-> validated]
    OBVIOUS
  <2>3. \A b \in B : \E e \in new : e.hash = b
    <3> TAKE b \in B
    <3>1. [hash |-> b, fValidatedHeaders |-> validated] \in new
      OBVIOUS
    <3> WITNESS [hash |-> b, fValidatedHeaders |-> validated] \in new
    <3> QED  OBVIOUS
  <2> HIDE DEF new
  <2> QED  BY <2>1, <2>2, <2>3
<1> HIDE DEF m, new, r
<1>4. ASSUME NEW n \in DOMAIN q.state, NEW e \in m.state[n].vBlocksInFlight
      PROVE  e.hash \in Blocks \ B
  <2>1. e.hash \in Blocks /\ m.flight[e.hash] = n
    BY <1>2, Lists, Zenon
  <2>2. n # None
    BY DownloadAssumption DEF Books
  <2> QED  BY <1>2, <2>1, <2>2, Zenon
<1>5. /\ DOMAIN r.state = DOMAIN q.state
      /\ r.state[p] = Burden(m.state[p], new)
      /\ \A n \in DOMAIN q.state \ {p} : r.state[n] = m.state[n]
  <2>1. m.state \in [DOMAIN q.state -> CNodeStates]
    BY <1>2, Zenon DEF Books
  <2> QED  BY <1>1, <2>1
<1>6. /\ r.state[p] \in CNodeStates /\ NodeBooks(r.state[p])
      /\ r.state[p].vBlocksInFlight = m.state[p].vBlocksInFlight \cup new
      /\ Elsewhere(m.state[p], r.state[p])
  <2>1. m.state[p] \in CNodeStates /\ NodeBooks(m.state[p])
    BY <1>2 DEF Books
  <2>2. \A e, f \in m.state[p].vBlocksInFlight : e.hash = f.hash => e = f
    BY <2>1 DEF NodeBooks
  <2>3. /\ m.state[p].vBlocksInFlight \cap new = {}
        /\ \A e, f \in m.state[p].vBlocksInFlight \cup new : e.hash = f.hash => e = f
    BY <1>3, <1>4, <2>2, Zenon
  <2>4. r.state[p] = Burden(m.state[p], new) /\ new \in SUBSET QueuedBlocks
    BY <1>3, <1>5, Zenon
  <2> QED  BY <2>1, <2>3, <2>4, Burdened
<1>7. /\ \A n \in DOMAIN q.state : r.state[n] \in CNodeStates /\ NodeBooks(r.state[n])
      /\ \A n \in DOMAIN q.state : Elsewhere(q.state[n], r.state[n])
  <2>1. \A n \in DOMAIN q.state : m.state[n] \in CNodeStates /\ NodeBooks(m.state[n])
    BY <1>2 DEF Books
  <2>2. ASSUME NEW n \in DOMAIN q.state
        PROVE  /\ r.state[n] \in CNodeStates /\ NodeBooks(r.state[n])
               /\ Elsewhere(q.state[n], r.state[n])
    <3>1. CASE n = p
      BY <1>2, <1>6, <3>1, Zenon DEF Elsewhere
    <3>2. CASE n # p
      BY <1>2, <1>5, <2>1, <3>2, Zenon
    <3> QED  BY <3>1, <3>2, Zenon
  <2> QED  BY <2>2, Zenon
<1>8. \A b \in Blocks : r.flight[b] = IF b \in B THEN p ELSE q.flight[b]
  BY <1>1, <1>2, Zenon
<1>9. ASSUME NEW b \in Blocks, NEW n \in NodeIds
      PROVE  r.flight[b] = n <=>
                 n \in DOMAIN r.state /\ \E e \in r.state[n].vBlocksInFlight : e.hash = b
  <2>1. m.flight[b] = n <=>
            n \in DOMAIN m.state /\ \E e \in m.state[n].vBlocksInFlight : e.hash = b
    BY <1>2, Zenon DEF Books
  <2>2. CASE n = p
    <3>1. r.flight[b] = p <=> b \in B \/ m.flight[b] = p
      BY <1>1, <1>2, Zenon
    <3>2. (\E e \in new : e.hash = b) <=> b \in B
      BY <1>3, Zenon
    <3>3. p \in DOMAIN r.state
      BY <1>5, Zenon
    <3> QED  BY <1>2, <1>6, <2>1, <2>2, <3>1, <3>2, <3>3, Zenon
  <2>3. CASE n # p
    BY <1>1, <1>2, <1>4, <1>5, <2>1, <2>3, Zenon
  <2> QED  BY <2>2, <2>3
<1>10. r.queued \in Int /\ r.queued >= ValidHeaders(Listed(r))
  <2>1. Listed(m) \in SUBSET QueuedBlocks /\ m.queued \in Int
        /\ m.queued >= ValidHeaders(Listed(m))
    BY <1>2, Lists, Zenon DEF Books
  <2>2. Listed(r) = Listed(m) \cup new /\ Listed(m) \cap new = {}
    BY <1>2, <1>3, <1>4, <1>5, <1>6 DEF Listed
  <2>3. ValidHeaders(Listed(r)) = ValidHeaders(Listed(m)) + ValidHeaders(new)
    BY <1>3, <2>1, <2>2, CountAdded
  <2>4. ValidHeaders(Listed(m)) \in Nat /\ ValidHeaders(new) \in Nat
    BY <1>3, <2>1, FiniteRequests
  <2> QED  BY <1>1, <2>1, <2>3, <2>4
<1>11. Books(r)
  <2>1. DOMAIN r.state \subseteq NodeIds /\ p \in NodeIds
    BY <1>5, Zenon DEF Books
  <2>2. r.state \in [DOMAIN r.state -> CNodeStates]
    <3>1. r.state = [n \in DOMAIN r.state |-> r.state[n]]
      BY <1>1, Zenon
    <3> QED  BY <1>5, <1>7, <3>1
  <2>3. r.flight \in [Blocks -> NodeIds \cup {None}]
    BY <1>1, <1>2, <2>1 DEF Books
  <2>4. \A n \in DOMAIN r.state : NodeBooks(r.state[n])
    BY <1>5, <1>7, Zenon
  <2> QED  BY <1>9, <1>10, <2>1, <2>2, <2>3, <2>4, Zenon DEF Books
<1>12. Asked(q, p, B, r)
  BY <1>5, <1>7, <1>8, <1>11 DEF Asked
<1> QED  BY <1>12, Zenon DEF r

-----------------------------------------------------------------------------
(* The other fields of a node.                                             *)

SameRequests(s, t) ==
    /\ t.vBlocksInFlight = s.vBlocksInFlight /\ t.nBlocksInFlight = s.nBlocksInFlight
    /\ t.nBlocksInFlightValidHeaders = s.nBlocksInFlightValidHeaders
    /\ t.nStallingSince = s.nStallingSince

SameFlags(s, t) ==
    t.fSyncStarted = s.fSyncStarted /\ t.fPreferredDownload = s.fPreferredDownload

SameBlocks(s, t) ==
    /\ t.pindexBestKnownBlock = s.pindexBestKnownBlock
    /\ t.hashLastUnknownBlock = s.hashLastUnknownBlock
    /\ t.pindexLastCommonBlock = s.pindexLastCommonBlock

(* What each of the changes to a node leaves alone.                        *)
LEMMA AvailabilityProcessed ==
    ASSUME TypeOK, NEW p \in NodeIds, NEW s \in CNodeStates, Shares(p, s),
           NEW t, t = ProcessBlockAvailability(s)
    PROVE  /\ t \in CNodeStates /\ SameRequests(s, t) /\ SameFlags(s, t) /\ Shares(p, t)
           /\ t.pindexLastCommonBlock = s.pindexLastCommonBlock
<1>1. None \notin mapBlockIndex /\ mapBlockIndex \subseteq Blocks
  BY DownloadAssumption DEF TypeOK
<1>2. CASE s.hashLastUnknownBlock \notin mapBlockIndex
  BY <1>2 DEF ProcessBlockAvailability, SameRequests, SameFlags
<1>3. CASE s.hashLastUnknownBlock \in mapBlockIndex
  <2>1. PICK k \in {s.hashLastUnknownBlock, s.pindexBestKnownBlock} :
            t = [s EXCEPT !.hashLastUnknownBlock = None, !.pindexBestKnownBlock = k]
    BY <1>3, Zenon DEF ProcessBlockAvailability
  <2>2. k \in Blocks \cup {None}
    BY <1>1, <1>3, <2>1 DEF CNodeStates
  <2>3. /\ t \in CNodeStates /\ SameRequests(s, t) /\ SameFlags(s, t)
        /\ t.hashLastUnknownBlock = None /\ t.pindexBestKnownBlock = k
        /\ t.pindexLastCommonBlock = s.pindexLastCommonBlock
    BY <2>1, <2>2, Zenon DEF CNodeStates, SameRequests, SameFlags
  <2> QED  BY <1>1, <1>3, <2>1, <2>3 DEF Shares
<1> QED  BY <1>2, <1>3, Zenon

LEMMA CommonSet ==
    ASSUME NEW s \in CNodeStates, NEW c \in Blocks, NEW t,
           t = [s EXCEPT !.pindexLastCommonBlock = c]
    PROVE  /\ t \in CNodeStates /\ SameRequests(s, t) /\ SameFlags(s, t)
           /\ t.hashLastUnknownBlock = s.hashLastUnknownBlock
           /\ t.pindexBestKnownBlock = s.pindexBestKnownBlock
           /\ t.pindexLastCommonBlock = c
BY DEF CNodeStates, SameRequests, SameFlags

LEMMA MisbehaviorNoted ==
    ASSUME NEW s \in CNodeStates, NEW t, t = Misbehaving(s, 1)
    PROVE  t \in CNodeStates /\ SameRequests(s, t) /\ SameFlags(s, t) /\ SameBlocks(s, t)
<1> DEFINE n == s.nMisbehavior + 1
           ban == s.fShouldBan \/ (n >= BanScore /\ s.nMisbehavior < BanScore)
<1>1. t = [s EXCEPT !.nMisbehavior = n, !.fShouldBan = ban]
  BY Zenon DEF Misbehaving
<1>2. n \in Nat /\ ban \in BOOLEAN
  BY DEF CNodeStates
<1> HIDE DEF n, ban
<1> QED  BY <1>1, <1>2, Zenon DEF CNodeStates, SameRequests, SameFlags, SameBlocks

LEMMA SendingBegins ==
    ASSUME NEW p, NEW s \in CNodeStates, NEW late \in BOOLEAN,
           NEW t, t = BeforeRequests(p, s, late)
    PROVE  /\ t \in CNodeStates /\ SameRequests(s, t) /\ SameBlocks(s, t)
           /\ t.fPreferredDownload = s.fPreferredDownload
           /\ t.fSyncStarted = (s.fSyncStarted \/ StartsSync(s))
<1> DEFINE gone == s.fDisconnect \/ s.fShouldBan \/ late
           sync == s.fSyncStarted \/ StartsSync(s)
           ask == s.asked \/ (StartsSync(s) /\ p \in Reliable)
           ban == FALSE
<1>1. t = [s EXCEPT !.fDisconnect = gone, !.fShouldBan = ban,
                    !.fSyncStarted = sync, !.asked = ask]
  BY Zenon DEF BeforeRequests
<1>2. gone \in BOOLEAN /\ sync \in BOOLEAN /\ ask \in BOOLEAN /\ ban \in BOOLEAN
  OBVIOUS
<1>3. sync = (s.fSyncStarted \/ StartsSync(s))
  OBVIOUS
<1> HIDE DEF gone, sync, ask, ban
<1>4. /\ t \in CNodeStates /\ SameRequests(s, t) /\ SameBlocks(s, t)
      /\ t.fPreferredDownload = s.fPreferredDownload /\ t.fSyncStarted = sync
  BY <1>1, <1>2, Zenon DEF CNodeStates, SameRequests, SameBlocks
<1> QED  BY <1>3, <1>4

LEMMA StallStarts ==
    ASSUME NEW s \in CNodeStates, NodeBooks(s), s.vBlocksInFlight # {},
           NEW t, t = [s EXCEPT !.nStallingSince = TRUE]
    PROVE  /\ t \in CNodeStates /\ NodeBooks(t) /\ Elsewhere(s, t)
           /\ t.vBlocksInFlight = s.vBlocksInFlight
<1>1. /\ t \in CNodeStates /\ Elsewhere(s, t)
      /\ t.vBlocksInFlight = s.vBlocksInFlight /\ t.nBlocksInFlight = s.nBlocksInFlight
      /\ t.nBlocksInFlightValidHeaders = s.nBlocksInFlightValidHeaders
  BY Zenon DEF CNodeStates, Elsewhere
<1> QED  BY <1>1 DEF NodeBooks

-----------------------------------------------------------------------------
(* FindNextBlocksToDownload: what it asks for is missing, nobody was asked *)
(* for it, and who is said to stall was asked for something.               *)

LEMMA Chosen ==
    ASSUME NEW b \in Blocks, NEW S \in SUBSET Path[b], S # {}
    PROVE  Highest(S) \in S /\ Lowest(S) \in S
<1>1. /\ \E m \in S : \A c \in S : nHeight[c] <= nHeight[m]
      /\ \E m \in S : \A c \in S : nHeight[m] <= nHeight[c]
  BY Extremes
<1> QED  BY <1>1 DEF Highest, Lowest

LEMMA Fork ==
    ASSUME NEW a \in Blocks, NEW b \in Blocks
    PROVE  FindFork(a, b) \in Path[a] \cap Path[b]
<1> DEFINE S == Path[a] \cap Path[b]
<1>1. S \in SUBSET Path[a] /\ S # {}
  BY Tree
<1>2. \E m \in S : \A c \in S : nHeight[c] <= nHeight[m]
  <2> HIDE DEF S
  <2> QED  BY <1>1, Extremes
<1> QED  BY <1>2 DEF FindFork

LEMMA ActiveAt ==
    ASSUME tip \in Blocks, NEW h \in 0 .. nHeight[tip]
    PROVE  chainActive(h) \in Path[tip]
BY EveryHeight DEF chainActive

(* The walk starts at a block that both sides have.                        *)
LEMMA CommonStart ==
    ASSUME TypeOK, ChainSound, NEW p \in NodeIds, NEW s \in CNodeStates, Shares(p, s),
           s.pindexBestKnownBlock # None
    PROVE  LET c == LastCommonAncestor(s)
           IN  c \in Path[s.pindexBestKnownBlock] /\ Linked(haveData, c)
<1> DEFINE known == s.pindexBestKnownBlock
           low == IF nHeight[known] < nHeight[tip] THEN nHeight[known] ELSE nHeight[tip]
           guess == IF s.pindexLastCommonBlock # None THEN s.pindexLastCommonBlock
                    ELSE chainActive(low)
           c == FindFork(guess, known)
<1>1. known \in Blocks /\ tip \in Blocks
  BY DownloadAssumption, Zenon DEF TypeOK, CNodeStates
<1>2. low \in 0 .. nHeight[tip]
  BY <1>1, Tree
<1>3. guess \in Blocks /\ Path[guess] \subseteq haveData
  <2>1. CASE s.pindexLastCommonBlock # None
    BY <2>1 DEF Shares, Linked, CNodeStates
  <2>2. CASE s.pindexLastCommonBlock = None
    <3> HIDE DEF low
    <3>1. chainActive(low) \in Path[tip]
      BY <1>1, <1>2, ActiveAt, Zenon
    <3>2. chainActive(low) \in Blocks /\ Path[chainActive(low)] \subseteq Path[tip]
      BY <1>1, <3>1, Ancestors, Tree, Zenon
    <3> QED  BY <2>2, <3>2 DEF ChainSound, Linked
  <2> QED  BY <2>1, <2>2, Zenon
<1>4. LastCommonAncestor(s) = c
  BY DEF LastCommonAncestor
<1> HIDE DEF guess, known
<1>5. c \in Path[guess] /\ c \in Path[known]
  BY <1>1, <1>3, Fork
<1>6. Path[c] \subseteq Path[guess]
  BY <1>3, <1>5, Ancestors, Zenon
<1> QED  BY <1>3, <1>4, <1>5, <1>6, Zenon DEF Linked, known

(* What it may return.                                                     *)
Found(p, s, n) ==
    /\ n.state \in CNodeStates /\ SameRequests(s, n.state) /\ SameFlags(s, n.state)
    /\ Shares(p, n.state)
    /\ n.vBlocks \subseteq {b \in Blocks \ haveData : mapBlocksInFlight[b] = None}
    /\ n.staller # None =>
           n.vBlocks = {} /\ \E b \in Blocks : mapBlocksInFlight[b] = n.staller

LEMMA NextFound ==
    ASSUME TypeOK, ChainSound, NEW p \in NodeIds, NEW s \in CNodeStates, Shares(p, s),
           NEW count, NEW n, n = FindNextBlocksToDownload(p, s, count)
    PROVE  Found(p, s, n)
<1> DEFINE t == ProcessBlockAvailability(s)
           known == t.pindexBestKnownBlock
           common == LastCommonAncestor(t)
           visited == Visited(common, known)
           missing == Missing(visited)
           wanted == {b \in missing : nHeight[b] <= nHeight[common] + BLOCK_DOWNLOAD_WINDOW}
           chosen == Highest(Held(visited) \cup {common})
<1>1. /\ t \in CNodeStates /\ SameRequests(s, t) /\ SameFlags(s, t) /\ Shares(p, t)
      /\ t.pindexLastCommonBlock = s.pindexLastCommonBlock
  BY AvailabilityProcessed, Zenon
<1>2. CASE known = None \/ nChainWork[known] < nChainWork[tip]
  <2>1. n = [state |-> t, vBlocks |-> {}, staller |-> None]
    BY <1>2, Zenon DEF FindNextBlocksToDownload
  <2> QED  BY <1>1, <2>1 DEF Found
<1>3. CASE ~(known = None \/ nChainWork[known] < nChainWork[tip])
  <2>1. /\ n.state = [t EXCEPT !.pindexLastCommonBlock = chosen]
        /\ n.vBlocks = {b \in wanted : Cardinality({c \in wanted : nHeight[c] < nHeight[b]}) < count}
        /\ n.staller = IF wanted = {} /\ missing # {} /\ waitingfor(visited) # p
                       THEN waitingfor(visited) ELSE None
    BY <1>3, Zenon DEF FindNextBlocksToDownload
  <2>2. known \in Blocks /\ Path[known] \subseteq Has[p]
    BY <1>1, <1>3, DownloadAssumption, Zenon DEF CNodeStates, Shares
  <2>3. common \in Path[known] /\ Linked(haveData, common)
    BY <1>1, <1>3, CommonStart
  <2>4. visited \in SUBSET Path[known] /\ Path[known] \subseteq Blocks
    BY <2>2, Tree, Zenon DEF Visited
  <2>5. chosen \in Path[known] /\ Linked(haveData, chosen)
    <3>1. Held(visited) \cup {common} \in SUBSET Path[known]
      BY <2>3, <2>4, Zenon DEF Held
    <3>2. chosen \in Held(visited) \cup {common}
      BY <2>2, <3>1, Chosen
    <3>3. \A b \in Held(visited) : Linked(haveData, b)
      BY Zenon DEF Held
    <3> QED  BY <2>3, <3>1, <3>2, <3>3, Zenon
  <2>6. chosen \in Blocks /\ chosen \in Has[p]
    BY <2>2, <2>4, <2>5, Zenon
  <2>7. /\ missing \subseteq {b \in Blocks \ haveData : mapBlocksInFlight[b] = None}
        /\ wanted \subseteq missing
    BY <2>4, Zenon DEF Missing
  <2>8. waitingfor(visited) # None =>
            \E b \in Blocks : mapBlocksInFlight[b] = waitingfor(visited)
    <3> DEFINE asked == {b \in visited \ haveData : mapBlocksInFlight[b] # None}
    <3>1. asked \in SUBSET Path[known]
      BY <2>4
    <3>2. waitingfor(visited) = IF asked = {} THEN None ELSE mapBlocksInFlight[Lowest(asked)]
      BY Zenon DEF waitingfor
    <3> HIDE DEF asked, visited
    <3>3. asked # {} => Lowest(asked) \in asked
      BY <2>2, <3>1, Chosen
    <3> QED  BY <2>4, <3>1, <3>2, <3>3, Zenon
  <2> HIDE DEF t, known, common, visited, missing, wanted, chosen
  <2>9. /\ n.state \in CNodeStates /\ SameRequests(t, n.state) /\ SameFlags(t, n.state)
        /\ n.state.hashLastUnknownBlock = t.hashLastUnknownBlock
        /\ n.state.pindexBestKnownBlock = t.pindexBestKnownBlock
        /\ n.state.pindexLastCommonBlock = chosen
    BY <1>1, <2>1, <2>6, CommonSet
  <2>10. /\ n.state \in CNodeStates /\ SameRequests(s, n.state) /\ SameFlags(s, n.state)
         /\ Shares(p, n.state)
    <3>1. SameRequests(s, n.state) /\ SameFlags(s, n.state)
      BY <1>1, <2>9 DEF SameRequests, SameFlags
    <3> QED  BY <1>1, <2>5, <2>6, <2>9, <3>1, Zenon DEF Shares
  <2>11. n.vBlocks \subseteq wanted
    BY <2>1
  <2>12. n.staller # None => wanted = {} /\ n.staller = waitingfor(visited)
    BY <2>1
  <2> QED  BY <2>7, <2>8, <2>10, <2>11, <2>12 DEF Found
<1> QED  BY <1>2, <1>3

-----------------------------------------------------------------------------
(* What a step may leave behind, and with the same flags.                  *)

Kept(r) ==
    /\ Books(r) /\ DOMAIN r.state = Connected
    /\ \A n \in Connected : Shares(n, r.state[n])

FlagsKept(q, r) == \A n \in Connected : SameFlags(q.state[n], r.state[n])

(* r is q with t as the state of p.                                        *)
Replaced(q, p, t, r) ==
    /\ r.flight = q.flight /\ r.state[p] = t
    /\ \A n \in Connected \ {p} : r.state[n] = q.state[n]

LEMMA QueueRead ==
    ASSUME DInv
    PROVE  /\ Kept(Queue) /\ Queue.state = mapNodeState /\ Queue.flight = mapBlocksInFlight
           /\ SyncExact /\ ChainSound /\ Connected \subseteq NodeIds
<1>1. Queue.state = mapNodeState /\ Queue.flight = mapBlocksInFlight
  BY DEF Queue
<1> QED  BY <1>1, Zenon DEF DInv, Kept, Connected, Books

LEMMA NodeRead ==
    ASSUME NEW q, Kept(q), NEW p \in Connected
    PROVE  q.state[p] \in CNodeStates /\ NodeBooks(q.state[p]) /\ Shares(p, q.state[p])
<1>1. q.state[p] \in CNodeStates
  BY DEF Kept, Books
<1> QED  BY <1>1, Zenon DEF Kept, Books

LEMMA FlightNow ==
    ASSUME DInv, NEW b \in Blocks, NEW p \in NodeIds
    PROVE  mapBlocksInFlight[b] = p
               <=> p \in Connected /\ \E e \in mapNodeState[p].vBlocksInFlight : e.hash = b
<1>1. Kept(Queue) /\ Queue.state = mapNodeState /\ Queue.flight = mapBlocksInFlight
  BY QueueRead, Zenon
<1>2. Queue.flight[b] = p
          <=> p \in Connected /\ \E e \in Queue.state[p].vBlocksInFlight : e.hash = b
  BY <1>1, Zenon DEF Kept, Books
<1> QED  BY <1>1, <1>2, Zenon

LEMMA FlagsTransitive ==
    ASSUME NEW q, NEW r, NEW u, FlagsKept(q, r), FlagsKept(r, u)
    PROVE  FlagsKept(q, u)
BY DEF FlagsKept, SameFlags

LEMMA NodeReplaced ==
    ASSUME NEW q, Kept(q), NEW p \in Connected, NEW t \in CNodeStates,
           NodeBooks(t), t.vBlocksInFlight = q.state[p].vBlocksInFlight, Shares(p, t),
           NEW r, r = SetState(q, p, t)
    PROVE  /\ Kept(r) /\ Replaced(q, p, t, r)
           /\ SameFlags(q.state[p], t) => FlagsKept(q, r)
<1>1. /\ r.state = [q.state EXCEPT ![p] = t]
      /\ r.flight = q.flight /\ r.queued = q.queued
  BY Zenon DEF SetState
<1>2. DOMAIN q.state = Connected /\ q.state \in [Connected -> CNodeStates] /\ Books(q)
  BY Zenon DEF Kept, Books
<1>3. /\ DOMAIN r.state = Connected /\ r.state[p] = t
      /\ \A n \in Connected \ {p} : r.state[n] = q.state[n]
      /\ r.state \in [DOMAIN r.state -> CNodeStates]
  BY <1>1, <1>2, Zenon
<1>4. \A n \in Connected : r.state[n].vBlocksInFlight = q.state[n].vBlocksInFlight
  BY <1>3
<1>5. Listed(r) = Listed(q)
  BY <1>2, <1>3, <1>4, Zenon DEF Listed
<1>6. \A n \in DOMAIN r.state : NodeBooks(r.state[n])
  BY <1>2, <1>3, Zenon DEF Books
<1>7. Books(r)
  <2>1. /\ DOMAIN r.state \subseteq NodeIds /\ r.flight \in [Blocks -> NodeIds \cup {None}]
        /\ r.queued \in Int /\ r.queued >= ValidHeaders(Listed(r))
    <3>1. /\ DOMAIN q.state \subseteq NodeIds /\ q.flight \in [Blocks -> NodeIds \cup {None}]
          /\ q.queued \in Int /\ q.queued >= ValidHeaders(Listed(q))
      BY <1>2, Zenon DEF Books
    <3> QED  BY <1>1, <1>2, <1>3, <1>5, <3>1, Zenon
  <2>2. ASSUME NEW b \in Blocks, NEW n \in NodeIds
        PROVE  r.flight[b] = n <=>
                   n \in DOMAIN r.state /\ \E e \in r.state[n].vBlocksInFlight : e.hash = b
    <3>1. q.flight[b] = n <=>
              n \in Connected /\ \E e \in q.state[n].vBlocksInFlight : e.hash = b
      BY Zenon DEF Kept, Books
    <3> QED  BY <1>1, <1>3, <1>4, <3>1, Zenon
  <2> QED  BY <1>3, <1>6, <2>1, <2>2, Zenon DEF Books
<1>8. Kept(r)
  BY <1>3, <1>7, Zenon DEF Kept
<1>9. SameFlags(q.state[p], t) => FlagsKept(q, r)
  BY <1>3, Zenon DEF FlagsKept, SameFlags
<1> QED  BY <1>1, <1>3, <1>8, <1>9, Zenon DEF Replaced

LEMMA NodeNoted ==
    ASSUME NEW q, Kept(q), NEW p \in Connected, NEW t \in CNodeStates,
           SameRequests(q.state[p], t), Shares(p, t), NEW r, r = SetState(q, p, t)
    PROVE  /\ Kept(r) /\ Replaced(q, p, t, r)
           /\ SameFlags(q.state[p], t) => FlagsKept(q, r)
<1>1. NodeBooks(t) /\ t.vBlocksInFlight = q.state[p].vBlocksInFlight
  <2>1. NodeBooks(q.state[p])
    BY NodeRead, Zenon
  <2> QED  BY <2>1, Zenon DEF NodeBooks, SameRequests
<1> QED  BY <1>1, NodeReplaced, Zenon

LEMMA RequestsKept ==
    ASSUME NEW q, Kept(q), NEW r, Books(r), DOMAIN r.state = Connected,
           \A n \in Connected : Elsewhere(q.state[n], r.state[n])
    PROVE  Kept(r) /\ FlagsKept(q, r)
<1>1. FlagsKept(q, r)
  BY Zenon DEF FlagsKept, SameFlags, Elsewhere
<1>2. \A n \in Connected : Shares(n, r.state[n])
  BY DEF Kept, Shares, Elsewhere
<1> QED  BY <1>1, <1>2 DEF Kept

LEMMA KeptReceived ==
    ASSUME NEW q, Kept(q), NEW b \in Blocks, NEW r, r = MarkBlockAsReceived(q, {b})
    PROVE  /\ Kept(r) /\ FlagsKept(q, r)
           /\ \A c \in Blocks : r.flight[c] \in {None, q.flight[c]}
<1>1. Books(q) /\ {b} \in SUBSET Blocks /\ DOMAIN q.state = Connected
  BY Zenon DEF Kept
<1>2. /\ Books(r) /\ DOMAIN r.state = DOMAIN q.state
      /\ \A p \in DOMAIN q.state : Elsewhere(q.state[p], r.state[p])
      /\ \A c \in Blocks : r.flight[c] = IF c \in {b} THEN None ELSE q.flight[c]
  BY <1>1, Received
<1> QED  BY <1>1, <1>2, RequestsKept, Zenon

KeptAsked(q, p, B, r) ==
    /\ Kept(r) /\ FlagsKept(q, r)
    /\ \A b \in Blocks : r.flight[b] = IF b \in B THEN p ELSE q.flight[b]

LEMMA KeptRequested ==
    ASSUME NEW q, Kept(q), NEW p \in Connected, NEW B \in SUBSET Blocks,
           NEW validated \in BOOLEAN
    PROVE  KeptAsked(q, p, B, MarkBlockAsInFlight(q, p, B, validated))
<1> DEFINE r == MarkBlockAsInFlight(q, p, B, validated)
<1>1. Books(q) /\ DOMAIN q.state = Connected /\ p \in DOMAIN q.state
  BY DEF Kept
<1>2. Asked(q, p, B, r)
  BY <1>1, Requested
<1>3. /\ Books(r) /\ DOMAIN r.state = Connected
      /\ \A n \in Connected : Elsewhere(q.state[n], r.state[n])
      /\ \A b \in Blocks : r.flight[b] = IF b \in B THEN p ELSE q.flight[b]
  BY <1>1, <1>2, Zenon DEF Asked
<1> HIDE DEF r
<1>4. Kept(r) /\ FlagsKept(q, r)
  BY <1>3, RequestsKept
<1>5. KeptAsked(q, p, B, r)
  BY <1>3, <1>4, Zenon DEF KeptAsked
<1> QED  BY <1>5 DEF r

-----------------------------------------------------------------------------
(* SendMessages.                                                           *)

(* A block changes hands only from nobody, and only if it is missing.      *)
FlightGrows(flight) ==
    \A b \in Blocks : flight[b] # mapBlocksInFlight[b] =>
        mapBlocksInFlight[b] = None /\ b \notin haveData

LEMMA StallNoted ==
    ASSUME NEW q, Kept(q), NEW b \in Blocks, NEW k \in NodeIds, q.flight[b] = k,
           NEW r, r = SetState(q, k, [q.state[k] EXCEPT !.nStallingSince = TRUE])
    PROVE  Kept(r) /\ FlagsKept(q, r) /\ r.flight = q.flight
<1> DEFINE t == [q.state[k] EXCEPT !.nStallingSince = TRUE]
<1>1. k \in Connected /\ q.state[k].vBlocksInFlight # {}
  BY Zenon DEF Kept, Books
<1>2. q.state[k] \in CNodeStates /\ NodeBooks(q.state[k]) /\ Shares(k, q.state[k])
  BY <1>1, NodeRead
<1>3. /\ t \in CNodeStates /\ NodeBooks(t) /\ Elsewhere(q.state[k], t)
      /\ t.vBlocksInFlight = q.state[k].vBlocksInFlight
  BY <1>1, <1>2, StallStarts, Zenon
<1> HIDE DEF t
<1>4. Shares(k, t) /\ SameFlags(q.state[k], t)
  BY <1>2, <1>3 DEF Shares, Elsewhere, SameFlags
<1>5. r = SetState(q, k, t)
  BY DEF t
<1> QED  BY <1>1, <1>3, <1>4, <1>5, NodeReplaced DEF Replaced

LEMMA BlocksRequested ==
    ASSUME TypeOK, ChainSound, NEW q, Kept(q), q.flight = mapBlocksInFlight,
           NEW p \in Connected, NEW r, r = RequestBlocks(q, p)
    PROVE  Kept(r) /\ FlagsKept(q, r) /\ FlightGrows(r.flight)
<1> DEFINE next == FindNextBlocksToDownload(p, q.state[p],
                       MAX_BLOCKS_IN_TRANSIT_PER_PEER - q.state[p].nBlocksInFlight)
           u == SetState(q, p, next.state)
           v == MarkBlockAsInFlight(u, p, next.vBlocks, TRUE)
           k == next.staller
<1>1. p \in NodeIds /\ q.state[p] \in CNodeStates /\ Shares(p, q.state[p])
  BY NodeRead, Zenon DEF TypeOK
<1>2. Found(p, q.state[p], next)
  BY <1>1, NextFound
<1>3. r = v \/ (k # None /\ r = SetState(v, k, [v.state[k] EXCEPT !.nStallingSince = TRUE]))
  BY Zenon DEF RequestBlocks
<1> HIDE DEF next
<1>4. Kept(u) /\ u.flight = mapBlocksInFlight /\ FlagsKept(q, u)
  <2>1. /\ next.state \in CNodeStates /\ SameRequests(q.state[p], next.state)
        /\ SameFlags(q.state[p], next.state) /\ Shares(p, next.state)
    BY <1>2, Zenon DEF Found
  <2>2. Kept(u) /\ Replaced(q, p, next.state, u) /\ FlagsKept(q, u)
    BY <2>1, NodeNoted, Zenon
  <2> QED  BY <2>2, Zenon DEF Replaced
<1>5. next.vBlocks \in SUBSET Blocks /\ TRUE \in BOOLEAN
  BY <1>2 DEF Found
<1> HIDE DEF u
<1>6. /\ Kept(v) /\ FlagsKept(u, v)
      /\ \A b \in Blocks : v.flight[b] = IF b \in next.vBlocks THEN p ELSE mapBlocksInFlight[b]
  <2>1. KeptAsked(u, p, next.vBlocks, v)
    BY <1>4, <1>5, KeptRequested, Zenon
  <2> QED  BY <1>4, <2>1, Zenon DEF KeptAsked
<1> HIDE DEF v
<1>7. FlagsKept(q, v)
  BY <1>4, <1>6, FlagsTransitive, Zenon
<1>8. FlightGrows(v.flight)
  BY <1>2, <1>6 DEF FlightGrows, Found
<1>9. CASE k # None /\ r = SetState(v, k, [v.state[k] EXCEPT !.nStallingSince = TRUE])
  <2>1. PICK b \in Blocks : mapBlocksInFlight[b] = k /\ v.flight[b] = k
    BY <1>2, <1>6, <1>9, Zenon DEF Found
  <2>2. k \in NodeIds
    BY <1>9, <2>1 DEF TypeOK
  <2>3. Kept(r) /\ FlagsKept(v, r) /\ r.flight = v.flight
    BY <1>6, <1>9, <2>1, <2>2, StallNoted, Zenon
  <2>4. FlagsKept(q, r)
    BY <1>7, <2>3, FlagsTransitive, Zenon
  <2> QED  BY <1>8, <2>3, <2>4, Zenon
<1> QED  BY <1>3, <1>6, <1>7, <1>8, <1>9, Zenon

LEMMA SendingDone ==
    ASSUME DInv, NEW p \in Connected, NEW late \in BOOLEAN, NEW r, r = Sent(p, late)
    PROVE  /\ Kept(r) /\ FlightGrows(r.flight)
           /\ \A n \in Connected :
                  r.state[n].fPreferredDownload = mapNodeState[n].fPreferredDownload
           /\ \A n \in Connected \ {p} : r.state[n].fSyncStarted = mapNodeState[n].fSyncStarted
           /\ r.state[p].fSyncStarted =
                  (mapNodeState[p].fSyncStarted \/ StartsSync(mapNodeState[p]))
<1> DEFINE s == mapNodeState[p]
           t == BeforeRequests(p, s, late)
           q == SetState(Queue, p, t)
<1>1. /\ Kept(Queue) /\ Queue.state = mapNodeState /\ Queue.flight = mapBlocksInFlight
      /\ TypeOK /\ ChainSound
  BY QueueRead, Typed
<1>2. s \in CNodeStates /\ Shares(p, s)
  BY <1>1, NodeRead, Zenon
<1>3. /\ t \in CNodeStates /\ SameRequests(s, t) /\ SameBlocks(s, t)
      /\ t.fPreferredDownload = s.fPreferredDownload
      /\ t.fSyncStarted = (s.fSyncStarted \/ StartsSync(s))
  BY <1>2, SendingBegins, Zenon
<1>4. r = q \/ r = RequestBlocks(q, p)
  BY DEF Sent
<1> HIDE DEF t
<1>5. Shares(p, t)
  BY <1>2, <1>3, Zenon DEF Shares, SameBlocks
<1>6. Kept(q) /\ Replaced(Queue, p, t, q)
  BY <1>1, <1>3, <1>5, NodeNoted
<1>7. /\ q.flight = mapBlocksInFlight /\ q.state[p] = t
      /\ \A n \in Connected \ {p} : q.state[n] = mapNodeState[n]
  BY <1>1, <1>6 DEF Replaced
<1> HIDE DEF q
<1>8. Kept(r) /\ FlagsKept(q, r) /\ FlightGrows(r.flight)
  <2>1. CASE r = q
    BY <1>6, <1>7, <2>1, Zenon DEF SameFlags, FlagsKept, FlightGrows
  <2>2. CASE r = RequestBlocks(q, p)
    BY <1>1, <1>6, <1>7, <2>2, BlocksRequested, Zenon
  <2> QED  BY <1>4, <2>1, <2>2, Zenon
<1>9. \A n \in Connected : /\ r.state[n].fSyncStarted = q.state[n].fSyncStarted
                           /\ r.state[n].fPreferredDownload = q.state[n].fPreferredDownload
  BY <1>8, Zenon DEF FlagsKept, SameFlags
<1> QED  BY <1>3, <1>7, <1>8, <1>9

-----------------------------------------------------------------------------
(* The chain.                                                              *)

ChainGrows == mapBlockIndex \subseteq mapBlockIndex' /\ haveData \subseteq haveData'

LEMMA ChainUnchanged ==
    ASSUME ChainSound, UNCHANGED chainVars
    PROVE  ChainGrows /\ ChainSound'
BY DEF ChainSound, chainVars, ChainGrows, Linked, Bad

LEMMA BlockProcessed ==
    ASSUME ChainSound, NEW b \in Blocks, NEW fRequested \in BOOLEAN,
           ProcessNewBlock(b, fRequested)
    PROVE  ChainGrows /\ ChainSound'
<1>1. CASE UNCHANGED chainVars
  BY <1>1, ChainUnchanged, Zenon
<1>2. CASE mapBlockIndex' = mapBlockIndex \cup {b} /\ UNCHANGED <<haveData, failed, tip>>
  BY <1>2 DEF ChainSound, ChainGrows, Linked, Bad
<1>3. CASE /\ mapBlockIndex' = mapBlockIndex \cup {b} /\ b \in BadContext
           /\ failed' = failed \cup {b} /\ UNCHANGED <<haveData, tip>>
  BY <1>3, Zenon DEF ChainSound, ChainGrows, Linked, Bad
<1>4. CASE /\ mapBlockIndex' = mapBlockIndex \cup {b} /\ b \notin BadContext
           /\ haveData' = haveData \cup {b} /\ ActivateBestChain(haveData \cup {b})
  <2> DEFINE have == haveData \cup {b}
  <2>1. PICK new \in have, tried \in SUBSET have :
            /\ Linked(have, new) /\ ~Bad(new)
            /\ \A c \in tried : Linked(have, c)
            /\ tip' = new
            /\ failed' = failed \cup {c \in UNION {Path[d] : d \in tried} : Bad(c)}
    BY <1>4, Zenon DEF ActivateBestChain
  <2>2. /\ mapBlockIndex' \subseteq Blocks /\ haveData' \subseteq mapBlockIndex'
        /\ haveData' = have /\ ChainGrows
    BY <1>4 DEF ChainSound, ChainGrows
  <2>3. haveData' \cap BadContext = {}
    BY <1>4, Zenon DEF ChainSound
  <2> HIDE DEF have
  <2>4. failed' \subseteq mapBlockIndex'
    BY <1>4, <2>1, <2>2 DEF ChainSound, Linked
  <2>5. \A c \in failed' : Bad(c) \/ c \in BadContext
    BY <2>1, Zenon DEF ChainSound
  <2>6. tip' \in haveData' \ failed'
    BY <2>1, <2>2, <2>3, <2>5, Zenon
  <2>7. Path[tip'] \subseteq haveData'
    BY <2>1, <2>2 DEF Linked
  <2> QED  BY <2>2, <2>3, <2>4, <2>5, <2>6, <2>7, Zenon DEF ChainSound, Linked, Bad
<1> QED  BY <1>1, <1>2, <1>3, <1>4 DEF ProcessNewBlock, chainVars

-----------------------------------------------------------------------------
(* The steps.  AsksNew is what RequestsNew says of a step.                 *)

AsksNew ==
    \A b \in Blocks :
        mapBlocksInFlight'[b] \notin {None, mapBlocksInFlight[b]}
            => mapBlocksInFlight[b] = None /\ b \notin haveData'

SyncNodes(state) == {p \in DOMAIN state : state[p].fSyncStarted}
PreferredNodes(state) == {p \in DOMAIN state : state[p].fPreferredDownload}

LEMMA SameBooks ==
    ASSUME NEW q, NEW r, Books(r),
           q.state = r.state, q.flight = r.flight, q.queued = r.queued
    PROVE  Books(q)
<1>1. Listed(q) = Listed(r)
  BY Zenon DEF Listed
<1>2. /\ DOMAIN q.state \subseteq NodeIds /\ q.state \in [DOMAIN q.state -> CNodeStates]
      /\ q.flight \in [Blocks -> NodeIds \cup {None}]
      /\ q.queued \in Int /\ q.queued >= ValidHeaders(Listed(q))
  BY <1>1, SMT DEF Books
<1>3. ASSUME NEW b \in Blocks, NEW p \in NodeIds
      PROVE  q.flight[b] = p
                 <=> p \in DOMAIN q.state /\ \E e \in q.state[p].vBlocksInFlight : e.hash = b
  BY SMT DEF Books
<1>4. ASSUME NEW p \in DOMAIN q.state PROVE NodeBooks(q.state[p])
  BY SMT DEF Books
<1> QED  BY <1>2, <1>3, <1>4, Zenon DEF Books

LEMMA QueueSet ==
    ASSUME NEW r, Books(r), SetQueue(r)
    PROVE  /\ Books(Queue)' /\ Connected' = DOMAIN r.state
           /\ mapNodeState' = r.state /\ mapBlocksInFlight' = r.flight
<1>1. /\ mapNodeState' = r.state /\ mapBlocksInFlight' = r.flight
      /\ Queue'.state = r.state /\ Queue'.flight = r.flight /\ Queue'.queued = r.queued
      /\ Connected' = DOMAIN r.state
  BY DEF SetQueue, Queue, Connected
<1>2. Books(Queue')
  BY <1>1, SameBooks, Zenon
<1>3. Books(Queue)' <=> Books(Queue')
  BY Zenon DEF Books, Listed
<1> QED  BY <1>1, <1>2, <1>3, Zenon

LEMMA CountsSet ==
    ASSUME nSyncStarted' = Cardinality(SyncNodes(mapNodeState')),
           nPreferredDownload' = Cardinality(PreferredNodes(mapNodeState'))
    PROVE  SyncExact'
BY Zenon DEF SyncExact, SyncNodes, PreferredNodes, Connected

LEMMA CountsRead ==
    ASSUME DInv
    PROVE  /\ nSyncStarted = Cardinality(SyncNodes(mapNodeState))
           /\ nPreferredDownload = Cardinality(PreferredNodes(mapNodeState))
BY Zenon DEF DInv, SyncExact, SyncNodes, PreferredNodes, Connected

LEMMA Handled ==
    ASSUME DInv, NEW r, Kept(r), SetQueue(r), ChainGrows, ChainSound', SyncExact',
           unseen' = unseen
    PROVE  DInv'
<1>1. /\ Books(Queue)' /\ Connected' = Connected /\ mapNodeState' = r.state
      /\ \A n \in Connected : Shares(n, r.state[n])
  BY QueueSet, Zenon DEF Kept
<1>2. \A p \in Connected' : Shares(p, mapNodeState[p])'
  BY <1>1 DEF Shares, ChainGrows, Linked
<1> QED  BY <1>1, <1>2, Zenon DEF DInv

LEMMA MessageHandled ==
    ASSUME DInv, NEW r, Kept(r), FlagsKept(Queue, r), SetQueue(r), ChainGrows, ChainSound',
           UNCHANGED <<unseen, nSyncStarted, nPreferredDownload>>
    PROVE  DInv' /\ mapBlocksInFlight' = r.flight
<1>1. /\ mapNodeState' = r.state /\ mapBlocksInFlight' = r.flight
      /\ DOMAIN r.state = Connected /\ Queue.state = mapNodeState
  BY Zenon DEF SetQueue, Kept, Queue
<1>2. /\ SyncNodes(mapNodeState') = SyncNodes(mapNodeState)
      /\ PreferredNodes(mapNodeState') = PreferredNodes(mapNodeState)
  BY <1>1 DEF FlagsKept, SameFlags, SyncNodes, PreferredNodes, Connected
<1>3. SyncExact'
  BY <1>2, CountsRead, CountsSet, Zenon
<1> QED  BY <1>1, <1>3, Handled

LEMMA ConnectStep ==
    ASSUME DInv, NEW p \in NodeIds, InitializeNode(p)
    PROVE  DInv' /\ AsksNew
<1> DEFINE r == [state |-> [n \in Connected \cup {p} |->
                                IF n = p THEN CNodeState ELSE mapNodeState[n]],
                 flight |-> mapBlocksInFlight, queued |-> nQueuedValidatedHeaders]
<1>1. /\ p \notin Connected /\ unseen' = unseen \ {p} /\ SetQueue(r)
      /\ mapBlocksInFlight' = mapBlocksInFlight
      /\ UNCHANGED <<nSyncStarted, nPreferredDownload, chainVars>>
  BY Zenon DEF InitializeNode, DInv, SetQueue
<1>2. /\ DOMAIN r.state = Connected \cup {p} /\ r.state[p] = CNodeState
      /\ \A n \in Connected : r.state[n] = mapNodeState[n]
      /\ r.state = [n \in DOMAIN r.state |-> r.state[n]]
      /\ r.flight = Queue.flight /\ r.queued = Queue.queued
  BY <1>1 DEF Queue
<1> HIDE DEF r
<1>3. /\ CNodeState \in CNodeStates /\ CNodeState.vBlocksInFlight = {}
      /\ ~CNodeState.fSyncStarted /\ ~CNodeState.fPreferredDownload
      /\ Shares(p, CNodeState) /\ NodeBooks(CNodeState)
  <2>1. Cardinality({}) = 0 /\ ValidHeaders({}) = 0
    BY FS_EmptySet, Zenon DEF ValidHeaders
  <2> QED  BY <2>1, NewNode, Zenon DEF CNodeState, NodeBooks, Shares
<1>4. ASSUME NEW n \in DOMAIN r.state
      PROVE  r.state[n] \in CNodeStates /\ NodeBooks(r.state[n])
  <2>1. CASE n = p
    BY <1>2, <1>3, <2>1, Zenon
  <2>2. CASE n # p
    <3>1. n \in Connected /\ r.state[n] = Queue.state[n] /\ Kept(Queue)
      BY <1>2, <2>2, QueueRead
    <3> QED  BY <3>1, NodeRead, Zenon
  <2> QED  BY <2>1, <2>2, Zenon
<1>5. Books(r)
  <2>1. Listed(r) = Listed(Queue)
    <3>1. Queue.state = mapNodeState /\ DOMAIN Queue.state = Connected
      BY QueueRead, Zenon DEF Kept
    <3>2. ASSUME NEW e
          PROVE  e \in Listed(r) <=> e \in Listed(Queue)
      <4>1. e \in Listed(r) <=> \E n \in Connected \cup {p} : e \in r.state[n].vBlocksInFlight
        BY <1>2, ListedBy, Zenon
      <4>2. e \in Listed(Queue) <=> \E n \in Connected : e \in mapNodeState[n].vBlocksInFlight
        BY <3>1, ListedBy, Zenon
      <4>3. e \notin r.state[p].vBlocksInFlight
        BY <1>2, <1>3, Zenon
      <4> QED  BY <1>2, <4>1, <4>2, <4>3, Zenon
    <3> QED  BY <3>2, Zenon
  <2>2. r.state \in [DOMAIN r.state -> CNodeStates]
    BY <1>2, <1>4, Zenon
  <2>3. ASSUME NEW b \in Blocks, NEW n \in NodeIds
        PROVE  r.flight[b] = n <=>
                   n \in DOMAIN r.state /\ \E e \in r.state[n].vBlocksInFlight : e.hash = b
    <3>1. Queue.flight[b] = n <=>
              n \in Connected /\ \E e \in mapNodeState[n].vBlocksInFlight : e.hash = b
      BY QueueRead, Zenon DEF Books, Kept
    <3> QED  BY <1>1, <1>2, <1>3, <3>1
  <2>4. /\ DOMAIN r.state \subseteq NodeIds /\ r.flight \in [Blocks -> NodeIds \cup {None}]
        /\ r.queued \in Int /\ r.queued >= ValidHeaders(Listed(r))
    BY <1>2, <2>1, QueueRead, Zenon DEF Books, Kept
  <2> QED  BY <1>4, <2>2, <2>3, <2>4, Zenon DEF Books
<1>6. /\ Books(Queue)' /\ Connected' = Connected \cup {p} /\ mapNodeState' = r.state
  BY <1>1, <1>2, <1>5, QueueSet, Zenon
<1>7. SyncExact'
  <2>1. /\ SyncNodes(r.state) = SyncNodes(mapNodeState)
        /\ PreferredNodes(r.state) = PreferredNodes(mapNodeState)
    BY <1>2, <1>3 DEF SyncNodes, PreferredNodes, Connected
  <2> QED  BY <1>1, <1>6, <2>1, CountsRead, CountsSet, Zenon
<1>8. ChainSound' /\ ChainGrows
  BY <1>1, ChainUnchanged, Zenon DEF DInv
<1>9. \A n \in Connected' : Shares(n, mapNodeState[n])'
  <2>1. \A n \in Connected : Shares(n, mapNodeState[n])
    BY DEF DInv
  <2> QED  BY <1>2, <1>3, <1>6, <1>8, <2>1, Zenon DEF Shares, ChainGrows, Linked
<1>10. unseen' \subseteq NodeIds /\ Connected' \cap unseen' = {}
  BY <1>1, <1>6 DEF DInv
<1> QED  BY <1>1, <1>6, <1>7, <1>8, <1>9, <1>10, Zenon DEF DInv, AsksNew

LEMMA VersionStep ==
    ASSUME DInv, NEW p \in Connected, UpdatePreferredDownload(p)
    PROVE  DInv' /\ AsksNew
<1> DEFINE s == mapNodeState[p]
           greeted == TRUE
           preferred == p \in Outbound
           t == [s EXCEPT !.fVersion = greeted, !.fPreferredDownload = preferred]
           q == SetState(Queue, p, t)
<1>1. /\ SetQueue(q) /\ unseen' = unseen
      /\ UNCHANGED <<mapBlocksInFlight, nSyncStarted, chainVars>>
      /\ nPreferredDownload' = nPreferredDownload
             - Count(s.fPreferredDownload) + Count(p \in Outbound)
  BY Zenon DEF UpdatePreferredDownload, SetQueue, SetState, Queue
<1>2. greeted \in BOOLEAN /\ preferred \in BOOLEAN /\ preferred = (p \in Outbound)
  OBVIOUS
<1> HIDE DEF greeted, preferred
<1>3. s \in CNodeStates /\ Shares(p, s)
  BY QueueRead, NodeRead
<1>4. /\ t \in CNodeStates /\ SameRequests(s, t) /\ SameBlocks(s, t)
      /\ t.fSyncStarted = s.fSyncStarted /\ t.fPreferredDownload = preferred
  <2> HIDE DEF s
  <2> QED  BY <1>2, <1>3, Zenon DEF CNodeStates, SameRequests, SameBlocks
<1>5. Shares(p, t)
  BY <1>3, <1>4 DEF Shares, SameBlocks
<1> HIDE DEF t
<1>6. Kept(q) /\ Replaced(Queue, p, t, q)
  BY <1>4, <1>5, QueueRead, NodeNoted, Zenon
<1>7. /\ q.state[p] = t /\ \A n \in Connected \ {p} : q.state[n] = mapNodeState[n]
      /\ DOMAIN q.state = Connected /\ mapNodeState' = q.state
  BY <1>1, <1>6, QueueRead, Zenon DEF Kept, Replaced, SetQueue
<1> HIDE DEF q
<1>8. SyncExact'
  <2> DEFINE F == PreferredNodes(mapNodeState)
             G == PreferredNodes(q.state)
  <2>1. SyncNodes(q.state) = SyncNodes(mapNodeState)
    BY <1>4, <1>7, Zenon DEF SyncNodes, Connected
  <2>2. /\ F \in SUBSET NodeIds /\ G \in SUBSET NodeIds
        /\ F \ {p} = G \ {p} /\ p \in NodeIds
        /\ p \in F <=> s.fPreferredDownload
        /\ p \in G <=> p \in Outbound
    BY <1>2, <1>4, <1>7, QueueRead, Zenon DEF PreferredNodes, Connected
  <2> HIDE DEF F, G
  <2>3. Cardinality(G) = Cardinality(F) - Count(p \in F) + Count(p \in G)
    BY <2>2, CountChanged
  <2>4. nPreferredDownload = Cardinality(F)
    BY CountsRead DEF F
  <2>5. nPreferredDownload' = Cardinality(G)
    BY <1>1, <2>2, <2>3, <2>4, Zenon DEF Count
  <2> QED  BY <1>1, <1>7, <2>1, <2>5, CountsRead, CountsSet, Zenon DEF G
<1>9. ChainSound' /\ ChainGrows
  BY <1>1, ChainUnchanged DEF DInv
<1>10. DInv'
  BY <1>1, <1>6, <1>8, <1>9, Handled, Zenon
<1> QED  BY <1>1, <1>10 DEF AsksNew

LEMMA CloseStep ==
    ASSUME DInv, NEW p \in Connected, CloseSocketDisconnect(p)
    PROVE  DInv' /\ AsksNew
<1> DEFINE s == mapNodeState[p]
           t == [s EXCEPT !.fDisconnect = TRUE]
           q == SetState(Queue, p, t)
<1>1. /\ SetQueue(q) /\ UNCHANGED mapBlocksInFlight /\ UNCHANGED chainVars
      /\ UNCHANGED <<unseen, nSyncStarted, nPreferredDownload>>
  BY DEF CloseSocketDisconnect, SetQueue, SetState, Queue
<1>2. s \in CNodeStates /\ Shares(p, s)
  BY QueueRead, NodeRead
<1>3. t \in CNodeStates /\ SameRequests(s, t) /\ SameFlags(s, t) /\ SameBlocks(s, t)
  <2> HIDE DEF s
  <2> QED  BY <1>2, Zenon DEF CNodeStates, SameRequests, SameFlags, SameBlocks
<1>4. Shares(p, t)
  BY <1>2, <1>3, Zenon DEF Shares, SameBlocks
<1> HIDE DEF t
<1>5. Kept(q) /\ FlagsKept(Queue, q)
  BY <1>3, <1>4, QueueRead, NodeNoted, Zenon
<1> HIDE DEF q
<1>6. ChainSound' /\ ChainGrows
  BY <1>1, ChainUnchanged, Zenon DEF DInv
<1>7. DInv'
  BY <1>1, <1>5, <1>6, MessageHandled, Zenon
<1> QED  BY <1>1, <1>7 DEF AsksNew

LEMMA FinalizeStep ==
    ASSUME DInv, NEW p \in Connected, FinalizeNode(p)
    PROVE  DInv' /\ AsksNew
<1> DEFINE s == mapNodeState[p]
           gone == {e.hash : e \in s.vBlocksInFlight}
           r == [state |-> [n \in Connected \ {p} |-> mapNodeState[n]],
                 flight |-> [b \in Blocks |-> IF b \in gone THEN None
                                              ELSE mapBlocksInFlight[b]],
                 queued |-> nQueuedValidatedHeaders]
<1>1. /\ SetQueue(r) /\ UNCHANGED unseen /\ UNCHANGED chainVars
      /\ nSyncStarted' = nSyncStarted - Count(s.fSyncStarted)
      /\ nPreferredDownload' = nPreferredDownload - Count(s.fPreferredDownload)
  BY Zenon DEF FinalizeNode, SetQueue
<1>2. /\ DOMAIN r.state = Connected \ {p} /\ r.queued = Queue.queued
      /\ \A n \in Connected \ {p} : r.state[n] = mapNodeState[n]
      /\ r.state = [n \in DOMAIN r.state |-> r.state[n]]
      /\ r.flight = [b \in Blocks |-> IF b \in gone THEN None ELSE mapBlocksInFlight[b]]
  BY DEF Queue
<1> HIDE DEF r
<1>3. Books(r)
  <2>1. mapBlocksInFlight \in [Blocks -> NodeIds \cup {None}]
    BY QueueRead, Zenon DEF Kept, Books
  <2>2. ASSUME NEW n \in DOMAIN r.state
        PROVE  r.state[n] \in CNodeStates /\ NodeBooks(r.state[n])
    <3>1. n \in Connected /\ r.state[n] = Queue.state[n] /\ Kept(Queue)
      BY <1>2, QueueRead, Zenon
    <3> QED  BY <3>1, NodeRead, Zenon
  <2>3. /\ DOMAIN r.state \subseteq NodeIds /\ r.flight \in [Blocks -> NodeIds \cup {None}]
    BY <1>2, <2>1, QueueRead, Zenon
  <2>6. r.state \in [DOMAIN r.state -> CNodeStates]
    BY <1>2, <2>2, Zenon
  <2>4. ASSUME NEW b \in Blocks, NEW n \in NodeIds
        PROVE  r.flight[b] = n <=>
                   n \in DOMAIN r.state /\ \E e \in r.state[n].vBlocksInFlight : e.hash = b
    <3>1. /\ mapBlocksInFlight[b] = n <=>
                 n \in Connected /\ \E e \in mapNodeState[n].vBlocksInFlight : e.hash = b
          /\ mapBlocksInFlight[b] = p <=> b \in gone
      <4>1. \A m \in NodeIds :
                mapBlocksInFlight[b] = m <=>
                    m \in Connected /\ \E e \in mapNodeState[m].vBlocksInFlight : e.hash = b
        BY FlightNow, Zenon
      <4>2. p \in NodeIds
        BY QueueRead, Zenon
      <4> QED  BY <4>1, <4>2, Zenon
    <3>2. n # None
      BY DownloadAssumption
    <3> HIDE DEF gone
    <3> QED  BY <1>2, <3>1, <3>2, Zenon
  <2>5. r.queued \in Int /\ r.queued >= ValidHeaders(Listed(r))
    <3>1. Listed(r) \in SUBSET Listed(Queue) /\ Listed(Queue) \in SUBSET QueuedBlocks
      <4>1. Books(Queue) /\ Queue.state = mapNodeState /\ DOMAIN Queue.state = Connected
        BY QueueRead, Zenon DEF Kept, Connected
      <4>2. Listed(Queue) \in SUBSET QueuedBlocks
        BY <4>1, Lists, Zenon
      <4>3. \A e \in Listed(r) : e \in Listed(Queue)
        <5> TAKE e \in Listed(r)
        <5>1. PICK n \in Connected \ {p} : e \in r.state[n].vBlocksInFlight
          BY <1>2, ListedBy, Zenon
        <5>2. n \in DOMAIN Queue.state /\ e \in Queue.state[n].vBlocksInFlight
          BY <1>2, <4>1, <5>1, Zenon
        <5> QED  BY <5>2, ListedBy, Zenon
      <4> QED  BY <4>2, <4>3, Zenon
    <3>2. ValidHeaders(Listed(r)) <= ValidHeaders(Listed(Queue))
      BY <3>1, CountRemoved, Zenon
    <3>3. ValidHeaders(Listed(Queue)) \in Nat /\ ValidHeaders(Listed(r)) \in Nat
      BY <3>1, FiniteRequests, Zenon
    <3>4. Queue.queued \in Int /\ Queue.queued >= ValidHeaders(Listed(Queue))
      BY QueueRead DEF Kept, Books
    <3>5. r.queued = Queue.queued
      BY <1>2, Zenon
    <3> DEFINE m == ValidHeaders(Listed(r))
               n == ValidHeaders(Listed(Queue))
    <3>6. m \in Nat /\ n \in Nat /\ m <= n /\ r.queued \in Int /\ r.queued >= n
      BY <3>2, <3>3, <3>4, <3>5, Zenon
    <3> HIDE DEF m, n
    <3>7. r.queued \in Int /\ r.queued >= m
      BY <3>6
    <3> QED  BY <3>7 DEF m
  <2> QED  BY <2>2, <2>3, <2>4, <2>5, <2>6, Zenon DEF Books
<1>4. /\ Books(Queue)' /\ Connected' = Connected \ {p}
      /\ mapNodeState' = r.state /\ mapBlocksInFlight' = r.flight
  BY <1>1, <1>2, <1>3, QueueSet, Zenon
<1>5. ASSUME NEW F, NEW G, F \in SUBSET Connected, G = F \ {p}
      PROVE  Cardinality(F) \in Nat /\ Cardinality(G) = Cardinality(F) - Count(p \in F)
  <2>1. /\ F \in SUBSET NodeIds /\ G \in SUBSET NodeIds /\ F \ {p} = G \ {p}
        /\ p \in NodeIds /\ p \notin G
    BY <1>5, QueueRead, Zenon
  <2>2. /\ Cardinality(F) \in Nat
        /\ Cardinality(G) = Cardinality(F) - Count(p \in F) + Count(p \in G)
    BY <2>1, CountChanged
  <2> QED  BY <2>1, <2>2 DEF Count
<1>6. SyncExact'
  <2>1. /\ SyncNodes(mapNodeState) \in SUBSET Connected
        /\ SyncNodes(r.state) = SyncNodes(mapNodeState) \ {p}
        /\ p \in SyncNodes(mapNodeState) <=> s.fSyncStarted
    BY <1>2, Zenon DEF SyncNodes, Connected
  <2>2. /\ PreferredNodes(mapNodeState) \in SUBSET Connected
        /\ PreferredNodes(r.state) = PreferredNodes(mapNodeState) \ {p}
        /\ p \in PreferredNodes(mapNodeState) <=> s.fPreferredDownload
    BY <1>2, Zenon DEF PreferredNodes, Connected
  <2>3. nSyncStarted' = Cardinality(SyncNodes(r.state))
    BY <1>1, <1>5, <2>1, CountsRead, Zenon DEF Count
  <2>4. nPreferredDownload' = Cardinality(PreferredNodes(r.state))
    BY <1>1, <1>5, <2>2, CountsRead, Zenon DEF Count
  <2> QED  BY <1>4, <2>3, <2>4, CountsSet, Zenon
<1>7. ChainSound' /\ ChainGrows
  BY <1>1, ChainUnchanged, Zenon DEF DInv
<1>8. \A n \in Connected' : Shares(n, mapNodeState[n])'
  <2>1. \A n \in Connected : Shares(n, mapNodeState[n])
    BY Zenon DEF DInv
  <2> QED  BY <1>2, <1>4, <1>7, <2>1 DEF Shares, ChainGrows, Linked
<1>9. AsksNew
  BY <1>2, <1>4, Zenon DEF AsksNew
<1>10. unseen' \subseteq NodeIds /\ Connected' \cap unseen' = {}
  BY <1>1, <1>4 DEF DInv
<1> QED  BY <1>4, <1>6, <1>7, <1>8, <1>9, <1>10, Zenon DEF DInv

LEMMA InvStep ==
    ASSUME DInv, NEW p \in Connected, NEW b \in Blocks, Inv(p, b)
    PROVE  DInv' /\ AsksNew
<1> DEFINE s == mapNodeState[p]
           new == b \notin mapBlockIndex /\ mapBlocksInFlight[b] = None
           ask == s.asked \/ (new /\ p \in Reliable)
           t == [s EXCEPT !.hashLastUnknownBlock = b, !.asked = ask]
           q == SetState(Queue, p, t)
           r == MarkBlockAsInFlight(q, p, {b}, FALSE)
<1>1. s \in CNodeStates /\ ask \in BOOLEAN /\ Shares(p, s)
  BY QueueRead, NodeRead
<1>2. /\ b \in Has[p]
      /\ UNCHANGED <<unseen, nSyncStarted, nPreferredDownload>> /\ UNCHANGED chainVars
      /\ SetQueue(q) \/ (new /\ SetQueue(r))
  <2>1. [UpdateBlockAvailability(s, b) EXCEPT !.asked = @ \/ (new /\ p \in Reliable)] = t
    BY <1>1 DEF UpdateBlockAvailability, CNodeStates
  <2> HIDE DEF t
  <2> QED  BY <2>1, Zenon DEF Inv, Announces
<1> HIDE DEF ask
<1>3. /\ t \in CNodeStates /\ SameRequests(s, t) /\ SameFlags(s, t)
      /\ t.hashLastUnknownBlock = b
      /\ t.pindexBestKnownBlock = s.pindexBestKnownBlock
      /\ t.pindexLastCommonBlock = s.pindexLastCommonBlock
  <2> HIDE DEF s
  <2> QED  BY <1>1, Zenon DEF CNodeStates, SameRequests, SameFlags
<1> HIDE DEF t
<1>4. Shares(p, t)
  BY <1>1, <1>2, <1>3, Zenon DEF Shares
<1>5. Kept(q) /\ FlagsKept(Queue, q) /\ q.flight = mapBlocksInFlight
  BY <1>3, <1>4, QueueRead, NodeNoted, Zenon DEF Replaced
<1> HIDE DEF q
<1>6. ChainSound' /\ ChainGrows /\ haveData' = haveData
  BY <1>2, QueueRead, ChainUnchanged, Zenon DEF chainVars
<1>7. CASE SetQueue(q)
  <2>1. DInv' /\ mapBlocksInFlight' = q.flight
    BY <1>2, <1>5, <1>6, <1>7, MessageHandled, Zenon
  <2> QED  BY <1>5, <2>1, Zenon DEF AsksNew
<1>8. CASE new /\ SetQueue(r)
  <2>1. KeptAsked(q, p, {b}, r)
    <3>1. {b} \in SUBSET Blocks /\ FALSE \in BOOLEAN
      OBVIOUS
    <3> QED  BY <1>5, <3>1, KeptRequested, Zenon
  <2> HIDE DEF r
  <2>2. /\ Kept(r) /\ FlagsKept(Queue, r)
        /\ \A c \in Blocks : r.flight[c] = IF c \in {b} THEN p ELSE mapBlocksInFlight[c]
    BY <1>5, <2>1, FlagsTransitive, Zenon DEF KeptAsked
  <2>3. DInv' /\ mapBlocksInFlight' = r.flight
    BY <1>2, <1>6, <1>8, <2>2, MessageHandled, Zenon
  <2>4. haveData \subseteq mapBlockIndex
    BY QueueRead, Zenon DEF ChainSound
  <2> QED  BY <1>6, <1>8, <2>2, <2>3, <2>4, Zenon DEF AsksNew
<1> QED  BY <1>2, <1>7, <1>8, Zenon

LEMMA HeadersStep ==
    ASSUME DInv, NEW p \in Connected, NEW b \in Blocks, Headers(p, b)
    PROVE  DInv' /\ AsksNew
<1> DEFINE s == mapNodeState[p]
           ask == FALSE
<1>1. s \in CNodeStates /\ ask \in BOOLEAN /\ Shares(p, s)
  BY QueueRead, NodeRead
<1>2. PICK h \in {b, s.hashLastUnknownBlock} :
          /\ b \in Has[p]
          /\ mapNodeState' = [mapNodeState EXCEPT ![p] =
                                 [s EXCEPT !.hashLastUnknownBlock = h, !.asked = ask]]
          /\ mapBlockIndex' = mapBlockIndex \/ mapBlockIndex' = mapBlockIndex \cup Path[b]
          /\ UNCHANGED <<unseen, nSyncStarted, nPreferredDownload>>
          /\ UNCHANGED <<mapBlocksInFlight, nQueuedValidatedHeaders, haveData, failed, tip>>
  <2>1. /\ [[s EXCEPT !.asked = ask] EXCEPT !.hashLastUnknownBlock = b]
               = [s EXCEPT !.hashLastUnknownBlock = b, !.asked = ask]
        /\ [s EXCEPT !.asked = ask]
               = [s EXCEPT !.hashLastUnknownBlock = s.hashLastUnknownBlock, !.asked = ask]
    <3> HIDE DEF s, ask
    <3> QED  BY <1>1, Zenon DEF CNodeStates
  <2> QED  BY <2>1, Zenon DEF Headers, Announces, UpdateBlockAvailability
<1> DEFINE t == [s EXCEPT !.hashLastUnknownBlock = h, !.asked = ask]
           q == SetState(Queue, p, t)
<1>3. SetQueue(q)
  BY <1>2 DEF SetQueue, SetState, Queue
<1> HIDE DEF ask
<1>4. /\ t \in CNodeStates /\ SameRequests(s, t) /\ SameFlags(s, t)
      /\ t.hashLastUnknownBlock = h
      /\ t.pindexBestKnownBlock = s.pindexBestKnownBlock
      /\ t.pindexLastCommonBlock = s.pindexLastCommonBlock
  <2>1. h \in Blocks \cup {None}
    BY <1>1 DEF CNodeStates
  <2> HIDE DEF s
  <2> QED  BY <1>1, <2>1, Zenon DEF CNodeStates, SameRequests, SameFlags
<1>5. h \in Has[p] \cup {None}
  BY <1>1, <1>2 DEF Shares
<1> HIDE DEF t
<1>6. Shares(p, t)
  BY <1>1, <1>4, <1>5, Zenon DEF Shares
<1>7. Kept(q) /\ FlagsKept(Queue, q) /\ q.flight = mapBlocksInFlight
  BY <1>4, <1>6, QueueRead, NodeNoted, Zenon DEF Replaced
<1> HIDE DEF q
<1>8. ChainSound' /\ ChainGrows
  <2>1. Path[b] \subseteq Blocks
    BY Tree, Zenon
  <2> QED  BY <1>2, <2>1, QueueRead DEF ChainSound, ChainGrows, Linked, Bad
<1>9. DInv' /\ mapBlocksInFlight' = q.flight
  BY <1>2, <1>3, <1>7, <1>8, MessageHandled, Zenon
<1> QED  BY <1>7, <1>9, Zenon DEF AsksNew

LEMMA BlockStep ==
    ASSUME DInv, NEW p \in Connected, NEW b \in Blocks, NEW checked \in BOOLEAN,
           Block(p, b, checked)
    PROVE  DInv' /\ AsksNew
<1> DEFINE q == MarkBlockAsReceived(Queue, {b})
           t == Misbehaving(q.state[p], 1)
           r == SetState(q, p, t)
<1>1. /\ UNCHANGED <<unseen, nSyncStarted, nPreferredDownload>>
      /\ \/ SetQueue(q) /\ ProcessNewBlock(b, mapBlocksInFlight[b] # None)
         \/ SetQueue(r) /\ UNCHANGED chainVars
  BY Zenon DEF Block
<1>2. /\ Kept(q) /\ FlagsKept(Queue, q)
      /\ \A c \in Blocks : q.flight[c] \in {None, mapBlocksInFlight[c]}
  BY QueueRead, KeptReceived
<1> HIDE DEF q
<1>3. CASE SetQueue(q) /\ ProcessNewBlock(b, mapBlocksInFlight[b] # None)
  <2>1. ChainSound' /\ ChainGrows
    <3> DEFINE wanted == mapBlocksInFlight[b] # None
    <3>1. wanted \in BOOLEAN /\ ProcessNewBlock(b, wanted) /\ ChainSound
      BY <1>3, QueueRead, Zenon
    <3> HIDE DEF wanted
    <3> QED  BY <3>1, BlockProcessed
  <2>2. DInv' /\ mapBlocksInFlight' = q.flight
    BY <1>1, <1>2, <1>3, <2>1, MessageHandled, Zenon
  <2> QED  BY <1>2, <2>2, Zenon DEF AsksNew
<1>4. CASE SetQueue(r) /\ UNCHANGED chainVars
  <2>1. q.state[p] \in CNodeStates /\ Shares(p, q.state[p])
    BY <1>2, NodeRead, Zenon
  <2>2. /\ t \in CNodeStates /\ SameRequests(q.state[p], t)
        /\ SameFlags(q.state[p], t) /\ SameBlocks(q.state[p], t)
    BY <2>1, MisbehaviorNoted
  <2> HIDE DEF t
  <2>3. Shares(p, t)
    BY <2>1, <2>2, Zenon DEF Shares, SameBlocks
  <2>4. Kept(r) /\ FlagsKept(q, r) /\ r.flight = q.flight
    BY <1>2, <2>2, <2>3, NodeNoted, Zenon DEF Replaced
  <2> HIDE DEF r
  <2>5. FlagsKept(Queue, r)
    BY <1>2, <2>4, FlagsTransitive, Zenon
  <2>6. ChainSound' /\ ChainGrows
    BY <1>4, QueueRead, ChainUnchanged, Zenon
  <2>7. DInv' /\ mapBlocksInFlight' = r.flight
    BY <1>1, <1>4, <2>4, <2>5, <2>6, MessageHandled, Zenon
  <2> QED  BY <1>2, <2>4, <2>7, Zenon DEF AsksNew
<1> QED  BY <1>1, <1>3, <1>4, Zenon

LEMMA SendStep ==
    ASSUME DInv, NEW p \in Connected, NEW late \in BOOLEAN, SendMessages(p, late)
    PROVE  DInv' /\ AsksNew
<1> DEFINE s == mapNodeState[p]
           r == Sent(p, late)
<1>1. /\ SetQueue(r) /\ unseen' = unseen /\ nPreferredDownload' = nPreferredDownload
      /\ UNCHANGED chainVars /\ nSyncStarted' = nSyncStarted + Count(StartsSync(s))
  BY DEF SendMessages
<1>2. /\ Kept(r) /\ FlightGrows(r.flight)
      /\ \A n \in Connected :
             r.state[n].fPreferredDownload = mapNodeState[n].fPreferredDownload
      /\ \A n \in Connected \ {p} : r.state[n].fSyncStarted = mapNodeState[n].fSyncStarted
      /\ r.state[p].fSyncStarted = (s.fSyncStarted \/ StartsSync(s))
  BY SendingDone, Zenon
<1> HIDE DEF r
<1>3. /\ mapNodeState' = r.state /\ mapBlocksInFlight' = r.flight
      /\ DOMAIN r.state = Connected
  BY <1>1, <1>2, Zenon DEF SetQueue, Kept
<1>4. ChainSound' /\ ChainGrows /\ haveData' = haveData
  BY <1>1, QueueRead, ChainUnchanged, Zenon DEF chainVars
<1>5. SyncExact'
  <2> DEFINE F == SyncNodes(mapNodeState)
             G == SyncNodes(r.state)
  <2>1. PreferredNodes(r.state) = PreferredNodes(mapNodeState)
    BY <1>2, <1>3 DEF PreferredNodes, Connected
  <2>2. /\ F \in SUBSET NodeIds /\ G \in SUBSET NodeIds
        /\ F \ {p} = G \ {p} /\ p \in NodeIds
        /\ p \in F <=> s.fSyncStarted
        /\ p \in G <=> s.fSyncStarted \/ StartsSync(s)
    BY <1>2, <1>3, QueueRead, Zenon DEF SyncNodes, Connected
  <2>3. StartsSync(s) => ~s.fSyncStarted
    BY Zenon DEF StartsSync
  <2> HIDE DEF F, G
  <2>4. /\ Cardinality(F) \in Nat
        /\ Cardinality(G) = Cardinality(F) - Count(p \in F) + Count(p \in G)
    BY <2>2, CountChanged
  <2>5. nSyncStarted = Cardinality(F)
    BY CountsRead, Zenon DEF F
  <2>6. nSyncStarted' = Cardinality(G)
    BY <1>1, <2>2, <2>3, <2>4, <2>5 DEF Count
  <2> QED  BY <1>1, <1>3, <2>1, <2>6, CountsRead, CountsSet, Zenon DEF G
<1>6. DInv'
  BY <1>1, <1>2, <1>4, <1>5, Handled, Zenon
<1> QED  BY <1>2, <1>3, <1>4, <1>6, Zenon DEF AsksNew, FlightGrows

LEMMA DStep ==
    ASSUME DInv, [Next]_vars
    PROVE  DInv' /\ AsksNew
<1>1. ASSUME UNCHANGED vars PROVE DInv' /\ AsksNew
  <2>1. /\ UNCHANGED <<unseen, nSyncStarted, nPreferredDownload>> /\ UNCHANGED chainVars
        /\ UNCHANGED mapBlocksInFlight /\ SetQueue(Queue)
    BY <1>1 DEF vars, queueVars, SetQueue, Queue
  <2>2. ChainSound' /\ ChainGrows
    BY <2>1, QueueRead, ChainUnchanged
  <2>3. FlagsKept(Queue, Queue)
    BY Zenon DEF FlagsKept, SameFlags
  <2>4. DInv'
    BY <2>1, <2>2, <2>3, QueueRead, MessageHandled, Zenon
  <2> QED  BY <2>1, <2>4, Zenon DEF AsksNew
<1>2. ASSUME Next PROVE DInv' /\ AsksNew
  BY <1>2, ConnectStep, VersionStep, CloseStep, FinalizeStep, InvStep, HeadersStep,
     BlockStep, SendStep, Zenon DEF Next
<1> QED  BY <1>1, <1>2, Zenon

LEMMA DInit == Init => DInv
<1> SUFFICES ASSUME Init PROVE DInv
  OBVIOUS
<1>1. /\ Connected = {} /\ unseen = NodeIds /\ nSyncStarted = 0 /\ nPreferredDownload = 0
      /\ Cardinality({}) = 0
  BY FS_EmptySet DEF Init, Connected
<1>2. SyncExact
  <2>1. /\ {p \in Connected : mapNodeState[p].fSyncStarted} = {}
        /\ {p \in Connected : mapNodeState[p].fPreferredDownload} = {}
    BY <1>1, Zenon
  <2> QED  BY <1>1, <2>1 DEF SyncExact
<1>3. ChainSound
  BY Tree, TreeAssumption DEF Init, ChainSound, Linked
<1>4. Books(Queue)
  <2>1. /\ Queue.state = <<>> /\ Queue.queued = 0
        /\ Queue.flight = [b \in Blocks |-> None]
    BY DEF Init, Queue
  <2> QED  BY <2>1, EmptyBooks, Zenon
<1> QED  BY <1>1, <1>2, <1>3, <1>4, Zenon DEF DInv

-----------------------------------------------------------------------------
(* The theorems.                                                           *)

(* The invariant the others follow from.                                   *)
THEOREM DownloadInvariant == Spec => []DInv
<1>1. DInv /\ [Next]_vars => DInv'
  BY DStep
<1> QED  BY <1>1, DInit, PTL DEF Spec

(* mapBlocksInFlight, the lists of the nodes and the counters agree in     *)
(* every reachable state, however peers come, answer and go: State() of a  *)
(* node that a block was asked of is never NULL, MarkBlockAsReceived finds *)
(* the request in that node's list, and nQueuedValidatedHeaders is never   *)
(* less than the number of validated requests.                             *)
THEOREM DownloadQueueExact == Spec => []QueueExact
<1>1. ASSUME DInv PROVE QueueExact
  <2>1. TypeOK /\ SyncExact /\ Books(Queue)
    BY <1>1, Typed DEF DInv
  <2>2. InFlightExact
    <3>1. ASSUME NEW b \in Blocks, NEW p \in NodeIds
          PROVE  mapBlocksInFlight[b] = p <=> p \in Connected /\ \E e \in Entries(p) : e.hash = b
      BY <1>1, FlightNow, Zenon DEF Entries
    <3>2. ASSUME NEW p \in Connected PROVE NodeBooks(mapNodeState[p])
      BY <1>1, QueueRead, NodeRead, Zenon
    <3> QED  BY <3>1, <3>2, Zenon DEF InFlightExact, NodeBooks, Entries
  <2>3. QueuedCounted
    <3>1. Listed(Queue) = UNION {Entries(p) : p \in Connected}
      BY <1>1, QueueRead, Zenon DEF Listed, Entries, Kept
    <3>2. ValidHeaders(Listed(Queue)) = Cardinality(Validated)
      BY <3>1, Zenon DEF ValidHeaders, Validated
    <3> QED  BY <2>1, <3>2 DEF QueuedCounted, Books, Queue
  <2> QED  BY <2>1, <2>2, <2>3, Zenon DEF QueueExact
<1> QED  BY <1>1, DownloadInvariant, PTL

(* Only a peer that owes a block is said to stall: the one that            *)
(* FindNextBlocksToDownload names was asked for a missing block, and       *)
(* MarkBlockAsReceived calls the stall off with any block of its list.     *)
THEOREM DownloadStallerOwes == Spec => []StallerOwes
<1>1. ASSUME DInv PROVE StallerOwes
  <2>1. \A p \in Connected : NodeBooks(mapNodeState[p])
    BY <1>1, QueueRead, NodeRead, Zenon
  <2> QED  BY <2>1, Zenon DEF StallerOwes, NodeBooks
<1> QED  BY <1>1, DownloadInvariant, PTL

(* pindexLastCommonBlock is a block that the peer has, and this node has   *)
(* it with all blocks below it: a reorganisation, an invalid block or a    *)
(* guess from chainActive never makes it one that is not shared.           *)
THEOREM DownloadCommonShared == Spec => []CommonShared
<1>1. ASSUME DInv PROVE CommonShared
  BY <1>1, Zenon DEF DInv, CommonShared, Shares
<1> QED  BY <1>1, DownloadInvariant, PTL

(* A block is asked for only when it is missing and nobody owes it, by     *)
(* SendMessages and by the inv handler: no request in flight is ever taken *)
(* over by another peer.                                                   *)
THEOREM DownloadRequestsNew == Spec => RequestsNew
<1>1. DInv /\ [Next]_vars =>
          [\A b \in Blocks :
               mapBlocksInFlight'[b] \notin {None, mapBlocksInFlight[b]}
                   => mapBlocksInFlight[b] = None /\ b \notin haveData']_vars
  BY DStep DEF AsksNew
<1> QED  BY <1>1, DownloadInvariant, PTL DEF Spec, RequestsNew

=============================================================================
