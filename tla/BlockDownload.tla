----------------------------- MODULE BlockDownload -----------------------------
(***************************************************************************)
(* Which block is asked of which peer (src/src/main.cpp: CNodeState,       *)
(* mapBlocksInFlight, FindNextBlocksToDownload, the inv, headers and block *)
(* messages, SendMessages).                                                *)
(*                                                                         *)
(* Handlers and SendMessages run one after the other in the message        *)
(* thread, under cs_main; a node is created and finalized by other         *)
(* threads, between any two of them, and one of those can raise            *)
(* fDisconnect at any time, after which no message of the peer is handled. *)
(* A peer may answer late, never, twice or unasked, and may answer with a  *)
(* block that does not pass CheckBlock.                                    *)
(* Time is abstract: a timeout may expire whenever one is running.         *)
(***************************************************************************)
EXTENDS BlockTree, FiniteSets

CONSTANTS
    NodeIds,                         \* one per connection, never used again
    None,                            \* NULL, the null hash, node -1
    Best,                            \* node -> the best tip that it ever has
    Has,                             \* node -> the blocks of all its chains
    Outbound,                        \* nodes that this one connected to
    Reliable,                        \* nodes that stay and answer in time
    TodayHeight, NearHeight,         \* blocks from these heights on are of today,
                                     \* of the last 20 block intervals
    MAX_BLOCKS_IN_TRANSIT_PER_PEER,
    BLOCK_DOWNLOAD_WINDOW,
    BanScore

VARIABLES
    unseen,                          \* nodes that have not connected yet
    mapNodeState,                    \* CNodeState of every connected node
    mapBlocksInFlight,               \* block -> node it was asked of
    nQueuedValidatedHeaders, nSyncStarted, nPreferredDownload,
    mapBlockIndex, haveData, failed, \* headers; BLOCK_HAVE_DATA; BLOCK_FAILED_MASK
    tip

queueVars == <<mapNodeState, mapBlocksInFlight, nQueuedValidatedHeaders>>
chainVars == <<mapBlockIndex, haveData, failed, tip>>
vars == <<unseen, queueVars, nSyncStarted, nPreferredDownload, chainVars>>

ASSUME DownloadAssumption ==
    /\ IsFiniteSet(Blocks) /\ IsFiniteSet(NodeIds)
    /\ Best \in [NodeIds -> Blocks] /\ Has \in [NodeIds -> SUBSET Blocks]
    /\ \A p \in NodeIds : Best[p] \in Has[p] /\ \A b \in Has[p] : Path[b] \subseteq Has[p]
    /\ Outbound \subseteq NodeIds /\ Reliable \subseteq NodeIds
    /\ None \notin NodeIds \cup Blocks
    /\ MAX_BLOCKS_IN_TRANSIT_PER_PEER \in Nat \ {0}
    /\ BLOCK_DOWNLOAD_WINDOW \in Nat \ {0}
    /\ BanScore \in Nat \ {0}

-----------------------------------------------------------------------------
Count(flag) == IF flag THEN 1 ELSE 0

(* The CNodeState constructor; nStallingSince is only ever asked whether   *)
(* it is 0, and the list vBlocksInFlight is a set: its order only decides  *)
(* which of the requests has its timeout tested.  The last three fields    *)
(* belong to CNode and to the connection: fDisconnect, version received,   *)
(* and, of a reliable peer, a getheaders not yet answered.                 *)
CNodeState ==
    [pindexBestKnownBlock |-> None, hashLastUnknownBlock |-> None,
     pindexLastCommonBlock |-> None, fSyncStarted |-> FALSE,
     nStallingSince |-> FALSE, vBlocksInFlight |-> {},
     nBlocksInFlight |-> 0, nBlocksInFlightValidHeaders |-> 0,
     fPreferredDownload |-> FALSE, nMisbehavior |-> 0, fShouldBan |-> FALSE,
     fDisconnect |-> FALSE, fVersion |-> FALSE, asked |-> FALSE]

(* All ancestors have data: nChainTx # 0.                                  *)
Linked(have, b) == Path[b] \subseteq have

IsInitialBlockDownload == nHeight[tip] < TodayHeight

pindexBestHeader ==
    CHOOSE h \in mapBlockIndex : \A g \in mapBlockIndex : nChainWork[g] <= nChainWork[h]

-----------------------------------------------------------------------------
(* The part of the state that MarkBlockAs... change, as one value.         *)
Queue ==
    [state |-> mapNodeState, flight |-> mapBlocksInFlight,
     queued |-> nQueuedValidatedHeaders]

SetQueue(q) ==
    /\ mapNodeState' = q.state
    /\ mapBlocksInFlight' = q.flight
    /\ nQueuedValidatedHeaders' = q.queued

SetState(q, p, s) ==
    [state |-> [q.state EXCEPT ![p] = s], flight |-> q.flight, queued |-> q.queued]

(* The entries of node p that stand for blocks of B, and the number of     *)
(* entries with a validated header.                                        *)
Owed(q, p, B) == {e \in q.state[p].vBlocksInFlight : e.hash \in B /\ q.flight[e.hash] = p}
ValidHeaders(S) == Cardinality({e \in S : e.fValidatedHeaders})

(* Mutant: the stall is not called off.                                    *)
SettleKeepsStall(s, owed) ==
    IF owed = {} THEN s ELSE
    [s EXCEPT !.vBlocksInFlight = @ \ owed,
              !.nBlocksInFlight = @ - Cardinality(owed),
              !.nBlocksInFlightValidHeaders = @ - ValidHeaders(owed)]

Settle(s, owed) ==
    IF owed = {} THEN s ELSE
    [s EXCEPT !.vBlocksInFlight = @ \ owed,
              !.nBlocksInFlight = @ - Cardinality(owed),
              !.nBlocksInFlightValidHeaders = @ - ValidHeaders(owed),
              !.nStallingSince = FALSE]

(* For every block of B: the node that it was asked of is off the hook.    *)
MarkBlockAsReceived(q, B) ==
    [state  |-> [p \in DOMAIN q.state |-> Settle(q.state[p], Owed(q, p, B))],
     flight |-> [b \in Blocks |-> IF b \in B THEN None ELSE q.flight[b]],
     queued |-> q.queued - ValidHeaders(UNION {Owed(q, p, B) : p \in DOMAIN q.state})]

Burden(s, new) ==
    [s EXCEPT !.vBlocksInFlight = @ \cup new,
              !.nBlocksInFlight = @ + Cardinality(new),
              !.nBlocksInFlightValidHeaders = @ + ValidHeaders(new)]

(* For every block of B, after it was taken off any other list.            *)
MarkBlockAsInFlight(q, p, B, validated) ==
    LET r   == MarkBlockAsReceived(q, B)
        new == {[hash |-> b, fValidatedHeaders |-> validated] : b \in B}
    IN  [state  |-> [r.state EXCEPT ![p] = Burden(@, new)],
         flight |-> [b \in Blocks |-> IF b \in B THEN p ELSE r.flight[b]],
         queued |-> r.queued + ValidHeaders(new)]

ProcessBlockAvailability(s) ==
    IF s.hashLastUnknownBlock \notin mapBlockIndex THEN s ELSE
    [s EXCEPT !.hashLastUnknownBlock = None,
              !.pindexBestKnownBlock =
                  IF @ = None \/ nChainWork[s.hashLastUnknownBlock] >= nChainWork[@]
                  THEN s.hashLastUnknownBlock ELSE @]

UpdateBlockAvailability(s, b) == [s EXCEPT !.hashLastUnknownBlock = b]

Highest(S) == CHOOSE b \in S : \A c \in S : nHeight[c] <= nHeight[b]
Lowest(S) == CHOOSE b \in S : \A c \in S : nHeight[b] <= nHeight[c]

(* chainActive[h].                                                         *)
chainActive(h) == CHOOSE b \in Path[tip] : nHeight[b] = h

(* Of the blocks on the way to the peer's best block: the ones that move   *)
(* pindexLastCommonBlock, and the ones to ask for.                         *)
Held(visited) == {b \in visited : Linked(haveData, b)}

(* Mutant: blocks asked of somebody else are asked for again.              *)
MissingOrAsked(visited) == visited \ haveData

Missing(visited) == {b \in visited \ haveData : mapBlocksInFlight[b] = None}

(* Mutant: the guess is taken as it is.                                    *)
LastCommonGuess(s) ==
    IF s.pindexLastCommonBlock # None THEN s.pindexLastCommonBlock
    ELSE chainActive(IF nHeight[s.pindexBestKnownBlock] < nHeight[tip]
                     THEN nHeight[s.pindexBestKnownBlock] ELSE nHeight[tip])

(* Where the walk to the peer's best block starts, with a guess if there   *)
(* was none before; it goes back if the peer has reorganised.  And the     *)
(* blocks it visits: it ends at a failed one, and one past the window.     *)
LastCommonAncestor(s) ==
    LET known == s.pindexBestKnownBlock
        guess == IF s.pindexLastCommonBlock # None THEN s.pindexLastCommonBlock
                 ELSE chainActive(IF nHeight[known] < nHeight[tip]
                                  THEN nHeight[known] ELSE nHeight[tip])
    IN  FindFork(guess, known)

Visited(common, known) ==
    LET walk == {b \in Path[known] :
                     nHeight[b] \in nHeight[common] + 1 ..
                                    nHeight[common] + BLOCK_DOWNLOAD_WINDOW + 1}
    IN  {b \in walk : Path[b] \cap walk \cap failed = {}}

(* The node that the lowest of the missing blocks in flight was asked of.  *)
waitingfor(visited) ==
    LET asked == {b \in visited \ haveData : mapBlocksInFlight[b] # None}
    IN  IF asked = {} THEN None ELSE mapBlocksInFlight[Lowest(asked)]

(* FindNextBlocksToDownload: the node's new state, the blocks to ask for,  *)
(* the lowest first, and the node that holds up the window.  A linked      *)
(* block is below every missing one, so the walk reaches it whatever ends  *)
(* the walk later.                                                         *)
FindNextBlocksToDownload(p, state, count) ==
    LET s     == ProcessBlockAvailability(state)
        known == s.pindexBestKnownBlock
    IN  IF known = None \/ nChainWork[known] < nChainWork[tip]
        THEN [state |-> s, vBlocks |-> {}, staller |-> None]
        ELSE
    LET common  == LastCommonAncestor(s)
        visited == Visited(common, known)
        missing == Missing(visited)
        wanted  == {b \in missing : nHeight[b] <= nHeight[common] + BLOCK_DOWNLOAD_WINDOW}
    IN  [state   |-> [s EXCEPT !.pindexLastCommonBlock = Highest(Held(visited) \cup {common})],
         vBlocks |-> {b \in wanted : Cardinality({c \in wanted : nHeight[c] < nHeight[b]}) < count},
         staller |-> IF wanted = {} /\ missing # {} /\ waitingfor(visited) # p
                     THEN waitingfor(visited) ELSE None]

-----------------------------------------------------------------------------
Init ==
    /\ unseen = NodeIds
    /\ mapNodeState = <<>>
    /\ mapBlocksInFlight = [b \in Blocks |-> None]
    /\ nQueuedValidatedHeaders = 0 /\ nSyncStarted = 0 /\ nPreferredDownload = 0
    /\ mapBlockIndex = {Genesis} /\ haveData = {Genesis} /\ failed = {}
    /\ tip = Genesis

Connected == DOMAIN mapNodeState

(* A new connection: CNode's constructor signals InitializeNode.           *)
InitializeNode(p) ==
    /\ p \in unseen
    /\ unseen' = unseen \ {p}
    /\ mapNodeState' = [n \in Connected \cup {p} |->
                            IF n = p THEN CNodeState ELSE mapNodeState[n]]
    /\ UNCHANGED <<mapBlocksInFlight, nQueuedValidatedHeaders, nSyncStarted,
                   nPreferredDownload, chainVars>>

(* The version message: UpdatePreferredDownload.                           *)
UpdatePreferredDownload(p) ==
    /\ ~mapNodeState[p].fVersion /\ ~mapNodeState[p].fDisconnect
    /\ mapNodeState' = [mapNodeState EXCEPT ![p].fVersion = TRUE,
                                            ![p].fPreferredDownload = p \in Outbound]
    /\ nPreferredDownload' = nPreferredDownload
           - Count(mapNodeState[p].fPreferredDownload) + Count(p \in Outbound)
    /\ UNCHANGED <<unseen, mapBlocksInFlight, nQueuedValidatedHeaders, nSyncStarted, chainVars>>

(* The socket is closed for a reason outside of block download.            *)
CloseSocketDisconnect(p) ==
    /\ p \notin Reliable
    /\ ~mapNodeState[p].fDisconnect
    /\ mapNodeState' = [mapNodeState EXCEPT ![p].fDisconnect = TRUE]
    /\ UNCHANGED <<unseen, mapBlocksInFlight, nQueuedValidatedHeaders, nSyncStarted,
                   nPreferredDownload, chainVars>>

(* Mutant: the requests stay in mapBlocksInFlight.                         *)
FinalizeNodeKeepsFlight(p) ==
    LET s == mapNodeState[p]
    IN  /\ s.fDisconnect
        /\ nSyncStarted' = nSyncStarted - Count(s.fSyncStarted)
        /\ nPreferredDownload' = nPreferredDownload - Count(s.fPreferredDownload)
        /\ mapNodeState' = [n \in Connected \ {p} |-> mapNodeState[n]]
        /\ UNCHANGED <<unseen, mapBlocksInFlight, nQueuedValidatedHeaders, chainVars>>

(* CNode's destructor; nQueuedValidatedHeaders is left as it is.           *)
FinalizeNode(p) ==
    LET s == mapNodeState[p]
    IN  /\ s.fDisconnect
        /\ nSyncStarted' = nSyncStarted - Count(s.fSyncStarted)
        /\ mapBlocksInFlight' = [b \in Blocks |->
               IF b \in {e.hash : e \in s.vBlocksInFlight} THEN None
               ELSE mapBlocksInFlight[b]]
        /\ nPreferredDownload' = nPreferredDownload - Count(s.fPreferredDownload)
        /\ mapNodeState' = [n \in Connected \ {p} |-> mapNodeState[n]]
        /\ UNCHANGED <<unseen, nQueuedValidatedHeaders, chainVars>>

-----------------------------------------------------------------------------
(* What a peer sends.  A reliable one announces its best block, and sends  *)
(* headers when it is asked to; any other may announce any of its blocks,  *)
(* in any order and on any branch, as it reorganises, and answer what was  *)
(* not asked.                                                              *)
Talks(p) == mapNodeState[p].fVersion /\ ~mapNodeState[p].fDisconnect

Announces(p, b) ==
    /\ Talks(p)
    /\ b \in Has[p] \ {Genesis}
    /\ p \in Reliable => b = Best[p]

AskDirectly(s) ==
    nHeight[tip] >= NearHeight /\ s.nBlocksInFlight < MAX_BLOCKS_IN_TRANSIT_PER_PEER

(* The inv message: an unknown block that nobody was asked for makes the   *)
(* node ask for headers and, close to the tip, for the block itself.       *)
Inv(p, b) ==
    LET s   == UpdateBlockAvailability(mapNodeState[p], b)
        new == b \notin mapBlockIndex /\ mapBlocksInFlight[b] = None
        q   == SetState(Queue, p, [s EXCEPT !.asked = @ \/ (new /\ p \in Reliable)])
    IN  /\ Announces(p, b)
        /\ UNCHANGED <<unseen, nSyncStarted, nPreferredDownload, chainVars>>
        /\ SetQueue(IF new /\ AskDirectly(s) THEN MarkBlockAsInFlight(q, p, {b}, FALSE) ELSE q)

(* The headers message, up to b.  AcceptBlockHeader refuses a new header   *)
(* on a failed block, which ends the message.  It refuses a header that is *)
(* marked failed itself too, but then `futureblock' has not been set when  *)
(* the handler tests it: the message ends or goes on.                      *)
AcceptBlockHeader(b) ==
    \/ b \in mapBlockIndex \ failed
    \/ b \notin mapBlockIndex /\ pprev[b] \in mapBlockIndex \ failed

Headers(p, b) ==
    LET s == [mapNodeState[p] EXCEPT !.asked = FALSE]
        refused == {h \in Path[b] \ mapBlockIndex : pprev[h] \in failed}
    IN  /\ Announces(p, b)
        /\ p \in Reliable => mapNodeState[p].asked
        /\ \/ /\ refused = {}
              /\ mapBlockIndex' = mapBlockIndex \cup Path[b]
              /\ mapNodeState' = [mapNodeState EXCEPT ![p] = UpdateBlockAvailability(s, b)]
           \/ /\ Path[b] \cap failed # {}
              /\ mapNodeState' = [mapNodeState EXCEPT ![p] = s]
              /\ UNCHANGED mapBlockIndex
        /\ UNCHANGED <<unseen, mapBlocksInFlight, nQueuedValidatedHeaders, nSyncStarted,
                       nPreferredDownload, haveData, failed, tip>>

(* ActivateBestChain, which ChainState models step by step: the heaviest   *)
(* chains are tried first, one with a block that does not connect is       *)
(* marked failed from there on, and the tip becomes the heaviest valid     *)
(* block; it stays where it is when nothing heavier was tried.             *)
Bad(b) == Path[b] \cap BadConnect # {}

ActivateBestChain(have) ==
    LET linked == {b \in have : Linked(have, b)}
        sound  == {b \in linked : ~Bad(b)}
        top    == {b \in sound : \A c \in sound : nChainWork[c] <= nChainWork[b]}
    IN  \E new \in top, tried \in SUBSET {b \in linked \ failed : Bad(b)} :
            /\ \A b \in linked \ failed : Bad(b) /\ nChainWork[b] > nChainWork[new] => b \in tried
            /\ \A b \in tried : \/ nChainWork[b] > nChainWork[new]
                                \/ nChainWork[b] = nChainWork[new] /\ tip \notin top
            /\ tip \in top /\ tried = {} => new = tip
            /\ tip' = new
            /\ failed' = failed \cup {b \in UNION {Path[c] : c \in tried} : Bad(b)}

(* AcceptBlock of an unrequested block: only new ones that lead.           *)
Unwanted(b, fRequested) ==
    \/ b \in haveData
    \/ /\ ~fRequested
       /\ \/ nChainWork[b] <= nChainWork[tip]
          \/ nHeight[b] > nHeight[tip] + BLOCK_DOWNLOAD_WINDOW

ProcessNewBlock(b, fRequested) ==
    IF ~AcceptBlockHeader(b) THEN UNCHANGED chainVars ELSE
    /\ mapBlockIndex' = mapBlockIndex \cup {b}
    /\ IF Unwanted(b, fRequested) THEN UNCHANGED <<haveData, failed, tip>>
       ELSE IF b \in BadContext
       THEN failed' = failed \cup {b} /\ UNCHANGED <<haveData, tip>>
       ELSE haveData' = haveData \cup {b} /\ ActivateBestChain(haveData \cup {b})

Misbehaving(s, howmuch) ==
    [s EXCEPT !.nMisbehavior = @ + howmuch,
              !.fShouldBan = @ \/ (/\ s.nMisbehavior + howmuch >= BanScore
                                   /\ s.nMisbehavior < BanScore)]

(* The block message.  The request is settled before the block is judged,  *)
(* whoever sent it; `checked' is the verdict of CheckBlock.                *)
Block(p, b, checked) ==
    LET q == MarkBlockAsReceived(Queue, {b})
    IN  /\ Talks(p)
        /\ b \in Has[p] \ {Genesis}
        /\ p \in Reliable => checked /\ mapBlocksInFlight[b] = p
        /\ IF checked
           THEN SetQueue(q) /\ ProcessNewBlock(b, mapBlocksInFlight[b] # None)
           ELSE /\ mapNodeState[p].nMisbehavior < BanScore
                /\ SetQueue(SetState(q, p, Misbehaving(q.state[p], 1)))
                /\ UNCHANGED chainVars
        /\ UNCHANGED <<unseen, nSyncStarted, nPreferredDownload>>

-----------------------------------------------------------------------------
(* SendMessages, in its order: a ban, the start of header synchronisation, *)
(* a timeout, requests.                                                    *)

(* Mutant: only when there is no preferred peer.                           *)
fFetchLast(s) == nPreferredDownload = 0

fFetch(s) == s.fPreferredDownload \/ nPreferredDownload = 0

StartsSync(s) ==
    /\ ~s.fSyncStarted
    /\ \/ nSyncStarted = 0 /\ fFetch(s)
       \/ nHeight[pindexBestHeader] >= TodayHeight

(* Mutant: only the stall has a timeout.                                   *)
MayExpireStalled(p, s) == p \notin Reliable /\ s.nStallingSince

(* A timeout runs while the peer is said to stall, or owes a block.        *)
MayExpire(p, s) == p \notin Reliable /\ (s.nStallingSince \/ s.vBlocksInFlight # {})

RequestBlocks(q, p) ==
    LET next == FindNextBlocksToDownload(p, q.state[p],
                    MAX_BLOCKS_IN_TRANSIT_PER_PEER - q.state[p].nBlocksInFlight)
        r    == MarkBlockAsInFlight(SetState(q, p, next.state), p, next.vBlocks, TRUE)
    IN  IF r.state[p].nBlocksInFlight = 0 /\ next.staller # None
        THEN SetState(r, next.staller, [r.state[next.staller] EXCEPT !.nStallingSince = TRUE])
        ELSE r

(* What comes before the requests; `late' is an expired timeout.           *)
BeforeRequests(p, s, late) ==
    [s EXCEPT !.fDisconnect = @ \/ s.fShouldBan \/ late, !.fShouldBan = FALSE,
              !.fSyncStarted = @ \/ StartsSync(s),
              !.asked = @ \/ (StartsSync(s) /\ p \in Reliable)]

(* What SendMessages leaves behind.                                        *)
Sent(p, late) ==
    LET s == mapNodeState[p]
        t == BeforeRequests(p, s, late)
        q == SetState(Queue, p, t)
    IN  IF /\ ~t.fDisconnect
           /\ fFetch(s) \/ ~IsInitialBlockDownload
           /\ s.nBlocksInFlight < MAX_BLOCKS_IN_TRANSIT_PER_PEER
        THEN RequestBlocks(q, p) ELSE q

SendMessages(p, late) ==
    /\ mapNodeState[p].fVersion
    /\ late => MayExpire(p, mapNodeState[p])
    /\ UNCHANGED <<unseen, nPreferredDownload, chainVars>>
    /\ nSyncStarted' = nSyncStarted + Count(StartsSync(mapNodeState[p]))
    /\ \E q \in {Sent(p, late)} : SetQueue(q)

-----------------------------------------------------------------------------
Next ==
    \/ \E p \in NodeIds : InitializeNode(p)
    \/ \E p \in Connected : UpdatePreferredDownload(p)
    \/ \E p \in Connected : CloseSocketDisconnect(p)
    \/ \E p \in Connected : FinalizeNode(p)
    \/ \E p \in Connected, b \in Blocks : Inv(p, b)
    \/ \E p \in Connected, b \in Blocks : Headers(p, b)
    \/ \E p \in Connected, b \in Blocks, checked \in BOOLEAN : Block(p, b, checked)
    \/ \E p \in Connected, late \in BOOLEAN : SendMessages(p, late)

Spec == Init /\ [][Next]_vars

(* Every thread keeps running, and time passes.  A reliable peer connects  *)
(* and completes the handshake, announces its best block, and answers      *)
(* every getheaders and every getdata.  Of any other peer nothing is       *)
(* assumed.                                                                *)
(*                                                                         *)
(* Weak fairness of a step that leaves itself disabled says that the step  *)
(* is not enabled for ever, and is written so.  FinalizeNode,              *)
(* InitializeNode, UpdatePreferredDownload, Headers, a timeout and the     *)
(* answer to a request are such steps.  SendMessages is one too once the   *)
(* window has stopped moving: a call that leaves another one something to  *)
(* do has moved pindexLastCommonBlock up the chain.                        *)
CanFinalize(p) == p \in Connected /\ mapNodeState[p].fDisconnect

CanSend(p) ==
    /\ p \in Connected
    /\ mapNodeState[p].fVersion
    /\ StartsSync(mapNodeState[p]) \/ Sent(p, FALSE) # Queue

(* The timeout of the request for b: it is tested when the requests before *)
(* it have been answered, and they have timeouts too.                      *)
CanExpire(p, b) ==
    /\ p \in Connected
    /\ Talks(p)
    /\ MayExpire(p, mapNodeState[p])
    /\ mapBlocksInFlight[b] = p

CanGreet(p) == p \in Connected /\ ~mapNodeState[p].fVersion /\ ~mapNodeState[p].fDisconnect

CanAnswer(p) == p \in Connected /\ Talks(p) /\ mapNodeState[p].asked

Fairness ==
    /\ \A p \in NodeIds : []<>~CanFinalize(p) /\ []<>~CanSend(p)
    /\ \A p \in NodeIds \ Reliable : \A b \in Has[p] : []<>~CanExpire(p, b)
    /\ \A p \in Reliable :
           /\ []<>(p \notin unseen)
           /\ []<>~CanGreet(p)
           /\ WF_vars(p \in Connected /\ Inv(p, Best[p]))
           /\ []<>~CanAnswer(p)
           /\ \A b \in Has[p] : []<>(mapBlocksInFlight[b] # p)

FairSpec == Spec /\ Fairness

-----------------------------------------------------------------------------
Entries(p) == mapNodeState[p].vBlocksInFlight
Validated == {e \in UNION {Entries(p) : p \in Connected} : e.fValidatedHeaders}

CNodeStates ==
    [pindexBestKnownBlock : Blocks \cup {None}, hashLastUnknownBlock : Blocks \cup {None},
     pindexLastCommonBlock : Blocks \cup {None}, fSyncStarted : BOOLEAN,
     nStallingSince : BOOLEAN,
     vBlocksInFlight : SUBSET [hash : Blocks, fValidatedHeaders : BOOLEAN],
     nBlocksInFlight : Int, nBlocksInFlightValidHeaders : Int,
     fPreferredDownload : BOOLEAN, nMisbehavior : Nat, fShouldBan : BOOLEAN,
     fDisconnect : BOOLEAN, fVersion : BOOLEAN, asked : BOOLEAN]

(* The types of the variables: what a node is said to have or to share is  *)
(* in the block index, and so is what has data or has failed.              *)
TypeOK ==
    /\ unseen \subseteq NodeIds
    /\ Connected \subseteq NodeIds \ unseen
    /\ mapNodeState \in [Connected -> CNodeStates]
    /\ \A p \in Connected :
           {mapNodeState[p].pindexBestKnownBlock, mapNodeState[p].pindexLastCommonBlock}
               \subseteq mapBlockIndex \cup {None}
    /\ mapBlocksInFlight \in [Blocks -> NodeIds \cup {None}]
    /\ nQueuedValidatedHeaders \in Int
    /\ nSyncStarted \in Nat /\ nPreferredDownload \in Nat
    /\ mapBlockIndex \subseteq Blocks
    /\ haveData \subseteq mapBlockIndex /\ failed \subseteq mapBlockIndex
    /\ tip \in haveData \ failed

(* mapBlocksInFlight and the lists of the nodes are the same relation: a   *)
(* block that is in flight is in the list of exactly one node, once, that  *)
(* node is still connected (State() of it is dereferenced unchecked), and  *)
(* the counters of the node count its list.                                *)
InFlightExact ==
    /\ \A b \in Blocks, p \in NodeIds :
           mapBlocksInFlight[b] = p
               <=> p \in Connected /\ \E e \in Entries(p) : e.hash = b
    /\ \A p \in Connected :
           /\ \A e, f \in Entries(p) : e.hash = f.hash => e = f
           /\ mapNodeState[p].nBlocksInFlight = Cardinality(Entries(p))
           /\ mapNodeState[p].nBlocksInFlightValidHeaders = ValidHeaders(Entries(p))

(* A peer that is accused of stalling owes a block, so that no peer is     *)
(* disconnected for stalling after it has answered everything.             *)
StallerOwes ==
    \A p \in Connected :
        mapNodeState[p].nStallingSince => mapNodeState[p].vBlocksInFlight # {}

(* pindexLastCommonBlock is "the last full block we both have": this node  *)
(* has it and all blocks below it, and it is on one of the chains that the *)
(* peer has had, although both reorganise.                                 *)
CommonShared ==
    \A p \in Connected :
        LET c == mapNodeState[p].pindexLastCommonBlock
        IN  c # None => Linked(haveData, c) /\ c \in Has[p]

(* nSyncStarted and nPreferredDownload count the connected nodes with the  *)
(* flag: when the node that headers were asked of goes away, another one   *)
(* is asked.                                                               *)
SyncExact ==
    /\ nSyncStarted = Cardinality({p \in Connected : mapNodeState[p].fSyncStarted})
    /\ nPreferredDownload = Cardinality({p \in Connected : mapNodeState[p].fPreferredDownload})

(* The validated requests in flight are all counted in                     *)
(* nQueuedValidatedHeaders: a timeout is never shorter than the load on    *)
(* the link calls for, and GetBlockTimeout never gets a negative number.   *)
QueuedCounted == nQueuedValidatedHeaders >= Cardinality(Validated)

(* The books of the downloads agree: map, lists and counters, however      *)
(* nodes come, answer and go.                                              *)
QueueExact == TypeOK /\ InFlightExact /\ SyncExact /\ QueuedCounted

(* nQueuedValidatedHeaders is the "number of blocks in flight with         *)
(* validated headers".                                                     *)
QueuedExact == nQueuedValidatedHeaders = Cardinality(Validated)

(* A block is asked for only when this node does not have it and nobody    *)
(* else owes it: a pending request is never taken from its peer by         *)
(* another request.                                                        *)
RequestsNew ==
    [][\A b \in Blocks :
           mapBlocksInFlight'[b] \notin {None, mapBlocksInFlight[b]}
               => mapBlocksInFlight[b] = None /\ b \notin haveData']_vars

(* The best block of the index that the node knows p to have announced.    *)
KnownWork(p) ==
    LET s == mapNodeState[p]
        known == {b \in mapBlockIndex : b \in {s.pindexBestKnownBlock, s.hashLastUnknownBlock}}
    IN  CHOOSE w \in {0} \cup {nChainWork[b] : b \in known} :
            \A b \in known : nChainWork[b] <= w

(* pindexBestKnownBlock is "the best known block we know this peer has     *)
(* announced": a later announcement never makes the node forget a better   *)
(* block that the peer has.                                                *)
BestAnnouncedKept ==
    [][\A p \in Connected : p \in DOMAIN mapNodeState' => KnownWork(p)' >= KnownWork(p)]_vars

(* Every request ends, with the block or with the end of the connection:   *)
(* no peer can hold a block back for good.                                 *)
RequestsEnd == []<>(\A b \in Blocks : mapBlocksInFlight[b] = None)

(* With one reliable preferred peer the node gets to a chain with at least *)
(* the work of that peer's, whatever other peers announce, withhold, send  *)
(* unasked or send broken.                                                 *)
Synced ==
    \A p \in Reliable \cap Outbound : <>[](nChainWork[tip] >= nChainWork[Best[p]])

=============================================================================
