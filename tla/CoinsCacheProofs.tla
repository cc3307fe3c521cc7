--------------------------- MODULE CoinsCacheProofs ---------------------------
(***************************************************************************)
(* CoinsCache for every set of transactions, nullifiers, roots and blocks: *)
(* what each action does to the caches and to what the layers show, the    *)
(* inductive invariant, what it implies, and the refinement of CoinsView.  *)
(*                                                                         *)
(* The state falls into four parts that an action touches separately: the  *)
(* coins, the nullifiers, the anchors, and the best hashes.  A part is     *)
(* "the same" when no layer changes its answers.                           *)
(***************************************************************************)
EXTENDS CoinsCache, TLAPS

CoinsSame ==
    \A t \in Txids : TipCoins(t)' = TipCoins(t) /\ ViewCoins(t)' = ViewCoins(t)

NullsSame ==
    \A n \in Nullifiers : /\ TipNullifier(n)' = TipNullifier(n)
                          /\ ViewNullifier(n)' = ViewNullifier(n)

RootsSame ==
    \A r \in Roots : /\ TipAnchorAt(r)' = TipAnchorAt(r)
                     /\ ViewAnchorAt(r)' = ViewAnchorAt(r)

BestSame == UNCHANGED <<TipBestAnchor, ViewBestAnchor, TipBestBlock, ViewBestBlock>>

Best == <<tip.hashBlock, tip.hashAnchor, view.hashBlock, view.hashAnchor>>

-----------------------------------------------------------------------------
(* A part none of whose maps changes stays coherent and the same.          *)
LEMMA CoinsFrame ==
    ASSUME CoherentCoins, UNCHANGED <<db.coins, tip.coins, view.coins>>
    PROVE  CoherentCoins' /\ CoinsSame
BY DEF CoherentCoins, CoinsSame, TipCoins, ViewCoins

LEMMA NullsFrame ==
    ASSUME CoherentNulls, UNCHANGED <<db.nulls, tip.nulls, view.nulls>>
    PROVE  CoherentNulls' /\ NullsSame
BY DEF CoherentNulls, NullsSame, TipNullifier, ViewNullifier

LEMMA RootsFrame ==
    ASSUME CoherentRoots, UNCHANGED <<db.roots, tip.roots, view.roots>>
    PROVE  CoherentRoots' /\ RootsSame
BY DEF CoherentRoots, RootsSame, TipAnchorAt, ViewAnchorAt, DbAnchorAt

LEMMA BestFrame ==
    ASSUME UNCHANGED <<db.hashBlock, db.hashAnchor, Best>>
    PROVE  BestSame /\ UNCHANGED DbBestAnchor
BY DEF Best, BestSame, TipBestAnchor, ViewBestAnchor, TipBestBlock, ViewBestBlock, DbBestAnchor

(* Anchors and best hashes the same: the invariants on them are kept.      *)
LEMMA AnchorFrame ==
    ASSUME TypeOK, BestAnchorReadable, RootsSame, BestSame,
           UNCHANGED <<db.roots, db.hashAnchor>>
    PROVE  BestAnchorReadable'
<1>1. /\ EmptyRoot \in Roots
      /\ DbBestAnchor \in Roots /\ TipBestAnchor \in Roots /\ ViewBestAnchor \in Roots
    BY CoinsAssumption DEF TypeOK, Caches, Entries, DbBestAnchor, TipBestAnchor, ViewBestAnchor
<1>2. DbAnchorAt(DbBestAnchor)'
    BY DEF BestAnchorReadable, DbAnchorAt, DbBestAnchor
<1>. QED BY <1>1, <1>2 DEF BestAnchorReadable, RootsSame, BestSame

(* The parts of what the view shows that stay the same.                    *)
LEMMA ViewRest ==
    /\ CoinsSame => UNCHANGED [t \in Txids |-> ViewCoins(t)]
    /\ NullsSame => UNCHANGED [n \in Nullifiers |-> ViewNullifier(n)]
    /\ RootsSame => UNCHANGED [r \in Roots |-> ViewAnchorAt(r)]
    /\ BestSame => UNCHANGED <<ViewBestAnchor, ViewBestBlock>>
BY DEF CoinsSame, NullsSame, RootsSame, BestSame

(* Every part the same: a stuttering step of CoinsView.                    *)
LEMMA Stutter ==
    ASSUME CoinsSame, NullsSame, RootsSame, BestSame, UNCHANGED <<db, open>>
    PROVE  UNCHANGED Promise!vars
<1>1. UNCHANGED DiskShown
    BY DEF DiskShown, DbAnchorAt, DbBestAnchor
<1>2. UNCHANGED TipShown
    BY DEF TipShown, CoinsSame, NullsSame, RootsSame, BestSame
<1>3. UNCHANGED ViewShown
    BY DEF ViewShown, CoinsSame, NullsSame, RootsSame, BestSame
<1>. QED BY <1>1, <1>2, <1>3 DEF Promise!vars

-----------------------------------------------------------------------------
LEMMA CopiedEntry ==
    ASSUME NEW c
    PROVE  /\ CoinsAgree(Copied(c), c)
           /\ Coins(Copied(c), c) = c
           /\ Copied(c).cached
           /\ c \in CCoins => Copied(c) \in Entries
BY Zenon DEF Copied, CoinsAgree, Coins, Entries

LEMMA FetchedType ==
    ASSUME TypeOK, NEW t \in Txids
    PROVE  TipFetched(t) \in Entries /\ TipAsked(t) \in Entries /\ ViewFetched(t) \in Entries
<1>1. tip.coins[t] \in Entries /\ view.coins[t] \in Entries /\ db.coins[t] \in CCoins
    BY DEF TypeOK, Caches
<1>2. TipCoins(t) \in CCoins
    BY <1>1 DEF TipCoins, Coins, Entries
<1>3. TipFetched(t) \in Entries
    BY <1>1, CopiedEntry DEF TipFetched
<1>. QED BY <1>1, <1>2, <1>3, CopiedEntry DEF TipAsked, ViewFetched

(* What is known of the coins of a coherent stack: asking for them changes *)
(* no answer.                                                              *)
LEMMA CoinFacts ==
    ASSUME TypeOK, CoherentCoins, NEW t \in Txids
    PROVE  /\ CoinsAgree(TipAsked(t), db.coins[t])
           /\ Coins(TipAsked(t), db.coins[t]) = TipCoins(t)
           /\ tip.coins[t].cached => TipAsked(t).cached
           /\ ~view.coins[t].cached /\ TipCoins(t) # Pruned => TipAsked(t).cached
           /\ CoinsAgree(ViewFetched(t), TipCoins(t))
           /\ Coins(ViewFetched(t), TipCoins(t)) = ViewCoins(t)
           /\ ViewFetched(t).cached /\ ~ViewFetched(t).fresh => TipAsked(t).cached
<1>1. /\ tip.coins[t] \in Entries /\ view.coins[t] \in Entries
      /\ CoinsAgree(tip.coins[t], db.coins[t])
      /\ CoinsAgree(view.coins[t], TipCoins(t))
      /\ view.coins[t].cached /\ ~view.coins[t].fresh => tip.coins[t].cached
    BY DEF TypeOK, Caches, CoherentCoins
<1>2. /\ CoinsAgree(TipFetched(t), db.coins[t])
      /\ Coins(TipFetched(t), db.coins[t]) = TipCoins(t)
      /\ TipFetched(t).cached \in BOOLEAN
      /\ tip.coins[t].cached => TipFetched(t).cached
      /\ TipCoins(t) # Pruned => TipFetched(t).cached
    BY <1>1, Zenon DEF TipFetched, Copied, TipCoins, Coins, CoinsAgree, Entries
<1>3. CASE view.coins[t].cached
    BY <1>1, <1>3 DEF TipAsked, ViewFetched, TipCoins, ViewCoins
<1>4. CASE ~view.coins[t].cached
  <2>1. TipAsked(t) = TipFetched(t)
      BY <1>4 DEF TipAsked
  <2>2. CASE TipFetched(t).cached
    <3>1. ViewFetched(t) = Copied(TipCoins(t))
        BY <1>4, <2>2 DEF ViewFetched
    <3>2. ViewCoins(t) = TipCoins(t)
        BY <1>4 DEF ViewCoins, Coins
    <3>. QED BY <1>2, <2>1, <2>2, <3>1, <3>2, CopiedEntry
  <2>3. CASE ~TipFetched(t).cached
    <3>1. ViewFetched(t) = view.coins[t]
        BY <2>3 DEF ViewFetched
    <3>. QED BY <1>1, <1>2, <1>4, <2>1, <3>1 DEF ViewCoins
  <2>. QED BY <2>2, <2>3
<1>. QED BY <1>1, <1>3, <1>4 DEF Entries

(* The same for the nullifiers and the anchors.                            *)
LEMMA RememberedFlag ==
    ASSUME NEW e \in Flags, NEW below \in BOOLEAN, FlagAgrees(e, below)
    PROVE  /\ Remembered(e, below) \in Flags
           /\ FlagAgrees(Remembered(e, below), below)
           /\ Flag(Remembered(e, below), below) = Flag(e, below)
           /\ Flag(e, below) \in BOOLEAN
BY DEF Remembered, Flag, Flags, FlagAgrees, NoFlag

LEMMA NullFacts ==
    ASSUME TypeOK, CoherentNulls, NEW n \in Nullifiers
    PROVE  /\ FlagAgrees(tip.nulls[n], db.nulls[n])
           /\ FlagAgrees(view.nulls[n], TipNullifier(n))
           /\ TipNullFetched(n) \in Flags
           /\ FlagAgrees(TipNullFetched(n), db.nulls[n])
           /\ Flag(TipNullFetched(n), db.nulls[n]) = TipNullifier(n)
           /\ ViewNullFetched(n) \in Flags
           /\ FlagAgrees(ViewNullFetched(n), TipNullifier(n))
           /\ Flag(ViewNullFetched(n), TipNullifier(n)) = ViewNullifier(n)
<1>1. tip.nulls[n] \in Flags /\ view.nulls[n] \in Flags /\ db.nulls[n] \in BOOLEAN
    BY DEF TypeOK, Caches
<1>2. FlagAgrees(tip.nulls[n], db.nulls[n]) /\ FlagAgrees(view.nulls[n], TipNullifier(n))
    BY DEF CoherentNulls
<1>3. /\ TipNullFetched(n) \in Flags
      /\ FlagAgrees(TipNullFetched(n), db.nulls[n])
      /\ Flag(TipNullFetched(n), db.nulls[n]) = TipNullifier(n)
      /\ TipNullifier(n) \in BOOLEAN
    BY <1>1, <1>2, RememberedFlag DEF TipNullFetched, TipNullifier
<1>4. /\ ViewNullFetched(n) \in Flags
      /\ FlagAgrees(ViewNullFetched(n), TipNullifier(n))
      /\ Flag(ViewNullFetched(n), TipNullifier(n)) = ViewNullifier(n)
    BY <1>1, <1>2, <1>3, RememberedFlag DEF ViewNullFetched, ViewNullifier
<1>. QED BY <1>2, <1>3, <1>4

LEMMA KeptFlag ==
    ASSUME NEW e \in Flags, NEW below \in BOOLEAN, FlagAgrees(e, below)
    PROVE  /\ Kept(e, below) \in Flags
           /\ FlagAgrees(Kept(e, below), below)
           /\ Flag(Kept(e, below), below) = Flag(e, below)
           /\ Flag(e, below) \in BOOLEAN
BY Zenon DEF Kept, Flag, Flags, FlagAgrees, NoFlag

(* What is known of the anchors of a coherent stack.                       *)
LEMMA RootFacts ==
    ASSUME TypeOK, CoherentRoots, NEW r \in Roots
    PROVE  /\ tip.roots[r] \in Flags /\ view.roots[r] \in Flags
           /\ DbAnchorAt(r) \in BOOLEAN
           /\ TipAnchorAt(r) \in BOOLEAN
           /\ FlagAgrees(tip.roots[r], DbAnchorAt(r))
           /\ FlagAgrees(view.roots[r], TipAnchorAt(r))
           /\ TipRootFetched(r) \in Flags
           /\ FlagAgrees(TipRootFetched(r), DbAnchorAt(r))
           /\ Flag(TipRootFetched(r), DbAnchorAt(r)) = TipAnchorAt(r)
           /\ ViewRootFetched(r) \in Flags
           /\ FlagAgrees(ViewRootFetched(r), TipAnchorAt(r))
           /\ Flag(ViewRootFetched(r), TipAnchorAt(r)) = ViewAnchorAt(r)
<1>1. tip.roots[r] \in Flags /\ view.roots[r] \in Flags /\ DbAnchorAt(r) \in BOOLEAN
    BY DEF TypeOK, Caches, Entries, DbAnchorAt
<1>2. FlagAgrees(tip.roots[r], DbAnchorAt(r)) /\ FlagAgrees(view.roots[r], TipAnchorAt(r))
    BY DEF CoherentRoots
<1>3. /\ TipRootFetched(r) \in Flags
      /\ FlagAgrees(TipRootFetched(r), DbAnchorAt(r))
      /\ Flag(TipRootFetched(r), DbAnchorAt(r)) = TipAnchorAt(r)
      /\ TipAnchorAt(r) \in BOOLEAN
    BY <1>1, <1>2, KeptFlag DEF TipRootFetched, TipAnchorAt
<1>4. /\ ViewRootFetched(r) \in Flags
      /\ FlagAgrees(ViewRootFetched(r), TipAnchorAt(r))
      /\ Flag(ViewRootFetched(r), TipAnchorAt(r)) = ViewAnchorAt(r)
    BY <1>1, <1>2, <1>3, KeptFlag DEF ViewRootFetched, ViewAnchorAt
<1>. QED BY <1>1, <1>2, <1>3, <1>4

-----------------------------------------------------------------------------
(* Reading a coin.                                                         *)
LEMMA FetchTipStep ==
    ASSUME IInv, NEW t \in Txids, FetchTip(t)
    PROVE  IInv' /\ UNCHANGED Promise!vars
<1> USE DEF IInv, Coherent
<1>1. /\ tip'.coins = [tip.coins EXCEPT ![t] = TipFetched(t)]
      /\ UNCHANGED <<tip.nulls, tip.roots, tip.hashBlock, tip.hashAnchor, db, view, open>>
    BY DEF FetchTip, TypeOK, Caches, Entries
<1>2. TypeOK'
    BY FetchedType DEF FetchTip, TypeOK, Caches
<1>3. ASSUME NEW s \in Txids
      PROVE  /\ TipCoins(s)' = TipCoins(s)
             /\ ViewCoins(s)' = ViewCoins(s)
             /\ CoinsAgree(tip'.coins[s], db.coins[s])
             /\ tip.coins[s].cached => tip'.coins[s].cached
    BY <1>1 DEF TipFetched, Copied, TypeOK, Caches, Entries, TipCoins, ViewCoins, Coins,
                CoherentCoins, CoinsAgree
<1>4. CoherentCoins' /\ CoinsSame
    BY <1>1, <1>3 DEF CoherentCoins, CoinsSame
<1>5. CoherentNulls' /\ NullsSame /\ CoherentRoots' /\ RootsSame
    BY <1>1, NullsFrame, RootsFrame
<1>6. BestSame /\ BestAnchorReadable' /\ NoAnchorYet'
    BY <1>1, <1>5, BestFrame, AnchorFrame DEF Best, NoAnchorYet, BestSame
<1>. QED BY <1>1, <1>2, <1>4, <1>5, <1>6, Stutter

LEMMA FetchViewStep ==
    ASSUME IInv, NEW t \in Txids, FetchView(t)
    PROVE  IInv' /\ UNCHANGED Promise!vars
<1> USE DEF IInv, Coherent
<1>1. /\ tip'.coins = [tip.coins EXCEPT ![t] = TipAsked(t)]
      /\ view'.coins = [view.coins EXCEPT ![t] = ViewFetched(t)]
      /\ UNCHANGED <<tip.nulls, tip.roots, tip.hashBlock, tip.hashAnchor, db, open>>
      /\ UNCHANGED <<view.nulls, view.roots, view.hashBlock, view.hashAnchor>>
    BY DEF FetchView, TypeOK, Caches, Entries
<1>2. TypeOK'
    BY FetchedType DEF FetchView, TypeOK, Caches
<1>3. ASSUME NEW s \in Txids
      PROVE  /\ TipCoins(s)' = TipCoins(s)
             /\ ViewCoins(s)' = ViewCoins(s)
             /\ CoinsAgree(tip'.coins[s], db.coins[s])
             /\ CoinsAgree(view'.coins[s], TipCoins(s))
             /\ view'.coins[s].cached /\ ~view'.coins[s].fresh => tip'.coins[s].cached
  <2>1. CASE s # t
      BY <1>1, <2>1 DEF TypeOK, Caches, TipCoins, ViewCoins, CoherentCoins
  <2>2. CASE s = t
    <3>1. tip'.coins[t] = TipAsked(t) /\ view'.coins[t] = ViewFetched(t)
        BY <1>1 DEF TypeOK, Caches
    <3>2. TipCoins(t)' = TipCoins(t)
        BY <1>1, <3>1, CoinFacts DEF TipCoins
    <3>3. ViewCoins(t)' = ViewCoins(t)
        BY <3>1, <3>2, CoinFacts DEF ViewCoins
    <3>. QED BY <2>2, <3>1, <3>2, <3>3, CoinFacts
  <2>. QED BY <2>1, <2>2
<1>4. CoherentCoins' /\ CoinsSame
    BY <1>1, <1>3 DEF CoherentCoins, CoinsSame
<1>5. CoherentNulls' /\ NullsSame /\ CoherentRoots' /\ RootsSame
    BY <1>1, NullsFrame, RootsFrame
<1>6. BestSame /\ BestAnchorReadable' /\ NoAnchorYet'
    BY <1>1, <1>5, BestFrame, AnchorFrame DEF Best, NoAnchorYet, BestSame
<1>. QED BY <1>1, <1>2, <1>4, <1>5, <1>6, Stutter

(* Changing a coin: the view shows the new one, and nothing else moves.    *)
LEMMA ModifyCoinsStep ==
    ASSUME IInv, NEW t \in Txids, NEW c \in CCoins, ModifyCoins(t, c)
    PROVE  IInv' /\ Promise!Next
<1> USE DEF IInv, Coherent
<1>1. /\ tip'.coins = [tip.coins EXCEPT ![t] = TipAsked(t)]
      /\ view'.coins = [view.coins EXCEPT ![t] = Modified(t, c)]
      /\ UNCHANGED <<tip.nulls, tip.roots, tip.hashBlock, tip.hashAnchor, db, open>>
      /\ UNCHANGED <<view.nulls, view.roots, view.hashBlock, view.hashAnchor>>
      /\ open
    BY DEF ModifyCoins, TypeOK, Caches, Entries
<1>2. TypeOK'
  <2>1. TipAsked(t) \in Entries
    BY DEF TipAsked, TipFetched, Copied, TypeOK, Caches, Entries
  <2>2. Modified(t, c) \in Entries
    BY CoinsAssumption, Zenon DEF Modified, NoCoins, TypeOK, Caches, Entries
  <2>. QED BY <2>1, <2>2, Zenon DEF ModifyCoins, TypeOK, Caches, Entries
<1>3. ASSUME NEW s \in Txids
      PROVE  /\ TipCoins(s)' = TipCoins(s)
             /\ ViewCoins(s)' = IF s = t THEN c ELSE ViewCoins(s)
             /\ CoinsAgree(tip'.coins[s], db.coins[s])
             /\ CoinsAgree(view'.coins[s], TipCoins(s))
             /\ view'.coins[s].cached /\ ~view'.coins[s].fresh => tip'.coins[s].cached
  <2>1. CASE s # t
    BY <1>1, <2>1 DEF TypeOK, Caches, Entries, TipCoins, ViewCoins, CoherentCoins
  <2>2. CASE s = t
    <3>1. tip'.coins[t] = TipAsked(t) /\ view'.coins[t] = Modified(t, c)
      BY <1>1 DEF TypeOK, Caches, Entries
    <3>2. TipAsked(t).cached \in BOOLEAN /\ view.coins[t].fresh \in BOOLEAN
      BY Zenon DEF TipAsked, TipFetched, Copied, TypeOK, Caches, Entries
    <3>3. /\ TipCoins(t)' = TipCoins(t)
          /\ CoinsAgree(TipAsked(t), db.coins[t])
          /\ ~view.coins[t].cached /\ TipCoins(t) # Pruned => TipAsked(t).cached
          /\ tip.coins[t].cached => TipAsked(t).cached
      <4>1. TipCoins(t)' = Coins(TipAsked(t), db.coins[t])
          BY <1>1, <3>1 DEF TipCoins
      <4>. QED BY <4>1, CoinFacts
    <3>4. ViewCoins(t)' = c
      <4>1. ViewCoins(t)' = Coins(Modified(t, c), TipCoins(t))
        BY <1>1, <3>1, <3>3 DEF ViewCoins
      <4>2. CoinsAgree(view.coins[t], TipCoins(t))
        BY DEF CoherentCoins
      <4>. QED BY <4>1, <4>2 DEF Modified, NoCoins, Coins, CoinsAgree
    <3>5. CoinsAgree(Modified(t, c), TipCoins(t))
      BY Zenon DEF Modified, NoCoins, CoherentCoins, CoinsAgree
    <3>6. Modified(t, c).cached /\ ~Modified(t, c).fresh => TipAsked(t).cached
      BY <3>2, <3>3, Zenon DEF Modified, NoCoins, CoherentCoins
    <3>. QED BY <2>2, <3>1, <3>3, <3>4, <3>5, <3>6
  <2>. QED BY <2>1, <2>2
<1>4. CoherentCoins'
    BY <1>1, <1>3 DEF CoherentCoins
<1>5. CoherentNulls' /\ NullsSame /\ CoherentRoots' /\ RootsSame
    BY <1>1, NullsFrame, RootsFrame
<1>6. BestSame /\ BestAnchorReadable' /\ NoAnchorYet'
    BY <1>1, <1>5, BestFrame, AnchorFrame DEF Best, NoAnchorYet, BestSame
<1>7. UNCHANGED <<DiskShown, TipShown>>
    BY <1>1, <1>3, <1>5, <1>6
       DEF DiskShown, TipShown, DbAnchorAt, DbBestAnchor, NullsSame, RootsSame, BestSame
<1>8. ViewShown' = [ViewShown EXCEPT !.coins[t] = c]
  <2>1. [s \in Txids |-> ViewCoins(s)]' = [[s \in Txids |-> ViewCoins(s)] EXCEPT ![t] = c]
    BY <1>3, Zenon
  <2> DEFINE f == [s \in Txids |-> ViewCoins(s)]
             g == [n \in Nullifiers |-> ViewNullifier(n)]
             h == [r \in Roots |-> ViewAnchorAt(r)]
  <2>2. ViewShown = [coins |-> f, spent |-> g, anchors |-> h,
                     anchor |-> ViewBestAnchor, block |-> ViewBestBlock]
    BY DEF ViewShown
  <2>3. ViewShown' = [coins |-> [f EXCEPT ![t] = c], spent |-> g, anchors |-> h,
                      anchor |-> ViewBestAnchor, block |-> ViewBestBlock]
    BY <1>5, <1>6, <2>1, ViewRest, Zenon DEF ViewShown
  <2> HIDE DEF f, g, h
  <2>. QED BY <2>2, <2>3
<1>. QED
    BY <1>1, <1>2, <1>4, <1>5, <1>6, <1>7, <1>8
       DEF Promise!Next, Promise!Write, Promise!WriteCoins

-----------------------------------------------------------------------------
(* Nullifiers.                                                             *)
LEMMA GetTipNullifierStep ==
    ASSUME IInv, NEW n \in Nullifiers, GetTipNullifier(n)
    PROVE  IInv' /\ UNCHANGED Promise!vars
<1> USE DEF IInv, Coherent
<1>1. /\ tip'.nulls = [tip.nulls EXCEPT ![n] = TipNullFetched(n)]
      /\ UNCHANGED <<tip.coins, tip.roots, tip.hashBlock, tip.hashAnchor, db, view, open>>
    BY DEF GetTipNullifier, TypeOK, Caches, Entries
<1>2. TypeOK'
  <2>1. TipNullFetched(n) \in Flags
    BY NullFacts
  <2>. QED BY <2>1, Zenon DEF GetTipNullifier, TypeOK, Caches, Entries
<1>3. ASSUME NEW m \in Nullifiers
      PROVE  /\ TipNullifier(m)' = TipNullifier(m)
             /\ ViewNullifier(m)' = ViewNullifier(m)
             /\ FlagAgrees(tip'.nulls[m], db.nulls[m])
  <2>1. tip'.nulls[m] \in {tip.nulls[m], TipNullFetched(m)}
      BY <1>1 DEF TypeOK, Caches
  <2>2. TipNullifier(m)' = TipNullifier(m) /\ FlagAgrees(tip'.nulls[m], db.nulls[m])
      BY <1>1, <2>1, NullFacts DEF TipNullifier
  <2>. QED BY <1>1, <2>2 DEF ViewNullifier
<1>4. CoherentNulls' /\ NullsSame
    BY <1>1, <1>3 DEF CoherentNulls, NullsSame
<1>5. CoherentCoins' /\ CoinsSame /\ CoherentRoots' /\ RootsSame
    BY <1>1, CoinsFrame, RootsFrame
<1>6. BestSame /\ BestAnchorReadable' /\ NoAnchorYet'
    BY <1>1, <1>5, BestFrame, AnchorFrame DEF Best, NoAnchorYet, BestSame
<1>. QED BY <1>1, <1>2, <1>4, <1>5, <1>6, Stutter

LEMMA GetViewNullifierStep ==
    ASSUME IInv, NEW n \in Nullifiers, GetViewNullifier(n)
    PROVE  IInv' /\ UNCHANGED Promise!vars
<1> USE DEF IInv, Coherent
<1>1. /\ tip'.nulls = [tip.nulls EXCEPT ![n] =
                         IF view.nulls[n].cached THEN tip.nulls[n] ELSE TipNullFetched(n)]
      /\ view'.nulls = [view.nulls EXCEPT ![n] = ViewNullFetched(n)]
      /\ UNCHANGED <<tip.coins, tip.roots, tip.hashBlock, tip.hashAnchor, db, open>>
      /\ UNCHANGED <<view.coins, view.roots, view.hashBlock, view.hashAnchor>>
    BY DEF GetViewNullifier, TypeOK, Caches, Entries
<1>2. TypeOK'
  <2>1. TipNullFetched(n) \in Flags /\ ViewNullFetched(n) \in Flags
    BY DEF TipNullFetched, TipNullifier, ViewNullFetched, Remembered, Flag,
           TypeOK, Caches, Entries, Flags
  <2>. QED BY <2>1, Zenon DEF GetViewNullifier, TypeOK, Caches, Entries
<1>3. ASSUME NEW m \in Nullifiers
      PROVE  /\ TipNullifier(m)' = TipNullifier(m)
             /\ ViewNullifier(m)' = ViewNullifier(m)
             /\ FlagAgrees(tip'.nulls[m], db.nulls[m])
             /\ FlagAgrees(view'.nulls[m], TipNullifier(m))
  <2>1. tip'.nulls[m] \in {tip.nulls[m], TipNullFetched(m)}
      BY <1>1 DEF TypeOK, Caches
  <2>2. view'.nulls[m] \in {view.nulls[m], ViewNullFetched(m)}
      BY <1>1 DEF TypeOK, Caches
  <2>3. db'.nulls[m] = db.nulls[m]
      BY <1>1
  <2>4. TipNullifier(m)' = TipNullifier(m) /\ FlagAgrees(tip'.nulls[m], db.nulls[m])
      BY <2>1, <2>3, NullFacts DEF TipNullifier
  <2>. QED BY <2>2, <2>4, NullFacts DEF ViewNullifier
<1>4. CoherentNulls' /\ NullsSame
    BY <1>1, <1>3 DEF CoherentNulls, NullsSame
<1>5. CoherentCoins' /\ CoinsSame /\ CoherentRoots' /\ RootsSame
    BY <1>1, CoinsFrame, RootsFrame
<1>6. BestSame /\ BestAnchorReadable' /\ NoAnchorYet'
    BY <1>1, <1>5, BestFrame, AnchorFrame DEF Best, NoAnchorYet, BestSame
<1>. QED BY <1>1, <1>2, <1>4, <1>5, <1>6, Stutter

LEMMA SetNullifierStep ==
    ASSUME IInv, NEW n \in Nullifiers, NEW spent \in BOOLEAN, SetNullifier(n, spent)
    PROVE  IInv' /\ Promise!Next
<1> USE DEF IInv, Coherent
<1>1. /\ view'.nulls = [view.nulls EXCEPT ![n] =
                          [cached |-> TRUE, entered |-> spent, dirty |-> TRUE]]
      /\ UNCHANGED <<view.coins, view.roots, view.hashBlock, view.hashAnchor, db, tip, open>>
      /\ open
    BY DEF SetNullifier, TypeOK, Caches, Entries
<1>2. TypeOK'
    BY Zenon DEF SetNullifier, TypeOK, Caches, Entries, Flags
<1>3. ASSUME NEW m \in Nullifiers
      PROVE  /\ TipNullifier(m)' = TipNullifier(m)
             /\ ViewNullifier(m)' = IF m = n THEN spent ELSE ViewNullifier(m)
             /\ FlagAgrees(view'.nulls[m], TipNullifier(m))
    BY <1>1 DEF TypeOK, Caches, Entries, Flags, TipNullifier, ViewNullifier, Flag,
                CoherentNulls, FlagAgrees
<1>4. CoherentNulls'
    BY <1>1, <1>3, Zenon DEF CoherentNulls
<1>5. CoherentCoins' /\ CoinsSame /\ CoherentRoots' /\ RootsSame
    BY <1>1, CoinsFrame, RootsFrame
<1>6. BestSame /\ BestAnchorReadable' /\ NoAnchorYet'
    BY <1>1, <1>5, BestFrame, AnchorFrame DEF Best, NoAnchorYet, BestSame
<1>7. UNCHANGED <<DiskShown, TipShown>>
    BY <1>1, <1>3, <1>5, <1>6
       DEF DiskShown, TipShown, DbAnchorAt, DbBestAnchor, CoinsSame, RootsSame, BestSame
<1>8. ViewShown' = [ViewShown EXCEPT !.spent[n] = spent]
  <2>1. [m \in Nullifiers |-> ViewNullifier(m)]'
            = [[m \in Nullifiers |-> ViewNullifier(m)] EXCEPT ![n] = spent]
    BY <1>3, Zenon
  <2> DEFINE f == [t \in Txids |-> ViewCoins(t)]
             g == [m \in Nullifiers |-> ViewNullifier(m)]
             h == [r \in Roots |-> ViewAnchorAt(r)]
  <2>2. ViewShown = [coins |-> f, spent |-> g, anchors |-> h,
                     anchor |-> ViewBestAnchor, block |-> ViewBestBlock]
    BY DEF ViewShown
  <2>3. ViewShown' = [coins |-> f, spent |-> [g EXCEPT ![n] = spent], anchors |-> h,
                      anchor |-> ViewBestAnchor, block |-> ViewBestBlock]
    BY <1>5, <1>6, <2>1, ViewRest, Zenon DEF ViewShown
  <2> HIDE DEF f, g, h
  <2>. QED BY <2>2, <2>3
<1>. QED
    BY <1>1, <1>2, <1>4, <1>5, <1>6, <1>7, <1>8
       DEF Promise!Next, Promise!Write, Promise!WriteNullifier

-----------------------------------------------------------------------------
(* Anchors and best hashes.                                                *)
LEMMA GetTipAnchorAtStep ==
    ASSUME IInv, NEW r \in Roots, GetTipAnchorAt(r)
    PROVE  IInv' /\ UNCHANGED Promise!vars
<1> USE DEF IInv, Coherent
<1>1. /\ tip'.roots = [tip.roots EXCEPT ![r] = TipRootFetched(r)]
      /\ UNCHANGED <<tip.coins, tip.nulls, tip.hashBlock, tip.hashAnchor, db, view, open>>
    BY DEF GetTipAnchorAt, TypeOK, Caches, Entries
<1>2. TypeOK'
    BY RootFacts, Zenon DEF GetTipAnchorAt, TypeOK, Caches, Entries
<1>3. ASSUME NEW q \in Roots
      PROVE  /\ TipAnchorAt(q)' = TipAnchorAt(q)
             /\ ViewAnchorAt(q)' = ViewAnchorAt(q)
             /\ FlagAgrees(tip.roots[q], DbAnchorAt(q))'
             /\ FlagAgrees(view.roots[q], TipAnchorAt(q))'
  <2>1. DbAnchorAt(q)' = DbAnchorAt(q) /\ view'.roots[q] = view.roots[q]
      BY <1>1 DEF DbAnchorAt
  <2>2. tip'.roots[q] = IF q = r THEN TipRootFetched(q) ELSE tip.roots[q]
      BY <1>1 DEF TypeOK, Caches, Entries
  <2>. QED BY <2>1, <2>2, RootFacts DEF TipAnchorAt, ViewAnchorAt
<1>4. CoherentRoots' /\ RootsSame
    BY <1>3 DEF CoherentRoots, RootsSame
<1>5. CoherentCoins' /\ CoinsSame /\ CoherentNulls' /\ NullsSame
    BY <1>1, CoinsFrame, NullsFrame
<1>6. BestSame /\ BestAnchorReadable' /\ NoAnchorYet'
    BY <1>1, <1>4, BestFrame, AnchorFrame DEF Best, NoAnchorYet, BestSame
<1>. QED BY <1>1, <1>2, <1>4, <1>5, <1>6, Stutter

LEMMA GetViewAnchorAtStep ==
    ASSUME IInv, NEW r \in Roots, GetViewAnchorAt(r)
    PROVE  IInv' /\ UNCHANGED Promise!vars
<1> USE DEF IInv, Coherent
<1>1. /\ tip'.roots = [tip.roots EXCEPT ![r] = TipRootAsked(r)]
      /\ view'.roots = [view.roots EXCEPT ![r] = ViewRootFetched(r)]
      /\ UNCHANGED <<tip.coins, tip.nulls, tip.hashBlock, tip.hashAnchor, db, open>>
      /\ UNCHANGED <<view.coins, view.nulls, view.hashBlock, view.hashAnchor>>
    BY DEF GetViewAnchorAt, TypeOK, Caches, Entries
<1>2. TypeOK'
    BY RootFacts, Zenon DEF GetViewAnchorAt, TipRootAsked, TypeOK, Caches, Entries
<1>3. ASSUME NEW q \in Roots
      PROVE  /\ TipAnchorAt(q)' = TipAnchorAt(q)
             /\ ViewAnchorAt(q)' = ViewAnchorAt(q)
             /\ FlagAgrees(tip.roots[q], DbAnchorAt(q))'
             /\ FlagAgrees(view.roots[q], TipAnchorAt(q))'
  <2>1. DbAnchorAt(q)' = DbAnchorAt(q)
      BY <1>1 DEF DbAnchorAt
  <2>a. DOMAIN tip.roots = Roots /\ DOMAIN view.roots = Roots
      BY DEF TypeOK, Caches
  <2> HIDE DEF IInv, Coherent
  <2>2. tip'.roots[q] \in {tip.roots[q], TipRootFetched(q)}
      BY <1>1, <2>a DEF TipRootAsked
  <2>3. view'.roots[q] \in {view.roots[q], ViewRootFetched(q)}
      BY <1>1, <2>a
  <2> USE DEF IInv, Coherent
  <2>. QED BY <2>1, <2>2, <2>3, RootFacts DEF TipAnchorAt, ViewAnchorAt
<1>4. CoherentRoots' /\ RootsSame
    BY <1>3 DEF CoherentRoots, RootsSame
<1>5. CoherentCoins' /\ CoinsSame /\ CoherentNulls' /\ NullsSame
    BY <1>1, CoinsFrame, NullsFrame
<1>6. BestSame /\ BestAnchorReadable' /\ NoAnchorYet'
    BY <1>1, <1>4, BestFrame, AnchorFrame DEF Best, NoAnchorYet, BestSame
<1>. QED BY <1>1, <1>2, <1>4, <1>5, <1>6, Stutter

LEMMA GetTipBestStep ==
    ASSUME IInv, GetTipBest
    PROVE  IInv' /\ UNCHANGED Promise!vars
<1> USE DEF IInv, Coherent
<1>1. /\ tip'.hashBlock = TipBestBlock /\ tip'.hashAnchor = TipBestAnchor
      /\ UNCHANGED <<tip.coins, tip.nulls, tip.roots, db, view, open>>
    BY DEF GetTipBest, TypeOK, Caches, Entries
<1>2. TypeOK'
    BY CoinsAssumption, Zenon DEF GetTipBest, TipBestBlock, TipBestAnchor, DbBestAnchor, TypeOK, Caches, Entries
<1>3. CoherentCoins' /\ CoinsSame /\ CoherentNulls' /\ NullsSame /\ CoherentRoots' /\ RootsSame
    BY <1>1, CoinsFrame, NullsFrame, RootsFrame
<1>4. BestSame /\ NoAnchorYet'
    BY <1>1 DEF BestSame, TipBestBlock, TipBestAnchor, ViewBestBlock, ViewBestAnchor,
                DbBestAnchor, NoAnchorYet
<1>5. BestAnchorReadable'
    BY <1>1, <1>3, <1>4, AnchorFrame
<1>. QED BY <1>1, <1>2, <1>3, <1>4, <1>5, Stutter

LEMMA GetViewBestStep ==
    ASSUME IInv, GetViewBest
    PROVE  IInv' /\ UNCHANGED Promise!vars
<1> USE DEF IInv, Coherent
<1>1. /\ tip'.hashBlock = IF view.hashBlock = Null THEN TipBestBlock ELSE tip.hashBlock
      /\ tip'.hashAnchor = TipAnchorAsked
      /\ view'.hashBlock = ViewBestBlock /\ view'.hashAnchor = ViewBestAnchor
      /\ UNCHANGED <<tip.coins, tip.nulls, tip.roots, db, open>>
      /\ UNCHANGED <<view.coins, view.nulls, view.roots>>
    BY DEF GetViewBest, TypeOK, Caches, Entries
<1>2. TypeOK'
  <2>1. /\ TipBestBlock \in Blocks \cup {Null} /\ ViewBestBlock \in Blocks \cup {Null}
        /\ tip.hashBlock \in Blocks \cup {Null}
      BY DEF TipBestBlock, ViewBestBlock, TypeOK, Caches
  <2>2. /\ TipAnchorAsked \in Roots \cup {Null} /\ ViewBestAnchor \in Roots \cup {Null}
      BY CoinsAssumption
         DEF TipAnchorAsked, ViewBestAnchor, TipBestAnchor, DbBestAnchor, TypeOK, Caches
  <2>. QED BY <2>1, <2>2, Zenon DEF GetViewBest, TypeOK, Caches
<1>3. CoherentCoins' /\ CoinsSame /\ CoherentNulls' /\ NullsSame /\ CoherentRoots' /\ RootsSame
    BY <1>1, CoinsFrame, NullsFrame, RootsFrame
<1>4. BestSame /\ NoAnchorYet'
    BY <1>1 DEF BestSame, TipAnchorAsked, TipBestBlock, TipBestAnchor, ViewBestBlock,
                ViewBestAnchor, DbBestAnchor, NoAnchorYet
<1>5. BestAnchorReadable'
    BY <1>1, <1>3, <1>4, AnchorFrame
<1>. QED BY <1>1, <1>2, <1>3, <1>4, <1>5, Stutter

-----------------------------------------------------------------------------
(* Writing an anchor or the best block in the view.                        *)
LEMMA PushAnchorStep ==
    ASSUME IInv, NEW r \in Roots, PushAnchor(r)
    PROVE  IInv' /\ Promise!Next
<1> USE DEF IInv, Coherent
<1>1. /\ tip'.hashAnchor = TipAnchorAsked
      /\ view'.hashAnchor = r
      /\ UNCHANGED <<tip.coins, tip.nulls, tip.roots, tip.hashBlock, db, open>>
      /\ UNCHANGED <<view.coins, view.nulls, view.hashBlock>>
    BY DEF PushAnchor, TypeOK, Caches, Entries
<1>2. ASSUME NEW q \in Roots
      PROVE  view'.roots[q] = IF q = r /\ r # ViewBestAnchor
                              THEN [cached |-> TRUE, entered |-> TRUE, dirty |-> TRUE]
                              ELSE view.roots[q]
    BY DEF PushAnchor, TypeOK, Caches, Entries
<1>3. TypeOK'
  <2>1. TipAnchorAsked \in Roots \cup {Null}
      BY CoinsAssumption DEF TipAnchorAsked, TipBestAnchor, DbBestAnchor, TypeOK, Caches, Entries
  <2>2. [cached |-> TRUE, entered |-> TRUE, dirty |-> TRUE] \in Flags
      BY DEF Flags
  <2>. QED BY <2>1, <2>2, Zenon DEF PushAnchor, TypeOK, Caches, Entries
<1>4. /\ TipBestAnchor' = TipBestAnchor /\ ViewBestAnchor' = r
      /\ UNCHANGED <<TipBestBlock, ViewBestBlock, DbBestAnchor>>
      /\ NoAnchorYet'
    BY <1>1, CoinsAssumption
       DEF TipAnchorAsked, TipBestAnchor, ViewBestAnchor, TipBestBlock, ViewBestBlock,
           DbBestAnchor, NoAnchorYet
<1>5. ASSUME NEW q \in Roots
      PROVE  /\ DbAnchorAt(q)' = DbAnchorAt(q)
             /\ TipAnchorAt(q)' = TipAnchorAt(q)
             /\ ViewAnchorAt(q)' = IF q = r THEN TRUE ELSE ViewAnchorAt(q)
             /\ FlagAgrees(tip.roots[q], DbAnchorAt(q))'
             /\ FlagAgrees(view.roots[q], TipAnchorAt(q))'
  <2>1. DbAnchorAt(q)' = DbAnchorAt(q) /\ TipAnchorAt(q)' = TipAnchorAt(q)
      BY <1>1 DEF DbAnchorAt, TipAnchorAt
  <2>2. CASE q = r /\ r # ViewBestAnchor
    <3>1. view'.roots[q] = [cached |-> TRUE, entered |-> TRUE, dirty |-> TRUE]
        BY <1>2, <2>2
    <3>2. ViewAnchorAt(q)' = TRUE
        BY <3>1 DEF ViewAnchorAt, Flag
    <3>3. FlagAgrees(view.roots[q], TipAnchorAt(q))'
        BY <3>1 DEF FlagAgrees
    <3>. QED BY <1>1, <2>1, <2>2, <3>2, <3>3, RootFacts
  <2>3. CASE ~(q = r /\ r # ViewBestAnchor)
    <3>1. view'.roots[q] = view.roots[q] /\ ViewAnchorAt(q)' = ViewAnchorAt(q)
        BY <1>2, <2>1, <2>3 DEF ViewAnchorAt
    <3>2. q = r => ViewAnchorAt(q) = TRUE
        BY <2>3, RootFacts DEF BestAnchorReadable, ViewAnchorAt, Flag, Flags
    <3>. QED BY <1>1, <2>1, <3>1, <3>2, RootFacts, Zenon
  <2>. QED BY <2>2, <2>3, Zenon
<1>6. CoherentRoots'
    BY <1>5, Zenon DEF CoherentRoots
<1>7. BestAnchorReadable'
  <2>1. EmptyRoot \in Roots /\ DbBestAnchor \in Roots /\ TipBestAnchor \in Roots
      BY CoinsAssumption DEF TypeOK, Caches, Entries, DbBestAnchor, TipBestAnchor
  <2>. QED BY <1>4, <1>5, <2>1, Zenon DEF BestAnchorReadable
<1>8. CoherentCoins' /\ CoinsSame /\ CoherentNulls' /\ NullsSame
    BY <1>1, CoinsFrame, NullsFrame
<1>9. Promise!Next
  <2>1. UNCHANGED DiskShown
      BY <1>1, <1>4, <1>5, Zenon DEF DiskShown
  <2>2. UNCHANGED TipShown
      BY <1>4, <1>5, <1>8, Zenon DEF TipShown, CoinsSame, NullsSame
  <2>3. ViewShown' = Promise!Anchored([ViewShown.anchors EXCEPT ![r] = TRUE], r)
    <3>1. ViewShown.anchors = [q \in Roots |-> ViewAnchorAt(q)]
        BY DEF ViewShown
    <3>2. [q \in Roots |-> ViewAnchorAt(q)'] = [ViewShown.anchors EXCEPT ![r] = TRUE]
        BY <1>5, <3>1, Zenon
    <3>3. UNCHANGED <<ViewShown.coins, ViewShown.spent, ViewBestBlock>>
        BY <1>4, <1>8 DEF ViewShown, CoinsSame, NullsSame
    <3>. QED BY <1>4, <3>2, <3>3, Zenon DEF ViewShown, Promise!Anchored
  <2>. QED BY <1>1, <2>1, <2>2, <2>3, Zenon DEF Promise!Next, Promise!Write, Promise!PushAnchor, PushAnchor
<1>. QED BY <1>3, <1>4, <1>6, <1>7, <1>8, <1>9

LEMMA SetBestBlockStep ==
    ASSUME IInv, NEW b \in Blocks, SetBestBlock(b)
    PROVE  IInv' /\ Promise!Next
<1> USE DEF IInv, Coherent
<1>1. /\ view'.hashBlock = b
      /\ UNCHANGED <<db, tip, open, view.coins, view.nulls, view.roots, view.hashAnchor>>
    BY DEF SetBestBlock, TypeOK, Caches, Entries
<1>2. TypeOK'
    BY Zenon DEF SetBestBlock, TypeOK, Caches, Entries
<1>3. CoherentCoins' /\ CoinsSame /\ CoherentNulls' /\ NullsSame /\ CoherentRoots' /\ RootsSame
    BY <1>1, CoinsFrame, NullsFrame, RootsFrame
<1>4. /\ UNCHANGED <<TipBestAnchor, ViewBestAnchor, TipBestBlock, DbBestAnchor>>
      /\ ViewBestBlock' = b
      /\ NoAnchorYet'
    BY <1>1, CoinsAssumption
       DEF TipBestAnchor, ViewBestAnchor, TipBestBlock, ViewBestBlock, DbBestAnchor, NoAnchorYet
<1>5. BestAnchorReadable'
  <2>1. /\ EmptyRoot \in Roots
        /\ TipBestAnchor \in Roots /\ ViewBestAnchor \in Roots
      BY CoinsAssumption DEF TypeOK, Caches, Entries, DbBestAnchor, TipBestAnchor, ViewBestAnchor
  <2>2. DbAnchorAt(DbBestAnchor)'
      BY <1>1 DEF BestAnchorReadable, DbAnchorAt, DbBestAnchor
  <2>. QED BY <1>3, <1>4, <2>1, <2>2 DEF BestAnchorReadable, RootsSame
<1>6. Promise!Next
  <2>1. UNCHANGED DiskShown /\ UNCHANGED TipShown
      BY <1>1 DEF DiskShown, DbAnchorAt, DbBestAnchor, TipShown, TipCoins, TipNullifier,
                  TipAnchorAt, TipBestAnchor, TipBestBlock
  <2>2. ViewShown' = [ViewShown EXCEPT !.block = b]
    <3> DEFINE f == [t \in Txids |-> ViewCoins(t)]
               g == [n \in Nullifiers |-> ViewNullifier(n)]
               h == [q \in Roots |-> ViewAnchorAt(q)]
    <3>1. UNCHANGED <<f, g, h>> /\ ViewBestAnchor' = ViewBestAnchor
        BY <1>3, <1>4 DEF CoinsSame, NullsSame, RootsSame
    <3>2. ViewShown = [coins |-> f, spent |-> g, anchors |-> h, anchor |-> ViewBestAnchor,
                       block |-> ViewBestBlock]
        BY DEF ViewShown
    <3>3. ViewShown' = [coins |-> f', spent |-> g', anchors |-> h', anchor |-> ViewBestAnchor',
                        block |-> b]
        BY <1>4 DEF ViewShown
    <3> HIDE DEF f, g, h
    <3>. QED BY <3>1, <3>2, <3>3
  <2>. QED BY <1>1, <2>1, <2>2 DEF Promise!Next, Promise!Write, Promise!WriteBlock, SetBestBlock
<1>. QED BY <1>2, <1>3, <1>4, <1>5, <1>6

(* Popping back to the anchor that is best already changes no answer; any  *)
(* other pop withdraws the best anchor and leaves the rest.                *)
LEMMA PopAnchorStep ==
    ASSUME IInv, NEW r \in Roots, MayPop(r), PopAnchor(r)
    PROVE  IInv' /\ [Promise!Next]_(Promise!vars)
<1> USE DEF IInv, Coherent
<1> DEFINE best == ViewBestAnchor
<1>0. /\ best \in Roots /\ EmptyRoot \in Roots
      /\ DbBestAnchor \in Roots /\ TipBestAnchor \in Roots
    BY CoinsAssumption DEF TypeOK, Caches, Entries, DbBestAnchor, TipBestAnchor, ViewBestAnchor
<1>1. /\ tip'.hashAnchor = TipAnchorAsked
      /\ view'.hashAnchor = r
      /\ UNCHANGED <<tip.coins, tip.nulls, tip.hashBlock, db, open>>
      /\ UNCHANGED <<view.coins, view.nulls, view.hashBlock>>
      /\ open
    BY DEF PopAnchor, TypeOK, Caches, Entries
<1>2. ASSUME NEW q \in Roots
      PROVE  /\ tip'.roots[q] = IF q = best /\ r # best THEN TipRootAsked(q) ELSE tip.roots[q]
             /\ view'.roots[q] = IF q = best /\ r # best
                                 THEN [cached |-> TRUE, entered |-> FALSE, dirty |-> TRUE]
                                 ELSE view.roots[q]
    BY <1>0 DEF PopAnchor, TypeOK, Caches, Entries
<1>3. TypeOK'
  <2>1. TipAnchorAsked \in Roots \cup {Null}
      BY CoinsAssumption DEF TipAnchorAsked, TipBestAnchor, DbBestAnchor, TypeOK, Caches, Entries
  <2>2. [cached |-> TRUE, entered |-> FALSE, dirty |-> TRUE] \in Flags
      BY DEF Flags
  <2>3. TipRootAsked(best) \in Flags
      BY <1>0, RootFacts DEF TipRootAsked
  <2>. QED BY <1>0, <2>1, <2>2, <2>3, Zenon DEF PopAnchor, TypeOK, Caches, Entries
<1>4. /\ TipBestAnchor' = TipBestAnchor /\ ViewBestAnchor' = r
      /\ UNCHANGED <<TipBestBlock, ViewBestBlock, DbBestAnchor>>
      /\ NoAnchorYet'
    BY <1>1, CoinsAssumption
       DEF TipAnchorAsked, TipBestAnchor, ViewBestAnchor, TipBestBlock, ViewBestBlock,
           DbBestAnchor, NoAnchorYet
<1>5. ASSUME NEW q \in Roots
      PROVE  /\ DbAnchorAt(q)' = DbAnchorAt(q)
             /\ TipAnchorAt(q)' = TipAnchorAt(q)
             /\ ViewAnchorAt(q)' = IF q = best /\ r # best THEN FALSE ELSE ViewAnchorAt(q)
             /\ FlagAgrees(tip.roots[q], DbAnchorAt(q))'
             /\ FlagAgrees(view.roots[q], TipAnchorAt(q))'
  <2>1. DbAnchorAt(q)' = DbAnchorAt(q)
      BY <1>1 DEF DbAnchorAt
  <2>2. tip'.roots[q] \in {tip.roots[q], TipRootFetched(q)}
      BY <1>2 DEF TipRootAsked
  <2>3. TipAnchorAt(q)' = TipAnchorAt(q) /\ FlagAgrees(tip.roots[q], DbAnchorAt(q))'
      BY <2>1, <2>2, RootFacts DEF TipAnchorAt
  <2>4. CASE q = best /\ r # best
    <3>1. view'.roots[q] = [cached |-> TRUE, entered |-> FALSE, dirty |-> TRUE]
        BY <1>2, <2>4
    <3>2. ViewAnchorAt(q)' = FALSE
        BY <3>1 DEF ViewAnchorAt, Flag
    <3>3. FlagAgrees(view.roots[q], TipAnchorAt(q))'
        BY <3>1 DEF FlagAgrees
    <3>. QED BY <2>1, <2>3, <2>4, <3>2, <3>3, Zenon
  <2>5. CASE ~(q = best /\ r # best)
    <3>1. view'.roots[q] = view.roots[q]
        BY <1>2, <2>5
    <3>. QED BY <2>1, <2>3, <2>5, <3>1, RootFacts, Zenon DEF ViewAnchorAt
  <2>. QED BY <2>4, <2>5, Zenon
<1>6. CoherentRoots'
    BY <1>5, Zenon DEF CoherentRoots
<1>7. BestAnchorReadable'
  <2>1. DbAnchorAt(DbBestAnchor)' /\ TipAnchorAt(TipBestAnchor)' /\ TipAnchorAt(EmptyRoot)'
      BY <1>0, <1>4, <1>5, Zenon DEF BestAnchorReadable
  <2>2. ViewAnchorAt(r)' /\ ViewAnchorAt(EmptyRoot)'
      BY <1>0, <1>5, Zenon DEF BestAnchorReadable, MayPop
  <2>. QED BY <1>4, <2>1, <2>2 DEF BestAnchorReadable
<1>8. CoherentCoins' /\ CoinsSame /\ CoherentNulls' /\ NullsSame
    BY <1>1, CoinsFrame, NullsFrame
<1>9. CASE r = best
  <2>1. RootsSame /\ BestSame
      BY <1>4, <1>5, <1>9 DEF RootsSame, BestSame
  <2>. QED BY <1>1, <1>3, <1>4, <1>6, <1>7, <1>8, <2>1, Stutter
<1>10. CASE r # best
  <2>1. UNCHANGED DiskShown
      BY <1>1, <1>4, <1>5, Zenon DEF DiskShown
  <2>2. UNCHANGED TipShown
      BY <1>4, <1>5, <1>8, Zenon DEF TipShown, CoinsSame, NullsSame
  <2>3. ViewShown' = Promise!Anchored([ViewShown.anchors EXCEPT ![ViewShown.anchor] = FALSE], r)
    <3>1. ViewShown.anchors = [q \in Roots |-> ViewAnchorAt(q)] /\ ViewShown.anchor = best
        BY DEF ViewShown
    <3>2. [q \in Roots |-> ViewAnchorAt(q)'] = [ViewShown.anchors EXCEPT ![ViewShown.anchor] = FALSE]
        BY <1>5, <1>10, <3>1, Zenon
    <3>3. UNCHANGED <<ViewShown.coins, ViewShown.spent, ViewBestBlock>>
        BY <1>4, <1>8 DEF ViewShown, CoinsSame, NullsSame
    <3>. QED BY <1>4, <3>2, <3>3, Zenon DEF ViewShown, Promise!Anchored
  <2>4. ViewShown.anchors[r] /\ r # ViewShown.anchor
      BY <1>10 DEF MayPop, ViewShown
  <2>5. Promise!PopAnchor
      BY <2>3, <2>4 DEF Promise!PopAnchor
  <2>6. Promise!Next
      BY <1>1, <2>1, <2>2, <2>5 DEF Promise!Next, Promise!Write
  <2>. QED BY <1>3, <1>4, <1>6, <1>7, <1>8, <2>6
<1>. QED BY <1>9, <1>10

-----------------------------------------------------------------------------
(* An empty view shows what pcoinsTip shows, and what is known of pcoinsTip *)
(* carries over to it.                                                     *)
LEMMA EmptyViewShows ==
    ASSUME view = NewCache
    PROVE  ViewShown = TipShown
<1>1. /\ \A t \in Txids : ViewCoins(t) = TipCoins(t)
      /\ \A n \in Nullifiers : ViewNullifier(n) = TipNullifier(n)
      /\ \A r \in Roots : ViewAnchorAt(r) = TipAnchorAt(r)
    BY DEF NewCache, Cleared, NoCoins, NoFlag, ViewCoins, ViewNullifier, ViewAnchorAt, Coins, Flag
<1>2. ViewBestAnchor = TipBestAnchor /\ ViewBestBlock = TipBestBlock
    BY DEF NewCache, Cleared, ViewBestAnchor, ViewBestBlock
<1>. QED BY <1>1, <1>2 DEF ViewShown, TipShown

LEMMA NothingCached ==
    ASSUME NEW below
    PROVE  /\ CoinsAgree(NoCoins, below) /\ ~NoCoins.cached /\ FlagAgrees(NoFlag, below)
           /\ Coins(NoCoins, below) = below /\ Flag(NoFlag, below) = below
BY DEF CoinsAgree, FlagAgrees, Coins, Flag, NoCoins, NoFlag

(* What a flush writes for an entry is what its layer showed.              *)
LEMMA FlushedEntry ==
    ASSUME NEW e, NEW below
    PROVE  /\ CoinsAgree(e, below) => (IF e.dirty THEN e.coins ELSE below) = Coins(e, below)
           /\ FlagAgrees(e, below) => (IF e.dirty THEN e.entered ELSE below) = Flag(e, below)
BY DEF CoinsAgree, FlagAgrees, Coins, Flag, NoCoins, NoFlag

LEMMA EmptyViewNext ==
    ASSUME TypeOK', view' = NewCache,
           \A t \in Txids : CoinsAgree(tip.coins[t], db.coins[t])',
           \A n \in Nullifiers : FlagAgrees(tip.nulls[n], db.nulls[n])',
           \A r \in Roots : FlagAgrees(tip.roots[r], DbAnchorAt(r))',
           DbAnchorAt(DbBestAnchor)', TipAnchorAt(TipBestAnchor)', TipAnchorAt(EmptyRoot)'
    PROVE  Coherent' /\ BestAnchorReadable' /\ ViewShown' = TipShown'
<1>1. /\ \A t \in Txids : view'.coins[t] = NoCoins
      /\ \A n \in Nullifiers : view'.nulls[n] = NoFlag
      /\ \A r \in Roots : view'.roots[r] = NoFlag
      /\ view'.hashBlock = Null /\ view'.hashAnchor = Null
    BY DEF NewCache, Cleared
<1>2. /\ \A t \in Txids : ViewCoins(t)' = TipCoins(t)'
      /\ \A n \in Nullifiers : ViewNullifier(n)' = TipNullifier(n)'
      /\ \A r \in Roots : ViewAnchorAt(r)' = TipAnchorAt(r)'
    BY <1>1, NothingCached DEF ViewCoins, ViewNullifier, ViewAnchorAt
<1>3. ViewBestAnchor' = TipBestAnchor' /\ ViewBestBlock' = TipBestBlock'
    BY <1>1 DEF ViewBestAnchor, ViewBestBlock
<1>4. CoherentCoins'
  <2>1. \A t \in Txids : CoinsAgree(view.coins[t], TipCoins(t))' /\ ~view'.coins[t].cached
      BY <1>1, NothingCached
  <2>. QED BY <2>1 DEF CoherentCoins
<1>5. CoherentNulls' /\ CoherentRoots'
    BY <1>1, NothingCached DEF CoherentNulls, CoherentRoots
<1>6. BestAnchorReadable'
  <2>1. TipBestAnchor' \in Roots /\ EmptyRoot \in Roots
      BY CoinsAssumption DEF TypeOK, Caches, Entries, TipBestAnchor, DbBestAnchor
  <2>. QED BY <1>2, <1>3, <2>1 DEF BestAnchorReadable
<1>7. ViewShown' = TipShown'
    BY <1>2, <1>3 DEF ViewShown, TipShown
<1>. QED BY <1>4, <1>5, <1>6, <1>7 DEF Coherent

LEMMA NewCacheType == NewCache \in Caches
<1>1. NoCoins \in Entries
    BY CoinsAssumption DEF NoCoins, Entries
<1>2. NoFlag \in Flags
    BY DEF NoFlag, Flags
<1>. QED BY <1>1, <1>2 DEF NewCache, Cleared, Caches, Entries

(* A new view changes no answer; a view that is thrown away leaves         *)
(* pcoinsTip's.                                                            *)
LEMMA OpenViewStep ==
    ASSUME IInv, OpenView
    PROVE  IInv' /\ Promise!Next
<1> USE DEF IInv, Coherent
<1>1. UNCHANGED <<db, tip, view>> /\ ~open /\ open' = TRUE
    BY DEF OpenView, TypeOK
<1>2. CoherentCoins' /\ CoinsSame /\ CoherentNulls' /\ NullsSame /\ CoherentRoots' /\ RootsSame
    BY <1>1, CoinsFrame, NullsFrame, RootsFrame
<1>3. BestSame /\ BestAnchorReadable' /\ NoAnchorYet'
    BY <1>1, <1>2, BestFrame, AnchorFrame DEF Best, NoAnchorYet, BestSame
<1>4. UNCHANGED <<DiskShown, TipShown, ViewShown>>
  <2>1. UNCHANGED DiskShown
      BY <1>1 DEF DiskShown, DbAnchorAt, DbBestAnchor
  <2>2. UNCHANGED TipShown
      BY <1>2, <1>3 DEF TipShown, CoinsSame, NullsSame, RootsSame, BestSame
  <2>3. UNCHANGED ViewShown
      BY <1>2, <1>3 DEF ViewShown, CoinsSame, NullsSame, RootsSame, BestSame
  <2>. QED BY <2>1, <2>2, <2>3
<1>5. Promise!Next
    BY <1>1, <1>4 DEF Promise!Next, Promise!Begin
<1>. QED BY <1>1, <1>2, <1>3, <1>5 DEF TypeOK

LEMMA DiscardViewStep ==
    ASSUME IInv, DiscardView
    PROVE  IInv' /\ Promise!Next
<1> USE DEF IInv
<1>1. TypeOK' /\ UNCHANGED <<db, tip>> /\ view' = NewCache /\ open /\ open' = FALSE
    BY NewCacheType, Zenon DEF DiscardView, TypeOK
<1>2. UNCHANGED DiskShown /\ UNCHANGED TipShown
    BY <1>1 DEF DiskShown, DbAnchorAt, DbBestAnchor, TipShown, TipCoins, TipNullifier,
                TipAnchorAt, TipBestAnchor, TipBestBlock
<1>3. /\ \A t \in Txids : CoinsAgree(tip.coins[t], db.coins[t])'
      /\ \A n \in Nullifiers : FlagAgrees(tip.nulls[n], db.nulls[n])'
      /\ \A r \in Roots : FlagAgrees(tip.roots[r], DbAnchorAt(r))'
    BY <1>1 DEF Coherent, CoherentCoins, CoherentNulls, CoherentRoots, DbAnchorAt
<1>4. DbAnchorAt(DbBestAnchor)' /\ TipAnchorAt(TipBestAnchor)' /\ TipAnchorAt(EmptyRoot)'
    BY <1>1 DEF BestAnchorReadable, DbAnchorAt, DbBestAnchor, TipAnchorAt, TipBestAnchor
<1>5. NoAnchorYet'
    BY <1>1 DEF NoAnchorYet, TipBestBlock, DbBestAnchor
<1>6. Coherent' /\ BestAnchorReadable' /\ ViewShown' = TipShown'
    BY <1>1, <1>3, <1>4, EmptyViewNext
<1>7. Promise!Next
    BY <1>1, <1>2, <1>6 DEF Promise!Next, Promise!Abort
<1>. QED BY <1>1, <1>5, <1>6, <1>7

(* A crash leaves what the database holds.                                 *)
LEMMA CrashStep ==
    ASSUME IInv, Crash
    PROVE  IInv' /\ Promise!Next
<1> USE DEF IInv
<1>1. TypeOK' /\ db' = db /\ tip' = NewCache /\ view' = NewCache /\ open' = FALSE
    BY NewCacheType, Zenon DEF Crash, TypeOK
<1>2. /\ \A t \in Txids : tip'.coins[t] = NoCoins
      /\ \A n \in Nullifiers : tip'.nulls[n] = NoFlag
      /\ \A r \in Roots : tip'.roots[r] = NoFlag
      /\ tip'.hashBlock = Null /\ tip'.hashAnchor = Null
    BY <1>1 DEF NewCache, Cleared
<1>3. /\ \A r \in Roots : DbAnchorAt(r)' = DbAnchorAt(r)
      /\ DbBestAnchor' = DbBestAnchor
    BY <1>1 DEF DbAnchorAt, DbBestAnchor
<1>4. /\ \A t \in Txids : TipCoins(t)' = db.coins[t]
      /\ \A n \in Nullifiers : TipNullifier(n)' = db.nulls[n]
      /\ \A r \in Roots : TipAnchorAt(r)' = DbAnchorAt(r)
    BY <1>1, <1>2, <1>3 DEF NoCoins, NoFlag, TipCoins, TipNullifier, TipAnchorAt, Coins, Flag
<1>5. TipBestAnchor' = DbBestAnchor /\ TipBestBlock' = db.hashBlock /\ NoAnchorYet'
    BY <1>1, <1>2, <1>3 DEF TipBestAnchor, TipBestBlock, NoAnchorYet
<1>6. UNCHANGED DiskShown
    BY <1>1, <1>3 DEF DiskShown
<1>7. TipShown' = DiskShown
  <2>1. /\ db.coins = [t \in Txids |-> db.coins[t]]
        /\ db.nulls = [n \in Nullifiers |-> db.nulls[n]]
      BY DEF TypeOK
  <2>. QED BY <1>4, <1>5, <2>1 DEF TipShown, DiskShown
<1>8. /\ \A t \in Txids : CoinsAgree(tip.coins[t], db.coins[t])'
      /\ \A n \in Nullifiers : FlagAgrees(tip.nulls[n], db.nulls[n])'
      /\ \A r \in Roots : FlagAgrees(tip.roots[r], DbAnchorAt(r))'
    BY <1>2, NothingCached
<1>9. DbAnchorAt(DbBestAnchor)' /\ TipAnchorAt(TipBestAnchor)' /\ TipAnchorAt(EmptyRoot)'
  <2>1. EmptyRoot \in Roots /\ DbBestAnchor \in Roots /\ DbAnchorAt(EmptyRoot)
      BY CoinsAssumption DEF TypeOK, DbBestAnchor, DbAnchorAt
  <2>. QED BY <1>3, <1>4, <1>5, <2>1 DEF BestAnchorReadable
<1>10. Coherent' /\ BestAnchorReadable' /\ ViewShown' = TipShown'
    BY <1>1, <1>8, <1>9, EmptyViewNext
<1>11. Promise!Next
    BY <1>1, <1>6, <1>7, <1>10 DEF Promise!Next, Promise!Crash
<1>. QED BY <1>1, <1>5, <1>10, <1>11

(* The genesis block: no anchor is asked for, so the flush resets the      *)
(* cached one, which was the database's.                                   *)
LEMMA ConnectGenesisStep ==
    ASSUME IInv, NEW b \in Blocks, ConnectGenesis(b)
    PROVE  IInv' /\ Promise!Next
<1> USE DEF IInv
<1>1. /\ UNCHANGED <<db, view, open, tip.coins, tip.nulls, tip.roots>>
      /\ tip'.hashBlock = b /\ tip'.hashAnchor = Null
      /\ ~open /\ view = NewCache /\ TipBestBlock = Null
    BY DEF ConnectGenesis, TypeOK, Caches, Entries
<1>2. TypeOK'
    BY Zenon DEF ConnectGenesis, TypeOK, Caches, Entries
<1>3. TipBestAnchor' = TipBestAnchor /\ TipBestBlock' = b /\ NoAnchorYet'
  <2>1. TipBestBlock' = b /\ b # Null
      BY <1>1, CoinsAssumption DEF TipBestBlock
  <2>2. DbBestAnchor' = DbBestAnchor
      BY <1>1 DEF DbBestAnchor
  <2>. QED BY <1>1, <2>1, <2>2 DEF NoAnchorYet, TipBestAnchor
<1>4. /\ \A t \in Txids : CoinsAgree(tip.coins[t], db.coins[t])'
      /\ \A n \in Nullifiers : FlagAgrees(tip.nulls[n], db.nulls[n])'
      /\ \A r \in Roots : FlagAgrees(tip.roots[r], DbAnchorAt(r))'
    BY <1>1 DEF Coherent, CoherentCoins, CoherentNulls, CoherentRoots, DbAnchorAt
<1>5. DbAnchorAt(DbBestAnchor)' /\ TipAnchorAt(TipBestAnchor)' /\ TipAnchorAt(EmptyRoot)'
    BY <1>1, <1>3 DEF BestAnchorReadable, DbAnchorAt, DbBestAnchor, TipAnchorAt
<1>6. Coherent' /\ BestAnchorReadable' /\ ViewShown' = TipShown'
    BY <1>1, <1>2, <1>4, <1>5, EmptyViewNext
<1>7. UNCHANGED DiskShown
    BY <1>1 DEF DiskShown, DbAnchorAt, DbBestAnchor
<1>8. TipShown' = [TipShown EXCEPT !.block = b]
  <2>1. UNCHANGED <<TipShown.coins, TipShown.spent, TipShown.anchors>>
      BY <1>1 DEF TipShown, TipCoins, TipNullifier, TipAnchorAt, DbAnchorAt
  <2> DEFINE f == TipShown.coins
             g == TipShown.spent
             h == TipShown.anchors
  <2>2. TipShown = [coins |-> f, spent |-> g, anchors |-> h, anchor |-> TipBestAnchor,
                    block |-> TipBestBlock]
      BY DEF TipShown
  <2>3. TipShown' = [coins |-> f', spent |-> g', anchors |-> h', anchor |-> TipBestAnchor',
                     block |-> b]
      BY <1>3 DEF TipShown
  <2>4. f' = f /\ g' = g /\ h' = h
      BY <2>1
  <2> HIDE DEF f, g, h
  <2>. QED BY <1>3, <2>2, <2>3, <2>4
<1>9. TipShown.block = Null
    BY <1>1 DEF TipShown
<1>10. Promise!Next
    BY <1>1, <1>6, <1>7, <1>8, <1>9 DEF Promise!Next, Promise!ConnectGenesis
<1>. QED BY <1>2, <1>3, <1>6, <1>10

-----------------------------------------------------------------------------
(* The view is flushed into pcoinsTip: an entry over d whose parent entry  *)
(* is p and whose child entry is c.                                        *)
LEMMA MergeCoins ==
    ASSUME NEW d \in CCoins,
           NEW p \in Entries,
           NEW c \in Entries,
           CoinsAgree(p, d), CoinsAgree(c, Coins(p, d)), c.cached /\ ~c.fresh => p.cached
    PROVE  /\ MergedCoins(p, c) \in Entries
           /\ CoinsAgree(MergedCoins(p, c), d)
           /\ Coins(MergedCoins(p, c), d) = Coins(c, Coins(p, d))
<1>1. CASE ~c.dirty
    BY <1>1 DEF MergedCoins, CoinsAgree, Coins, NoCoins
<1>2. CASE c.dirty /\ ~p.cached
  <2>1. p = NoCoins /\ Coins(p, d) = d
      BY <1>2 DEF CoinsAgree, Coins
  <2>2. c.cached
      BY <1>2 DEF CoinsAgree, NoCoins
  <2>3. d = Pruned
      BY <1>2, <2>1, <2>2 DEF CoinsAgree, Entries
  <2>4. CASE c.coins = Pruned
    <3>1. MergedCoins(p, c) = p
        BY <1>2, <2>4 DEF MergedCoins
    <3>. QED BY <2>1, <2>2, <2>3, <2>4, <3>1 DEF Coins
  <2>5. CASE c.coins # Pruned
    <3>1. MergedCoins(p, c) = [cached |-> TRUE, coins |-> c.coins, dirty |-> TRUE, fresh |-> TRUE]
        BY <1>2, <2>5 DEF MergedCoins
    <3>2. MergedCoins(p, c) \in Entries
        BY <3>1 DEF Entries
    <3>. QED BY <2>2, <2>3, <3>1, <3>2 DEF CoinsAgree, Coins
  <2>. QED BY <2>4, <2>5
<1>3. CASE c.dirty /\ p.cached
  <2>1. CASE p.fresh /\ c.coins = Pruned
    <3>1. MergedCoins(p, c) = NoCoins
        BY <1>3, <2>1 DEF MergedCoins
    <3>2. d = Pruned /\ c.cached
        BY <1>3, <2>1 DEF CoinsAgree, NoCoins
    <3>3. NoCoins \in Entries
        BY CoinsAssumption DEF NoCoins, Entries
    <3>. QED BY <2>1, <3>1, <3>2, <3>3, NothingCached DEF Coins
  <2>2. CASE ~(p.fresh /\ c.coins = Pruned)
    <3>1. MergedCoins(p, c) = [p EXCEPT !.coins = c.coins, !.dirty = TRUE]
        BY <1>3, <2>2 DEF MergedCoins
    <3>2. /\ MergedCoins(p, c).cached /\ MergedCoins(p, c).dirty
          /\ MergedCoins(p, c).coins = c.coins /\ MergedCoins(p, c).fresh = p.fresh
          /\ MergedCoins(p, c) \in Entries
        BY <1>3, <3>1, Zenon DEF Entries
    <3>3. c.cached
        BY <1>3 DEF CoinsAgree, NoCoins
    <3>. QED BY <3>2, <3>3 DEF CoinsAgree, Coins
  <2>. QED BY <2>1, <2>2
<1>. QED BY <1>1, <1>2, <1>3

LEMMA MergeFlag ==
    ASSUME NEW d \in BOOLEAN, NEW p \in Flags, NEW c \in Flags,
           FlagAgrees(p, d), FlagAgrees(c, Flag(p, d))
    PROVE  /\ MergedFlag(p, c) \in Flags
           /\ FlagAgrees(MergedFlag(p, c), d)
           /\ Flag(MergedFlag(p, c), d) = Flag(c, Flag(p, d))
<1>1. CASE ~c.dirty
    BY <1>1 DEF MergedFlag, FlagAgrees, Flag, NoFlag
<1>2. CASE c.dirty
  <2>1. c.cached
      BY <1>2 DEF FlagAgrees, NoFlag
  <2>2. CASE p.cached /\ p.entered = c.entered
      BY <1>2, <2>1, <2>2 DEF MergedFlag, FlagAgrees, Flag
  <2>3. CASE ~(p.cached /\ p.entered = c.entered)
    <3>1. MergedFlag(p, c) = [cached |-> TRUE, entered |-> c.entered, dirty |-> TRUE]
        BY <1>2, <2>3 DEF MergedFlag
    <3>2. MergedFlag(p, c) \in Flags
        BY <3>1 DEF Flags
    <3>. QED BY <2>1, <3>1, <3>2 DEF FlagAgrees, Flag
  <2>. QED BY <2>2, <2>3
<1>. QED BY <1>1, <1>2 DEF Flags

LEMMA FlushViewStep ==
    ASSUME IInv, MayFlush, FlushView
    PROVE  IInv' /\ Promise!Next
<1> USE DEF IInv, Coherent
<1>1. /\ \A t \in Txids : tip'.coins[t] = MergedCoins(tip.coins[t], view.coins[t])
      /\ \A n \in Nullifiers : tip'.nulls[n] = MergedFlag(tip.nulls[n], view.nulls[n])
      /\ \A r \in Roots : tip'.roots[r] = MergedFlag(tip.roots[r], view.roots[r])
      /\ tip'.hashBlock = view.hashBlock /\ tip'.hashAnchor = view.hashAnchor
      /\ db' = db /\ view' = NewCache /\ open /\ open' = FALSE
    BY DEF FlushView
<1>2. ASSUME NEW t \in Txids
      PROVE  /\ MergedCoins(tip.coins[t], view.coins[t])
                    \in Entries
             /\ CoinsAgree(tip.coins[t], db.coins[t])'
             /\ TipCoins(t)' = ViewCoins(t)
  <2>1. /\ db.coins[t] \in CCoins
        /\ tip.coins[t] \in Entries
        /\ view.coins[t] \in Entries
      BY DEF TypeOK, Caches, Entries
  <2>2. /\ CoinsAgree(tip.coins[t], db.coins[t])
        /\ CoinsAgree(view.coins[t], Coins(tip.coins[t], db.coins[t]))
        /\ view.coins[t].cached /\ ~view.coins[t].fresh => tip.coins[t].cached
      BY DEF CoherentCoins, TipCoins
  <2>3. /\ MergedCoins(tip.coins[t], view.coins[t]) \in Entries
        /\ CoinsAgree(MergedCoins(tip.coins[t], view.coins[t]), db.coins[t])
        /\ Coins(MergedCoins(tip.coins[t], view.coins[t]), db.coins[t]) = ViewCoins(t)
      BY <2>1, <2>2, MergeCoins DEF TipCoins, ViewCoins
  <2>4. db'.coins[t] = db.coins[t] /\ tip'.coins[t] = MergedCoins(tip.coins[t], view.coins[t])
      BY <1>1
  <2>. QED BY <2>3, <2>4 DEF TipCoins
<1>3. ASSUME NEW n \in Nullifiers
      PROVE  /\ MergedFlag(tip.nulls[n], view.nulls[n]) \in Flags
             /\ FlagAgrees(tip.nulls[n], db.nulls[n])'
             /\ TipNullifier(n)' = ViewNullifier(n)
  <2>1. db.nulls[n] \in BOOLEAN /\ tip.nulls[n] \in Flags /\ view.nulls[n] \in Flags
      BY DEF TypeOK, Caches, Entries
  <2>2. /\ FlagAgrees(tip.nulls[n], db.nulls[n])
        /\ FlagAgrees(view.nulls[n], Flag(tip.nulls[n], db.nulls[n]))
      BY DEF CoherentNulls, TipNullifier
  <2>3. /\ MergedFlag(tip.nulls[n], view.nulls[n]) \in Flags
        /\ FlagAgrees(MergedFlag(tip.nulls[n], view.nulls[n]), db.nulls[n])
        /\ Flag(MergedFlag(tip.nulls[n], view.nulls[n]), db.nulls[n]) = ViewNullifier(n)
      BY <2>1, <2>2, MergeFlag DEF TipNullifier, ViewNullifier
  <2>4. db'.nulls[n] = db.nulls[n] /\ tip'.nulls[n] = MergedFlag(tip.nulls[n], view.nulls[n])
      BY <1>1
  <2>. QED BY <2>3, <2>4 DEF TipNullifier
<1>4. ASSUME NEW r \in Roots
      PROVE  /\ MergedFlag(tip.roots[r], view.roots[r]) \in Flags
             /\ FlagAgrees(tip.roots[r], DbAnchorAt(r))'
             /\ TipAnchorAt(r)' = ViewAnchorAt(r)
             /\ DbAnchorAt(r)' = DbAnchorAt(r)
  <2>1. DbAnchorAt(r)' = DbAnchorAt(r)
      BY <1>1 DEF DbAnchorAt
  <2>2. /\ DbAnchorAt(r) \in BOOLEAN /\ tip.roots[r] \in Flags /\ view.roots[r] \in Flags
        /\ FlagAgrees(tip.roots[r], DbAnchorAt(r))
        /\ FlagAgrees(view.roots[r], Flag(tip.roots[r], DbAnchorAt(r)))
      BY RootFacts DEF TipAnchorAt
  <2>3. /\ MergedFlag(tip.roots[r], view.roots[r]) \in Flags
        /\ FlagAgrees(MergedFlag(tip.roots[r], view.roots[r]), DbAnchorAt(r))
        /\ Flag(MergedFlag(tip.roots[r], view.roots[r]), DbAnchorAt(r)) = ViewAnchorAt(r)
      BY <2>2, MergeFlag DEF TipAnchorAt, ViewAnchorAt
  <2>4. tip'.roots[r] = MergedFlag(tip.roots[r], view.roots[r])
      BY <1>1
  <2>. QED BY <2>1, <2>3, <2>4 DEF TipAnchorAt
<1>5. TypeOK'
    BY <1>1, <1>2, <1>3, <1>4, NewCacheType, Zenon DEF FlushView, TypeOK, Caches, Entries
<1>6. /\ TipBestAnchor' = ViewBestAnchor /\ TipBestBlock' = ViewBestBlock
      /\ DbBestAnchor' = DbBestAnchor /\ NoAnchorYet'
    BY <1>1 DEF MayFlush, TipBestAnchor, ViewBestAnchor, TipBestBlock, ViewBestBlock,
                DbBestAnchor, NoAnchorYet
<1>7. DbAnchorAt(DbBestAnchor)' /\ TipAnchorAt(TipBestAnchor)' /\ TipAnchorAt(EmptyRoot)'
  <2>1. EmptyRoot \in Roots /\ DbBestAnchor \in Roots /\ ViewBestAnchor \in Roots
      BY CoinsAssumption DEF TypeOK, Caches, Entries, DbBestAnchor, TipBestAnchor, ViewBestAnchor
  <2>. QED BY <1>4, <1>6, <2>1 DEF BestAnchorReadable
<1>8. Coherent' /\ BestAnchorReadable' /\ ViewShown' = TipShown'
    BY <1>1, <1>2, <1>3, <1>4, <1>5, <1>7, EmptyViewNext
<1>9. UNCHANGED DiskShown
    BY <1>1, <1>4, <1>6 DEF DiskShown
<1>10. TipShown' = ViewShown
    BY <1>2, <1>3, <1>4, <1>6, Zenon DEF TipShown, ViewShown
<1>11. Promise!Next
    BY <1>1, <1>8, <1>9, <1>10 DEF Promise!Next, Promise!Commit
<1>. QED BY <1>5, <1>6, <1>8, <1>11

(* pcoinsTip is flushed into the database.                                 *)
LEMMA FlushTipStep ==
    ASSUME IInv, FlushTip
    PROVE  IInv' /\ Promise!Next
<1> USE DEF IInv, Coherent
<1>1. /\ \A t \in Txids : /\ tip'.coins[t] = NoCoins
                          /\ db'.coins[t] = IF tip.coins[t].dirty THEN tip.coins[t].coins
                                            ELSE db.coins[t]
      /\ \A n \in Nullifiers : /\ tip'.nulls[n] = NoFlag
                               /\ db'.nulls[n] = IF tip.nulls[n].dirty THEN tip.nulls[n].entered
                                                 ELSE db.nulls[n]
      /\ \A r \in Roots : tip'.roots[r] = NoFlag
      /\ UNCHANGED <<tip.hashBlock, tip.hashAnchor, view, open>> /\ ~open /\ view = NewCache
    BY DEF FlushTip, Cleared, TypeOK
<1>2. /\ db'.hashBlock = TipBestBlock
      /\ db'.hashAnchor = IF tip.hashAnchor = Null THEN db.hashAnchor ELSE tip.hashAnchor
    BY DEF FlushTip, TipBestBlock
<1>3. TypeOK'
  <2>1. NoCoins \in Entries
      BY CoinsAssumption DEF NoCoins, Entries
  <2>2. NoFlag \in Flags
      BY DEF NoFlag, Flags
  <2>3. tip' \in Caches
      BY <2>1, <2>2 DEF FlushTip, Cleared, TypeOK, Caches, Entries
  <2>4. db' \in [coins : [Txids -> CCoins], nulls : [Nullifiers -> BOOLEAN],
                 roots : [Roots -> BOOLEAN],
                 hashBlock : Blocks \cup {Null}, hashAnchor : Roots \cup {Null}]
      BY DEF FlushTip, TypeOK, Caches, Entries, Flags
  <2>. QED BY <1>1, <2>3, <2>4 DEF TypeOK
<1>4. ASSUME NEW t \in Txids
      PROVE  db'.coins[t] = TipCoins(t) /\ TipCoins(t)' = TipCoins(t)
  <2>1. db'.coins[t] = TipCoins(t)
    <3>1. CoinsAgree(tip.coins[t], db.coins[t])
        BY DEF CoherentCoins
    <3>. QED BY <1>1, <3>1, FlushedEntry DEF TipCoins
  <2>. QED BY <1>1, <2>1, NothingCached DEF TipCoins
<1>5. ASSUME NEW n \in Nullifiers
      PROVE  db'.nulls[n] = TipNullifier(n) /\ TipNullifier(n)' = TipNullifier(n)
  <2>1. db'.nulls[n] = TipNullifier(n)
    <3>1. FlagAgrees(tip.nulls[n], db.nulls[n])
        BY DEF CoherentNulls
    <3>. QED BY <1>1, <3>1, FlushedEntry DEF TipNullifier
  <2>. QED BY <1>1, <2>1, NothingCached DEF TipNullifier
<1>6. ASSUME NEW r \in Roots
      PROVE  DbAnchorAt(r)' = TipAnchorAt(r) /\ TipAnchorAt(r)' = TipAnchorAt(r)
  <2>1. CASE r = EmptyRoot
    <3>1. DbAnchorAt(r)' = TRUE
        BY <2>1 DEF DbAnchorAt
    <3>2. TipAnchorAt(r) = TRUE
        BY <2>1, RootFacts DEF BestAnchorReadable
    <3>. QED BY <1>1, <3>1, <3>2, NothingCached, Zenon DEF TipAnchorAt
  <2>2. CASE r # EmptyRoot
    <3>1. db'.roots[r] = IF tip.roots[r].dirty THEN tip.roots[r].entered ELSE db.roots[r]
        BY <2>2 DEF FlushTip
    <3>2. tip.roots[r] \in Flags /\ db.roots[r] \in BOOLEAN /\ DbAnchorAt(r) = db.roots[r]
        BY <2>2 DEF TypeOK, Caches, Entries, DbAnchorAt
    <3>3. db'.roots[r] = TipAnchorAt(r)
        BY <3>1, <3>2, RootFacts, FlushedEntry DEF TipAnchorAt
    <3>4. DbAnchorAt(r)' = TipAnchorAt(r)
        BY <1>3, <2>2, <3>3 DEF DbAnchorAt, TypeOK
    <3>. QED BY <1>1, <3>4, NothingCached DEF TipAnchorAt
  <2>. QED BY <2>1, <2>2
<1>7. /\ DbBestAnchor' = TipBestAnchor /\ TipBestAnchor' = TipBestAnchor
      /\ TipBestBlock' = TipBestBlock /\ NoAnchorYet'
  <2>1. DbBestAnchor' = TipBestAnchor
      BY <1>2, CoinsAssumption DEF DbBestAnchor, TipBestAnchor, TypeOK, Caches, Entries
  <2>2. TipBestAnchor' = TipBestAnchor /\ TipBestBlock' = TipBestBlock
      BY <1>1, <1>2, <2>1 DEF TipBestAnchor, TipBestBlock
  <2>. QED BY <1>1, <2>1, <2>2 DEF NoAnchorYet, TipBestAnchor
<1>8. /\ \A t \in Txids : CoinsAgree(tip.coins[t], db.coins[t])'
      /\ \A n \in Nullifiers : FlagAgrees(tip.nulls[n], db.nulls[n])'
      /\ \A r \in Roots : FlagAgrees(tip.roots[r], DbAnchorAt(r))'
    BY <1>1, NothingCached
<1>9. DbAnchorAt(DbBestAnchor)' /\ TipAnchorAt(TipBestAnchor)' /\ TipAnchorAt(EmptyRoot)'
  <2>1. EmptyRoot \in Roots /\ TipBestAnchor \in Roots
      BY CoinsAssumption DEF TypeOK, Caches, Entries, DbBestAnchor, TipBestAnchor
  <2>. QED BY <1>6, <1>7, <2>1 DEF BestAnchorReadable
<1>10. Coherent' /\ BestAnchorReadable' /\ ViewShown' = TipShown'
    BY <1>1, <1>3, <1>8, <1>9, EmptyViewNext
<1>11. DiskShown' = TipShown
  <2>1. /\ db'.coins = [t \in Txids |-> db'.coins[t]]
        /\ db'.nulls = [n \in Nullifiers |-> db'.nulls[n]]
      BY <1>3 DEF TypeOK
  <2>. QED BY <1>2, <1>4, <1>5, <1>6, <1>7, <2>1 DEF DiskShown, TipShown
<1>12. UNCHANGED TipShown
    BY <1>4, <1>5, <1>6, <1>7 DEF TipShown
<1>13. ViewShown = TipShown
    BY <1>1, EmptyViewShows
<1>14. Promise!Next
    BY <1>1, <1>10, <1>11, <1>12, <1>13 DEF Promise!Next, Promise!Sync
<1>. QED BY <1>3, <1>7, <1>10, <1>14

-----------------------------------------------------------------------------
LEMMA InitStep ==
    ASSUME Init
    PROVE  IInv /\ Promise!Init
<1>1. /\ \A t \in Txids : tip.coins[t] = NoCoins /\ view.coins[t] = NoCoins /\ db.coins[t] = Pruned
      /\ \A n \in Nullifiers : /\ tip.nulls[n] = NoFlag /\ view.nulls[n] = NoFlag
                               /\ db.nulls[n] = FALSE
      /\ \A r \in Roots : /\ tip.roots[r] = NoFlag /\ view.roots[r] = NoFlag
                          /\ DbAnchorAt(r) = (r = EmptyRoot)
      /\ tip.hashBlock = Null /\ view.hashBlock = Null /\ db.hashBlock = Null
      /\ tip.hashAnchor = Null /\ view.hashAnchor = Null /\ db.hashAnchor = Null
    BY DEF Init, NewCache, Cleared, DbAnchorAt
<1>2. TypeOK
    BY NewCacheType, CoinsAssumption, Zenon DEF Init, TypeOK
<1>3. /\ \A t \in Txids : TipCoins(t) = Pruned /\ ViewCoins(t) = Pruned
      /\ \A n \in Nullifiers : TipNullifier(n) = FALSE /\ ViewNullifier(n) = FALSE
      /\ \A r \in Roots : /\ TipAnchorAt(r) = (r = EmptyRoot)
                          /\ ViewAnchorAt(r) = (r = EmptyRoot)
  <2>1. ASSUME NEW t \in Txids PROVE TipCoins(t) = Pruned /\ ViewCoins(t) = Pruned
    <3>1. TipCoins(t) = Pruned
        BY <1>1, NothingCached DEF TipCoins
    <3>. QED BY <1>1, <3>1, NothingCached DEF ViewCoins
  <2>2. ASSUME NEW n \in Nullifiers PROVE TipNullifier(n) = FALSE /\ ViewNullifier(n) = FALSE
    <3>1. TipNullifier(n) = FALSE
        BY <1>1, NothingCached DEF TipNullifier
    <3>. QED BY <1>1, <3>1, NothingCached DEF ViewNullifier
  <2>3. \A r \in Roots : TipAnchorAt(r) = (r = EmptyRoot)
      BY <1>1, NothingCached DEF TipAnchorAt
  <2>4. \A r \in Roots : ViewAnchorAt(r) = (r = EmptyRoot)
      BY <1>1, <2>3, NothingCached DEF ViewAnchorAt
  <2>. QED BY <2>1, <2>2, <2>3, <2>4, Zenon
<1>4. /\ DbBestAnchor = EmptyRoot /\ TipBestAnchor = EmptyRoot /\ ViewBestAnchor = EmptyRoot
      /\ TipBestBlock = Null /\ ViewBestBlock = Null
    BY <1>1 DEF DbBestAnchor, TipBestAnchor, ViewBestAnchor, TipBestBlock, ViewBestBlock
<1>5. CoherentCoins
    BY <1>1, NothingCached, Zenon DEF CoherentCoins
<1>6. CoherentNulls /\ CoherentRoots
    BY <1>1, NothingCached DEF CoherentNulls, CoherentRoots
<1>7. BestAnchorReadable /\ NoAnchorYet
    BY <1>1, <1>3, <1>4, CoinsAssumption, Zenon DEF BestAnchorReadable, NoAnchorYet
<1>8. DiskShown = Promise!EmptySnapshot
    BY <1>1, <1>4, Zenon DEF Init, DiskShown, Promise!EmptySnapshot
<1>9. TipShown = Promise!EmptySnapshot /\ ViewShown = Promise!EmptySnapshot
    BY <1>3, <1>4, Zenon DEF TipShown, ViewShown, Promise!EmptySnapshot
<1>. QED BY <1>2, <1>5, <1>6, <1>7, <1>8, <1>9 DEF IInv, Coherent, Promise!Init, Init

(* Every step keeps the inductive invariant and is a step of CoinsView or  *)
(* changes no answer.                                                      *)
LEMMA NextStep ==
    ASSUME IInv, [Next]_vars
    PROVE  IInv' /\ [Promise!Next]_(Promise!vars)
<1>1. CASE Read
    BY <1>1, FetchTipStep, FetchViewStep, GetTipNullifierStep, GetViewNullifierStep,
       GetTipAnchorAtStep, GetViewAnchorAtStep, GetTipBestStep, GetViewBestStep DEF Read
<1>2. CASE Write
    BY <1>2, ModifyCoinsStep, SetNullifierStep, PushAnchorStep, PopAnchorStep,
       SetBestBlockStep DEF Write
<1>3. CASE OpenView \/ DiscardView \/ FlushTip \/ Crash
    BY <1>3, OpenViewStep, DiscardViewStep, FlushTipStep, CrashStep
<1>4. CASE MayFlush /\ FlushView
    BY <1>4, FlushViewStep
<1>5. CASE \E b \in Blocks : ConnectGenesis(b)
    BY <1>5, ConnectGenesisStep
<1>6. CASE UNCHANGED vars
  <2>1. UNCHANGED <<db, tip, view, open>>
      BY <1>6 DEF vars
  <2>2. /\ CoherentCoins' /\ CoinsSame /\ CoherentNulls' /\ NullsSame
        /\ CoherentRoots' /\ RootsSame /\ BestSame
      BY <2>1, BestFrame, CoinsFrame, NullsFrame, RootsFrame DEF Best, IInv, Coherent
  <2>3. TypeOK' /\ NoAnchorYet'
      BY <2>1 DEF IInv, TypeOK, NoAnchorYet, TipBestBlock, DbBestAnchor
  <2>4. BestAnchorReadable'
      BY <2>1, <2>2, AnchorFrame DEF IInv
  <2>. QED BY <2>1, <2>2, <2>3, <2>4, Stutter DEF IInv, Coherent
<1>. QED BY <1>1, <1>2, <1>3, <1>4, <1>5, <1>6 DEF Next

(* The inductive invariant of the stack of views: it holds however the     *)
(* calls of coins.cpp, the flushes and the crashes interleave.             *)
THEOREM Invariance == Spec => []IInv
<1>1. Init => IInv
    BY InitStep
<1>2. IInv /\ [Next]_vars => IInv'
    BY NextStep
<1>. QED BY <1>1, <1>2, PTL DEF Spec

(* Cache coherence: an entry without DIRTY repeats the layer below, and    *)
(* one marked FRESH has nothing unspent below it, in pcoinsTip and in the  *)
(* temporary view.                                                         *)
THEOREM CoherentTheorem == Spec => []Coherent
<1>1. IInv => Coherent
    BY DEF IInv
<1>. QED BY <1>1, Invariance, PTL

(* The assertion of CCoinsViewCache::BatchWrite (coins.cpp) never fails.   *)
THEOREM FreshTheorem == Spec => []FreshAssertion
<1>1. IInv => FreshAssertion
  <2> SUFFICES ASSUME IInv, NEW t \in Txids, view.coins[t].dirty, ~tip.coins[t].cached
               PROVE  view.coins[t].fresh
      BY DEF FreshAssertion
  <2>1. CoinsAgree(view.coins[t], TipCoins(t))
      BY DEF IInv, Coherent, CoherentCoins
  <2>2. view.coins[t].cached
      BY <2>1 DEF CoinsAgree, NoCoins
  <2>3. view.coins[t].fresh \in BOOLEAN
      BY DEF IInv, TypeOK, Caches, Entries
  <2>. QED BY <2>2, <2>3 DEF IInv, Coherent, CoherentCoins
<1>. QED BY <1>1, Invariance, PTL

(* "We should always be able to get the root that is on the tip of our     *)
(* chain": the assertions of ConnectBlock, ConnectTip, DisconnectTip and   *)
(* BringBestAnchorIntoCache on the best anchor never fail.                 *)
THEOREM AnchorTheorem == Spec => []BestAnchorReadable
<1>1. IInv => BestAnchorReadable
    BY DEF IInv
<1>. QED BY <1>1, Invariance, PTL

(* The caching is invisible: the three layers, as their readers see them,  *)
(* behave as the three snapshots of CoinsView.                             *)
THEOREM Refinement == Spec => Refines
<1>1. Init => Promise!Init
    BY InitStep
<1>2. IInv /\ [Next]_vars => [Promise!Next]_(Promise!vars)
    BY NextStep
<1>. QED BY <1>1, <1>2, Invariance, PTL DEF Spec, Refines, Promise!Spec
===============================================================================
