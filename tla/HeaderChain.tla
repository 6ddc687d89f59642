----------------------------- MODULE HeaderChain ----------------------------
(***************************************************************************)
(* The rules of a header: the difficulty of its own ancestry, the time     *)
(* window and the work (consensus/difficulty.rs, consensus/validation.rs), *)
(* through the two paths that apply them: the block path, whose difficulty *)
(* comes from a cache in front of storage (network/sync.rs), and the       *)
(* forward headers of a tip validation, which are only in memory           *)
(* (network/tip_validation.rs).                                            *)
(*                                                                         *)
(* A header is known by its content, the parent's included, as by its      *)
(* hash.  PoW is not modelled: every header offered has it.                *)
(***************************************************************************)
EXTENDS WideInt, FiniteSets, FiniteSetsExt

CONSTANTS RetargetWindow, TargetBlockTime, RetargetFactor, MtpWindow,
          MaxTimestampGap,    \* MAX_TIMESTAMP_GAP over the parent
          Horizon,            \* the wall clock plus the drift allowed
          GenesisTargets,     \* the network's genesis target, one of these
          Deltas,             \* offsets of an offered timestamp to its parent's
          CacheEntries,       \* MAX_DIFFICULTY_CACHE_ENTRIES
          MaxHeaders          \* bound on headers stored and in the overlay

ASSUME HeaderChainAssumption ==
  /\ RetargetWindow \in Nat \ {0, 1} /\ MtpWindow \in Nat \ {0}
  /\ TargetBlockTime * (RetargetWindow - 1) * RetargetFactor < Base
  /\ GenesisTargets \subseteq 1..WideMax /\ CacheEntries \in Nat \ {0}

NoHeader == [height |-> -1]

VARIABLES
  stored,       \* headers in storage
  hwork,        \* their cumulative work
  overlay,      \* ForwardHeaderOverlay: validated headers not in storage
  hcache        \* difficulty_cache: (parent, height) -> target

headerVars == <<stored, hwork, overlay, hcache>>

GenesisHeader(t) == [prev |-> NoHeader, height |-> 0, time |-> 0, target |-> t]

-----------------------------------------------------------------------------
\* The difficulty.

\* The target after a window whose intervals took the given time.
Retarget(old, actual) ==
  LET exp == (RetargetWindow - 1) * TargetBlockTime
      act == IF actual = 0 THEN 1 ELSE actual
      clamped == Max({exp \div RetargetFactor, Min({act, exp * RetargetFactor})})
  IN  Max({MulDiv(old, clamped, exp), 1})

\* The header n links below h, looked up among the known ones, or NoHeader.
Back(known, h, n) ==
  FoldLeft(LAMBDA x, i : IF x \in known THEN x.prev ELSE NoHeader, h, [i \in 1..n |-> i])

\* The target a child of prev at the given height must have, Failed when an
\* ancestor is not known.
ExpectedDifficulty(known, prev, height) ==
  LET start == Back(known, prev, RetargetWindow - 1)
  IN  IF prev \notin known THEN Failed
      ELSE IF height % RetargetWindow # 0 THEN prev.target
      ELSE IF start \notin known THEN Failed
      ELSE Retarget(prev.target, IF prev.time > start.time THEN prev.time - start.time ELSE 0)

\* Faulty variant: the parent's target is looked up by height alone.
CachedAtHeight(prev, height) ==
  LET hits == {k \in DOMAIN hcache : k[2] = height}
  IN  IF hits # {} THEN hcache[CHOOSE k \in hits : TRUE]
      ELSE ExpectedDifficulty(stored, prev, height)

\* The target through the cache.
CachedExpectedDifficulty(prev, height) ==
  IF <<prev, height>> \in DOMAIN hcache THEN hcache[<<prev, height>>]
  ELSE ExpectedDifficulty(stored, prev, height)

\* The caches a lookup may leave: a full one gives up an entry of the lowest
\* height.
CacheAfter(prev, height) ==
  LET key == <<prev, height>>
      target == CachedExpectedDifficulty(prev, height)
      low == {k \in DOMAIN hcache : \A l \in DOMAIN hcache : k[2] <= l[2]}
      kept == IF Cardinality(DOMAIN hcache) < CacheEntries THEN {DOMAIN hcache}
              ELSE {DOMAIN hcache \ {k} : k \in low}
  IN  IF key \in DOMAIN hcache \/ target = Failed THEN {hcache}
      ELSE {[k \in ks \cup {key} |-> IF k = key THEN target ELSE hcache[k]] : ks \in kept}

-----------------------------------------------------------------------------
\* The time window.

\* The timestamps of h and its ancestors, the most recent first.
AncestorTimestamps(h) ==
  LET back == [i \in 1..Min({MtpWindow, h.height + 1}) |-> Back(stored, h, i - 1)]
  IN  [i \in DOMAIN back |-> back[i].time]

\* The middle timestamp, the upper of two.
MedianTimePast(times) == SortSeq(times, <)[Len(times) \div 2 + 1]

TimeOK(h) ==
  /\ h.time > MedianTimePast(AncestorTimestamps(h.prev))
  /\ h.time <= Horizon /\ h.time <= h.prev.time + MaxTimestampGap

\* validate_block_header: the header rules, in front of those of the body.
ValidHeader(h, target) ==
  h.height = h.prev.height + 1 /\ h.target = target /\ TimeOK(h)

-----------------------------------------------------------------------------
Offered(prev, height, delta, target) ==
  [prev |-> prev, height |-> height, time |-> prev.time + delta, target |-> target]

HeadersInit ==
  /\ \E t \in GenesisTargets :
       LET g == GenesisHeader(t)
       IN  stored = {g} /\ hwork = [h \in {g} |-> WorkFromTarget(t)]
  /\ overlay = {} /\ hcache = <<>>

\* A block whose parent is stored.  The difficulty is looked up for the height
\* it claims, before the height is checked.
ReceiveHeader ==
  \E prev \in stored, up \in 1..2, d \in Deltas, own \in BOOLEAN :
    LET height == prev.height + up
        target == CachedExpectedDifficulty(prev, height)
        h == Offered(prev, height, d, IF own THEN prev.target ELSE target)
    IN  /\ hcache' \in CacheAfter(prev, height)
        /\ IF target # Failed /\ ValidHeader(h, target) /\ h.time >= 0
           THEN /\ Cardinality(stored \cup {h}) + Cardinality(overlay) <= MaxHeaders
                /\ stored' = stored \cup {h}
                /\ hwork' = [x \in stored' |->
                     IF x = h THEN AddWork(hwork[prev], WorkFromTarget(target)) ELSE hwork[x]]
           ELSE UNCHANGED <<stored, hwork>>
        /\ UNCHANGED overlay

\* validate_one_forward_header: the chain, the height and the difficulty
\* through the overlay; the time is left to the block path.
ForwardHeader ==
  /\ Cardinality(stored) + Cardinality(overlay) < MaxHeaders
  /\ \E prev \in stored, d \in Deltas :
       LET from == IF overlay = {} THEN prev
                   ELSE CHOOSE h \in overlay : \A x \in overlay : x.height <= h.height
           target == ExpectedDifficulty(overlay \cup stored, from, from.height + 1)
       IN  /\ from.time + d >= 0
           /\ overlay' = overlay \cup {Offered(from, from.height + 1, d, target)}
  /\ UNCHANGED <<stored, hwork, hcache>>

\* The validation ends, with the overlay.
DropOverlay == overlay # {} /\ overlay' = {} /\ UNCHANGED <<stored, hwork, hcache>>

HeadersNext == ReceiveHeader \/ ForwardHeader \/ DropOverlay

\* sum_forward_work over the overlay, from the work of its anchor.
ForwardWork ==
  LET chain == SetToSortSeq(overlay, LAMBDA a, b : a.height < b.height)
  IN  FoldLeft(LAMBDA acc, h : AddWork(acc, WorkFromTarget(h.target)),
               hwork[Head(chain).prev], chain)

-----------------------------------------------------------------------------
\* Reference: h and its ancestors, by height.
AncestorsOf(h) == {Back(stored \cup overlay, h, n) : n \in 0..h.height}

\* Reference: the target of h from the exact quotient.
ExactTarget(h) ==
  IF h.height % RetargetWindow # 0 THEN h.prev.target
  ELSE LET exp == (RetargetWindow - 1) * TargetBlockTime
           start == Back(stored \cup overlay, h, RetargetWindow)
           span == Max({exp \div RetargetFactor,
                        Min({h.prev.time - start.time, exp * RetargetFactor})})
       IN  Max({1, Min({WideMax, (h.prev.target * span) \div exp})})

\* Reference: the sum of the work of a chain.
ExactWork(h) ==
  Min({WideMax, MapThenSumSet(LAMBDA a : Min({WideMax, Wide \div a.target}), AncestorsOf(h))})

\* Whichever path a header came by, and whatever the cache held for parents
\* and claimed heights of other branches, its target is the retarget of its
\* own ancestry and the work recorded for it the sum of its chain's work, so
\* a tip validation and the block path agree on the best chain.
DifficultyExact ==
  /\ \A h \in stored \cup overlay : h.height > 0 => h.target = ExactTarget(h)
  /\ \A h \in stored : hwork[h] = ExactWork(h)
  /\ \A k \in DOMAIN hcache : hcache[k] = ExpectedDifficulty(stored, k[1], k[2])
  /\ Cardinality(DOMAIN hcache) <= CacheEntries
  /\ overlay # {} =>
       ForwardWork = ExactWork(CHOOSE h \in overlay : \A x \in overlay : x.height <= h.height)

\* Time moves on along every stored chain: the median time never decreases,
\* so no header is as early as the median of any of its ancestors, and it is
\* at most a gap per block ahead of each of them.
TimeMovesOn ==
  \A h \in stored : \A a \in AncestorsOf(h) \ {h} :
    /\ h.time > MedianTimePast(AncestorTimestamps(a))
    /\ MedianTimePast(AncestorTimestamps(h)) >= MedianTimePast(AncestorTimestamps(a))
    /\ h.time <= a.time + MaxTimestampGap * (h.height - a.height)

\* The headers of both paths have the difficulty and the work of their own
\* ancestry, and along a chain time moves on (validate_block_header,
\* expected_difficulty and its cache, validate_one_forward_header).
HeadersExact == DifficultyExact /\ TimeMovesOn
=============================================================================
