--------------------------- MODULE ScryfallProofs ---------------------------
(***************************************************************************)
(* Theorems about ScryfallClient, for every set of cards, page size, number *)
(* of attempts and set of processes.                                       *)
(***************************************************************************)
EXTENDS ScryfallClient, FiniteSetTheorems, TLAPS

\* The places of a load that still fetches or writes.
Fetching == {"meta", "page", "write", "writing"}

-----------------------------------------------------------------------------
\* Ranks and pages.

\* The cards up to one card are finitely many.
LEMMA RankType ==
    ASSUME NEW L \in SUBSET Cards, NEW c \in Cards
    PROVE  RankIn(L, c) \in Nat
<1>1. IsFiniteSet({d \in L : d <= c})
  BY ClientAssumption, FS_Subset
<1> QED
  BY <1>1, FS_CardinalityType DEF RankIn

\* A card moves only towards the end of a growing listing.
LEMMA RankGrows ==
    ASSUME NEW L \in SUBSET Cards, NEW M \in SUBSET Cards, L \subseteq M, NEW c \in Cards
    PROVE  RankIn(L, c) <= RankIn(M, c)
<1>1. IsFiniteSet({d \in M : d <= c})
  BY ClientAssumption, FS_Subset
<1>2. {d \in L : d <= c} \subseteq {d \in M : d <= c}
  OBVIOUS
<1> QED
  BY <1>1, <1>2, FS_Subset DEF RankIn

\* No card is behind the end of the listing.
LEMMA RankBounded ==
    ASSUME NEW L \in SUBSET Cards, NEW c \in Cards
    PROVE  Cardinality(L) \in Nat /\ RankIn(L, c) <= Cardinality(L)
<1>1. IsFiniteSet(L)
  BY ClientAssumption, FS_Subset
<1>2. {d \in L : d <= c} \subseteq L
  OBVIOUS
<1> QED
  BY <1>1, <1>2, FS_Subset, FS_CardinalityType DEF RankIn

\* A listed card behind the first k pages is on the next one or behind it too.
LEMMA PageCovers ==
    ASSUME listing \in SUBSET Cards, NEW c \in listing, NEW k \in Nat,
           k * PageSize < RankIn(listing, c), c \notin OnPage(k)
    PROVE  (k + 1) * PageSize < RankIn(listing, c)
<1>1. c \in Cards /\ RankIn(listing, c) \in Nat
  BY RankType
<1>2. PageSize \in Nat /\ (k + 1) * PageSize \in Nat
  BY ClientAssumption
<1> QED
  BY <1>1, <1>2 DEF OnPage

\* The last page leaves nothing behind it.
LEMMA LastPage ==
    ASSUME listing \in SUBSET Cards, NEW c \in listing, NEW k \in Nat, ~HasMore(k)
    PROVE  RankIn(listing, c) <= (k + 1) * PageSize
<1>1. c \in Cards
  OBVIOUS
<1>2. /\ RankIn(listing, c) \in Nat
      /\ Cardinality(listing) \in Nat
      /\ RankIn(listing, c) <= Cardinality(listing)
  BY <1>1, RankType, RankBounded
<1>3. (k + 1) * PageSize \in Nat
  BY ClientAssumption
<1> QED
  BY <1>2, <1>3 DEF HasMore

\* A card of a listing has at least rank 1: it counts itself.
LEMMA RankPositive ==
    ASSUME NEW L \in SUBSET Cards, NEW c \in L
    PROVE  0 < RankIn(L, c)
<1>1. IsFiniteSet({d \in L : d <= c})
  BY ClientAssumption, FS_Subset
<1>2. c \in {d \in L : d <= c}
  BY ClientAssumption
<1>3. RankIn(L, c) \in Nat /\ RankIn(L, c) # 0
  BY <1>1, <1>2, FS_EmptySet, FS_CardinalityType DEF RankIn
<1> QED
  BY <1>3
-----------------------------------------------------------------------------
\* Type correctness.

LEMMA TypeInit == Init => TypeOK
<1> SUFFICES ASSUME Init PROVE TypeOK
  OBVIOUS
<1>1. today \in 0 .. MaxDay /\ version \in 1 .. MaxVersion
  BY ClientAssumption DEF Init
<1>2. withdrawn \in BOOLEAN
  BY Zenon DEF Init
<1>3. /\ attempt \in [Procs -> 0 .. MaxRetries - 1]
      /\ page \in [Procs -> Nat]
      /\ pc \in [Procs -> Places]
      /\ got \in [Procs -> SUBSET Cards]
      /\ meta \in [Procs -> Dates]
      /\ atStart \in [Procs -> SUBSET Cards]
  BY ClientAssumption DEF Init, Dates, Places
<1> QED
  BY <1>1, <1>2, <1>3 DEF Init, TypeOK

\* The end of a load leaves its variables well typed.
LEMMA ReturnTypes ==
    ASSUME TypeOK, NEW p \in Procs, NEW cards \in SUBSET Cards, Return(p, cards)
    PROVE  /\ pc' \in [Procs -> Places]
           /\ attempt' \in [Procs -> 0 .. MaxRetries - 1]
           /\ page' \in [Procs -> Nat]
           /\ got' \in [Procs -> SUBSET Cards]
           /\ meta' \in [Procs -> Dates]
           /\ atStart' \in [Procs -> SUBSET Cards]
           /\ served' \in SUBSET Cards
           /\ settled' \in SUBSET Cards
<1>1. 0 \in 0 .. MaxRetries - 1
  BY ClientAssumption
<1> QED
  BY <1>1 DEF TypeOK, Return, Dates, Places

\* Every step keeps the types, one case per action.
LEMMA TypeStep == TypeOK /\ [Next]_vars => TypeOK'
<1> SUFFICES ASSUME TypeOK, [Next]_vars PROVE TypeOK'
  OBVIOUS
<1> USE ClientAssumption
<1>stutter. CASE UNCHANGED vars
  BY <1>stutter DEF TypeOK, vars
<1>1. ASSUME NEW p \in Procs, ServeFresh(p) PROVE TypeOK'
  <2>1. cache.cards \in SUBSET Cards
    BY <1>1 DEF ServeFresh, HasFreshCache, TypeOK, Payloads
  <2> QED
    BY <1>1, <2>1, ReturnTypes DEF ServeFresh, TypeOK, world
<1>2. ASSUME NEW p \in Procs, NEW force \in BOOLEAN, StartFetch(p, force) PROVE TypeOK'
  BY <1>2 DEF StartFetch, TypeOK, world, result, Places
<1>3. ASSUME NEW p \in Procs, FetchMeta(p) PROVE TypeOK'
  <2>1. 0 \in 0 .. MaxRetries - 1
    OBVIOUS
  <2> QED
    BY <1>3, <2>1 DEF FetchMeta, TypeOK, world, result, Places
<1>4. ASSUME NEW p \in Procs, FetchPage(p) PROVE TypeOK'
  <2>1. 0 \in 0 .. MaxRetries - 1
    OBVIOUS
  <2>2. got[p] \cup OnPage(page[p]) \in SUBSET Cards
    BY DEF OnPage, TypeOK
  <2>3. page[p] + 1 \in Nat
    BY DEF TypeOK
  <2> QED
    BY <1>4, <2>1, <2>2, <2>3 DEF FetchPage, TypeOK, world, result, Places
<1>5. ASSUME NEW p \in Procs, RetryRequest(p) PROVE TypeOK'
  <2>1. attempt[p] + 1 \in 0 .. MaxRetries - 1
    BY <1>5 DEF RetryRequest, TypeOK
  <2> QED
    BY <1>5, <2>1 DEF RetryRequest, TypeOK, world, result
<1>6. ASSUME NEW p \in Procs, RequestFails(p) PROVE TypeOK'
  <2>1. 0 \in 0 .. MaxRetries - 1
    OBVIOUS
  <2> QED
    BY <1>6, <2>1 DEF RequestFails, TypeOK, world, result, Places
<1>7. ASSUME NEW p \in Procs, StartWrite(p) PROVE TypeOK'
  BY <1>7 DEF StartWrite, TypeOK, world, result, Places
<1>8. ASSUME NEW p \in Procs, FinishWrite(p) PROVE TypeOK'
  <2>1. FetchedBy(p) \in Payloads
    BY DEF FetchedBy, Payloads, TypeOK
  <2>2. cache' \in Payloads \cup {NoCache}
    BY <1>8, <2>1 DEF FinishWrite
  <2>3. got[p] \in SUBSET Cards
    BY DEF TypeOK
  <2> QED
    BY <1>8, <2>2, <2>3, ReturnTypes DEF FinishWrite, TypeOK, world
<1>9. ASSUME NEW p \in Procs, WriteFails(p) PROVE TypeOK'
  <2>1. served \in SUBSET Cards /\ cache' \in Payloads \cup {NoCache}
    BY <1>9 DEF WriteFails, TypeOK
  <2> QED
    BY <1>9, <2>1, ReturnTypes DEF WriteFails, TypeOK, world
<1>10. ASSUME NEW p \in Procs, FallBack(p) PROVE TypeOK'
  <2>1. (IF cache # NoCache THEN cache.cards ELSE served) \in SUBSET Cards
    BY DEF TypeOK, Payloads
  <2> QED
    BY <1>10, <2>1, ReturnTypes DEF FallBack, TypeOK, world
<1>11. ASSUME NEW p \in Procs, Crash(p) PROVE TypeOK'
  <2>1. served \in SUBSET Cards
    BY DEF TypeOK
  <2> QED
    BY <1>11, <2>1, ReturnTypes DEF Crash, TypeOK, world
<1>12. CASE NextDay \/ Upgrade
  <2>1. today' \in 0 .. MaxDay /\ version' \in 1 .. MaxVersion
    BY <1>12 DEF NextDay, Upgrade, TypeOK
  <2>2. UNCHANGED <<listing, released, withdrawn, cache, load, result>>
    BY <1>12 DEF NextDay, Upgrade
  <2> QED
    BY <2>1, <2>2 DEF TypeOK, load, result
<1>13. CASE Publish \/ Withdraw
  <2>1. listing' \subseteq Cards /\ withdrawn' \in BOOLEAN
    <3>1. CASE Publish
      BY <3>1 DEF Publish, TypeOK
    <3>2. CASE Withdraw
      BY <3>2 DEF Withdraw, TypeOK
    <3> QED
      BY <1>13, <3>1, <3>2
  <2>2. /\ UNCHANGED <<today, version, released, cache, load, served>>
        /\ settled' = settled \/ settled' = {}
    BY <1>13 DEF Publish, Withdraw, result
  <2> QED
    BY <2>1, <2>2 DEF TypeOK, load
<1>14. CASE Announce
  BY <1>14 DEF Announce, TypeOK, load, result, Dates
<1> QED
  BY <1>stutter, <1>1, <1>2, <1>3, <1>4, <1>5, <1>6, <1>7, <1>8, <1>9, <1>10, <1>11, <1>12, <1>13, <1>14
     DEF Next, Client, Proceed, World

\* Every variable keeps its type; no request is tried more than MAX_RETRIES times.
THEOREM ClientTypes == Spec => []TypeOK
  BY TypeInit, TypeStep, PTL DEF Spec
-----------------------------------------------------------------------------
\* A fetch misses nothing.

\* FetchMissesNothing while the pages come in: a card listed from the beginning
\* was received or is behind the pages received.
FetchOf(p) ==
    /\ pc[p] \in Fetching => atStart[p] \subseteq listing
    /\ got[p] \subseteq listing
    /\ pc[p] \in {"idle", "meta"} => page[p] = 0
    /\ pc[p] = "page" =>
           \A c \in atStart[p] \ got[p] : page[p] * PageSize < RankIn(listing, c)
    /\ pc[p] \in {"write", "writing"} => atStart[p] \subseteq got[p]

FetchInv == ~withdrawn => \A p \in Procs : FetchOf(p)

\* As long as no card was withdrawn, none was before, and the listing only grew.
LEMMA ListingGrows ==
    ASSUME TypeOK, [Next]_vars, ~withdrawn'
    PROVE  ~withdrawn /\ listing \subseteq listing'
  BY DEF Next, Client, Proceed, World, ServeFresh, StartFetch, FetchMeta, FetchPage,
         RetryRequest, RequestFails, StartWrite, FinishWrite, WriteFails, FallBack, Crash,
         NextDay, Upgrade, Publish, Withdraw, Announce, world, vars

\* The growth of the listing keeps the facts about a process that does not move.
LEMMA StandingStill ==
    ASSUME TypeOK, TypeOK', ~withdrawn, FetchInv, listing \subseteq listing', NEW p \in Procs,
           pc'[p] = pc[p], page'[p] = page[p], got'[p] = got[p], atStart'[p] = atStart[p]
    PROVE  FetchOf(p)'
<1>1. ASSUME pc[p] = "page", NEW c \in atStart[p] \ got[p]
      PROVE  page[p] * PageSize < RankIn(listing', c)
  <2>1. page[p] * PageSize < RankIn(listing, c)
    BY <1>1 DEF FetchInv, FetchOf
  <2>2. c \in Cards /\ listing \in SUBSET Cards /\ listing' \in SUBSET Cards
    BY <1>1 DEF TypeOK
  <2>3. RankIn(listing, c) <= RankIn(listing', c)
    BY <2>2, RankGrows
  <2>4. RankIn(listing, c) \in Nat /\ RankIn(listing', c) \in Nat
    BY <2>2, RankType
  <2>5. page[p] * PageSize \in Nat
    BY ClientAssumption DEF TypeOK
  <2> QED
    BY <2>1, <2>3, <2>4, <2>5
<1> QED
  BY <1>1 DEF FetchInv, FetchOf

\* A load that returned has received nothing.
LEMMA Returned ==
    ASSUME TypeOK, NEW p \in Procs, NEW cards, Return(p, cards)
    PROVE  FetchOf(p)'
  BY DEF Return, FetchOf, TypeOK, Fetching

\* The step that matters: a page received while the listing stands still.
LEMMA PageReceived ==
    ASSUME TypeOK, ~withdrawn, FetchInv, NEW p \in Procs, FetchPage(p)
    PROVE  FetchOf(p)'
<1> DEFINE k == page[p]
<1>1. /\ k \in Nat
      /\ page'[p] = k + 1
      /\ got'[p] = got[p] \cup OnPage(k)
      /\ atStart' = atStart
      /\ listing' = listing
      /\ pc'[p] = IF HasMore(k) THEN "page" ELSE "write"
  BY DEF FetchPage, TypeOK, world
<1>2. atStart[p] \subseteq listing /\ got[p] \subseteq listing
  BY DEF FetchPage, FetchInv, FetchOf, Fetching
<1>3. OnPage(k) \subseteq listing
  BY DEF OnPage
<1>4. ASSUME NEW c \in atStart[p] \ got'[p]
      PROVE  (k + 1) * PageSize < RankIn(listing, c)
  <2>1. c \in listing /\ c \notin OnPage(k) /\ c \in atStart[p] \ got[p]
    BY <1>1, <1>2, <1>4
  <2>2. k * PageSize < RankIn(listing, c)
    BY <2>1 DEF FetchPage, FetchInv, FetchOf
  <2> QED
    BY <1>1, <2>1, <2>2, PageCovers DEF TypeOK
<1>5. ASSUME ~HasMore(k) PROVE atStart[p] \subseteq got'[p]
  <2> SUFFICES ASSUME NEW c \in atStart[p] \ got'[p] PROVE FALSE
    OBVIOUS
  <2>1. (k + 1) * PageSize < RankIn(listing, c)
    BY <1>4
  <2>2. RankIn(listing, c) <= (k + 1) * PageSize
    BY <1>1, <1>2, <1>5, LastPage DEF TypeOK
  <2>3. c \in Cards /\ listing \in SUBSET Cards
    BY <1>2 DEF TypeOK
  <2>4. RankIn(listing, c) \in Nat
    BY <2>3, RankType
  <2>5. PageSize \in Nat /\ k + 1 \in Nat
    BY <1>1, ClientAssumption
  <2>6. (k + 1) * PageSize \in Nat
    BY <2>5
  <2> QED
    BY <2>1, <2>2, <2>4, <2>6
<1>6. pc'[p] # "idle" /\ pc'[p] # "meta" /\ pc'[p] # "writing"
  BY <1>1
<1> HIDE DEF k
<1>7. CASE HasMore(k)
  <2>1. pc'[p] = "page"
    BY <1>1, <1>7
  <2> QED
    BY <1>1, <1>2, <1>3, <1>4, <2>1 DEF FetchOf
<1>8. CASE ~HasMore(k)
  <2>1. pc'[p] = "write"
    BY <1>1, <1>8
  <2> QED
    BY <1>1, <1>2, <1>3, <1>5, <1>8, <2>1 DEF FetchOf
<1> QED
  BY <1>7, <1>8

\* The invariant is kept, one case per action of the process that moves.
LEMMA FetchStep ==
    ASSUME TypeOK, TypeOK', FetchInv, [Next]_vars
    PROVE  FetchInv'
<1> SUFFICES ASSUME ~withdrawn', NEW q \in Procs PROVE FetchOf(q)'
  BY DEF FetchInv
<1>grows. ~withdrawn /\ listing \subseteq listing'
  BY ListingGrows
<1>world. CASE UNCHANGED load
  BY <1>world, <1>grows, StandingStill DEF load
<1>other. ASSUME NEW p \in Procs, p # q, Client(p) PROVE FetchOf(q)'
  <2>1. /\ pc'[q] = pc[q]
        /\ page'[q] = page[q]
        /\ got'[q] = got[q]
        /\ atStart'[q] = atStart[q]
    BY <1>other
       DEF Client, Proceed, ServeFresh, StartFetch, FetchMeta, FetchPage, RetryRequest,
           RequestFails, StartWrite, FinishWrite, WriteFails, FallBack, Crash, Return,
           load, TypeOK
  <2> QED
    BY <2>1, <1>grows, StandingStill
<1>1. ASSUME NEW force \in BOOLEAN, StartFetch(q, force) PROVE FetchOf(q)'
  BY <1>1, <1>grows DEF StartFetch, FetchInv, FetchOf, TypeOK, world, Fetching
<1>2. CASE FetchMeta(q)
  <2>1. ASSUME NEW c \in atStart[q] PROVE page[q] * PageSize < RankIn(listing, c)
    <3>1. page[q] = 0 /\ c \in listing
      BY <1>2, <2>1, <1>grows DEF FetchMeta, FetchInv, FetchOf, Fetching
    <3>2. 0 < RankIn(listing, c)
      BY <3>1, RankPositive DEF TypeOK
    <3> QED
      BY <3>1, <3>2, ClientAssumption
  <2> QED
    BY <1>2, <2>1, <1>grows DEF FetchMeta, FetchInv, FetchOf, TypeOK, world, Fetching
<1>3. CASE RetryRequest(q)
  BY <1>3, <1>grows, StandingStill DEF RetryRequest
<1>4. CASE RequestFails(q)
  BY <1>4, <1>grows DEF RequestFails, FetchInv, FetchOf, TypeOK, world, Fetching
<1>5. CASE StartWrite(q)
  BY <1>5, <1>grows DEF StartWrite, FetchInv, FetchOf, TypeOK, world, Fetching
<1>6. ASSUME NEW cards, Return(q, cards) PROVE FetchOf(q)'
  BY <1>6, Returned
<1> QED
  BY <1>grows, <1>world, <1>other, <1>1, <1>2, <1>3, <1>4, <1>5, <1>6, PageReceived
     DEF Next, Client, Proceed, World, ServeFresh, FinishWrite, WriteFails, FallBack,
         Crash, NextDay, Upgrade, Publish, Withdraw, Announce, vars, load

\* A fetch returns every card that was listed when it began and none that was
\* not listed, for any number of processes, until Scryfall withdraws a card.
THEOREM FetchesMissNothing == Spec => []FetchMissesNothing
<1>1. Init => FetchInv
  BY DEF Init, FetchInv, FetchOf, Fetching
<1>2. TypeOK /\ TypeOK' /\ FetchInv /\ [Next]_vars => FetchInv'
  BY FetchStep
<1>3. FetchInv => FetchMissesNothing
  BY DEF FetchInv, FetchOf, FetchMissesNothing
<1> QED
  BY <1>1, <1>2, <1>3, ClientTypes, PTL DEF Spec
-----------------------------------------------------------------------------
\* What is served.

\* The cache, if there is one, holds what was served last; and a load under way
\* has seen all that was served when last none was under way.
ServedInv ==
    ~withdrawn =>
        /\ settled \subseteq served
        /\ served \subseteq listing
        /\ cache # NoCache => cache.cards = served
        /\ \A p \in Procs : pc[p] \in Fetching => settled \subseteq atStart[p]

\* A load that returns keeps it, if what it returns covers "settled" and is what
\* it leaves in the cache, if it leaves anything there.
LEMMA ReturnServes ==
    ASSUME TypeOK, ~withdrawn, ServedInv, UNCHANGED world,
           NEW p \in Procs, NEW cards, Return(p, cards),
           settled \subseteq cards, cards \subseteq listing,
           cache' # NoCache => cache'.cards = cards
    PROVE  ServedInv'
<1>1. served' = cards /\ settled' \subseteq cards /\ listing' = listing
  BY DEF Return, world
<1>2. ASSUME NEW q \in Procs, pc'[q] \in Fetching
      PROVE  settled' \subseteq atStart'[q]
  <2>1. q # p /\ pc[q] # "idle" /\ pc[q] \in Fetching /\ atStart'[q] = atStart[q]
    BY <1>2 DEF Return, TypeOK, Fetching
  <2>2. settled' = settled
    BY <2>1 DEF Return
  <2> QED
    BY <2>1, <2>2 DEF ServedInv
<1> QED
  BY <1>1, <1>2 DEF ServedInv

\* The invariant is kept, one case per kind of action.
LEMMA ServedStep ==
    ASSUME TypeOK, FetchInv, ServedInv, [Next]_vars
    PROVE  ServedInv'
<1> SUFFICES ASSUME ~withdrawn' PROVE ServedInv'
  BY DEF ServedInv
<1>grows. ~withdrawn /\ listing \subseteq listing'
  BY ListingGrows
<1>world. CASE UNCHANGED <<cache, load, result>>
  BY <1>world, <1>grows DEF ServedInv, load, result
<1>1. ASSUME NEW p \in Procs, ServeFresh(p) PROVE ServedInv'
  <2>1. cache # NoCache /\ cache' = cache
    BY <1>1 DEF ServeFresh, HasFreshCache
  <2>2. settled \subseteq cache.cards /\ cache.cards \subseteq listing
    BY <2>1, <1>grows DEF ServedInv
  <2> QED
    BY <1>1, <2>1, <2>2, <1>grows, ReturnServes DEF ServeFresh
<1>2. ASSUME NEW p \in Procs, NEW force \in BOOLEAN, StartFetch(p, force) PROVE ServedInv'
  <2>1. /\ UNCHANGED <<cache, listing, served, settled>>
        /\ atStart'[p] = listing
        /\ \A q \in Procs \ {p} : pc'[q] = pc[q] /\ atStart'[q] = atStart[q]
    BY <1>2 DEF StartFetch, TypeOK, world, result
  <2>2. \A q \in Procs : pc'[q] \in Fetching => settled \subseteq atStart'[q]
    BY <2>1, <1>grows DEF ServedInv
  <2> QED
    BY <2>1, <2>2, <1>grows DEF ServedInv
<1>3. ASSUME NEW p \in Procs,
             FetchMeta(p) \/ FetchPage(p) \/ RetryRequest(p) \/ RequestFails(p) \/ StartWrite(p)
      PROVE  ServedInv'
  <2>1. /\ UNCHANGED <<listing, served, settled, atStart>>
        /\ cache' = cache \/ cache' = NoCache
    BY <1>3 DEF FetchMeta, FetchPage, RetryRequest, RequestFails, StartWrite, world, result
  <2>2. \A q \in Procs : pc'[q] \in Fetching => pc[q] \in Fetching
    BY <1>3 DEF FetchMeta, FetchPage, RetryRequest, RequestFails, StartWrite, TypeOK, Fetching
  <2> QED
    BY <2>1, <2>2, <1>grows DEF ServedInv
<1>4. ASSUME NEW p \in Procs, FinishWrite(p) PROVE ServedInv'
  <2>1. settled \subseteq got[p] /\ got[p] \subseteq listing
    BY <1>4, <1>grows DEF FinishWrite, FetchInv, FetchOf, ServedInv, Fetching
  <2>2. cache' # NoCache => cache'.cards = got[p]
    BY <1>4 DEF FinishWrite, FetchedBy
  <2> QED
    BY <1>4, <2>1, <2>2, <1>grows, ReturnServes DEF FinishWrite
<1>5. ASSUME NEW p \in Procs, WriteFails(p) \/ Crash(p) PROVE ServedInv'
  <2>1. Return(p, served) /\ UNCHANGED world /\ (cache' = cache \/ cache' = NoCache)
    BY <1>5 DEF WriteFails, Crash
  <2>2. settled \subseteq served /\ served \subseteq listing
    BY <1>grows DEF ServedInv
  <2>3. cache' # NoCache => cache'.cards = served
    BY <2>1, <1>grows DEF ServedInv
  <2> QED
    BY <2>1, <2>2, <2>3, <1>grows, ReturnServes
<1>6. ASSUME NEW p \in Procs, FallBack(p) PROVE ServedInv'
  <2>1. Return(p, served) /\ UNCHANGED <<cache, world>>
    BY <1>6, <1>grows DEF FallBack, ServedInv
  <2>2. settled \subseteq served /\ served \subseteq listing
    BY <1>grows DEF ServedInv
  <2>3. cache' # NoCache => cache'.cards = served
    BY <2>1, <1>grows DEF ServedInv
  <2> QED
    BY <2>1, <2>2, <2>3, <1>grows, ReturnServes
<1> QED
  BY <1>grows, <1>world, <1>1, <1>2, <1>3, <1>4, <1>5, <1>6
     DEF Next, Client, Proceed, World, NextDay, Upgrade, Publish, Withdraw, Announce, vars,
         load, result

\* Whatever loads overlap, fail or are killed, none leaves less served than was
\* served before they began, until Scryfall withdraws a card.
THEOREM ServedNeverFallsBehind == Spec => []ServedNeverBehind
<1>1. Init => FetchInv /\ ServedInv
  BY DEF Init, FetchInv, FetchOf, ServedInv, Fetching
<1>2. TypeOK /\ TypeOK' /\ FetchInv /\ ServedInv /\ [Next]_vars => FetchInv' /\ ServedInv'
  BY FetchStep, ServedStep
<1>3. ServedInv => ServedNeverBehind
  BY DEF ServedInv, ServedNeverBehind
<1> QED
  BY <1>1, <1>2, <1>3, ClientTypes, PTL DEF Spec
=============================================================================
