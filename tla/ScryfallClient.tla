--------------------------- MODULE ScryfallClient ---------------------------
(***************************************************************************)
(* The caching Scryfall client (mtg-scryfall/src/client.rs and cache.rs),  *)
(* for one set: its listing, the cache file that the processes share, and  *)
(* the loads of cards_in_set and refresh_set.                              *)
(*                                                                         *)
(* Scryfall lists cards in the order of their names, which here is the     *)
(* order of the numbers that stand for them, in pages that it cuts anew    *)
(* for every request.  Days are numbers.  A file that does not parse and   *)
(* one that does not exist are the same to the client: NoCache.            *)
(***************************************************************************)
EXTENDS Naturals, FiniteSets

CONSTANTS
    Procs,              \* the processes that use the client
    Cards,              \* every card the set may come to have
    PageSize,           \* cards on a page of a Scryfall search
    MaxRetries,         \* MAX_RETRIES
    RefreshWindowDays,  \* REFRESH_WINDOW_DAYS
    ReleaseDay,         \* the day the set is released
    MaxDay,             \* bound: the last day considered
    MaxVersion,         \* bound: the last CACHE_SCHEMA_VERSION
    NoDate,             \* released_at is null
    NoCache             \* no file, or none that parses

ASSUME ClientAssumption ==
    /\ Cards \subseteq Nat
    /\ IsFiniteSet(Cards)
    /\ PageSize \in Nat \ {0}
    /\ MaxRetries \in Nat \ {0}
    /\ RefreshWindowDays \in Nat
    /\ ReleaseDay \in Nat
    /\ MaxDay \in Nat
    /\ MaxVersion \in Nat \ {0}
    /\ NoDate \notin Nat

VARIABLES
    today,     \* the date
    version,   \* CACHE_SCHEMA_VERSION of the installed program
    listing,   \* the cards Scryfall lists
    released,  \* the release date Scryfall gives
    cache,     \* the cache file
    pc,        \* the place of each process in load_set
    attempt,   \* attempt, in get_json
    page,      \* pages received
    got,       \* cards
    meta,      \* meta.released_at
    served,    \* what the last successful load returned
    atStart,   \* for properties: what was listed when the load began
    withdrawn, \* for properties: Scryfall has dropped a card
    settled    \* for properties: what was served when last no load was under way;
               \* empty once a card is dropped

world == <<today, version, listing, released, withdrawn>>
load == <<pc, attempt, page, got, meta, atStart>>
result == <<served, settled>>
vars == <<today, version, listing, released, cache, pc, attempt, page, got, meta,
          served, atStart, withdrawn, settled>>

Dates == {NoDate, ReleaseDay}

\* A CachedSet; its fetched_at is only ever printed.
Payloads == [version : 1 .. MaxVersion, released : Dates, cards : SUBSET Cards]

\* Where each process is: a request for the set or for a page of the search, the
\* file not yet and already truncated, the fetch given up.
Places == {"idle", "meta", "page", "write", "writing", "fallback"}

-----------------------------------------------------------------------------
\* Scryfall.

RankIn(cards, c) == Cardinality({d \in cards : d <= c})

\* The cards after the first k pages, up to the end of the next one.
OnPage(k) ==
    {c \in listing : /\ k * PageSize < RankIn(listing, c)
                     /\ RankIn(listing, c) <= (k + 1) * PageSize}

HasMore(k) == (k + 1) * PageSize < Cardinality(listing)

\* "MTG sets are frozen after release" (cache.rs).
Frozen == released # NoDate /\ released <= today

-----------------------------------------------------------------------------
\* read_fresh_cache with CachedSet::is_fresh.
HasFreshCache ==
    /\ cache # NoCache
    /\ cache.version = version
    /\ cache.released # NoDate
    /\ cache.released + RefreshWindowDays <= today

FetchedBy(p) == [version |-> version, released |-> meta[p], cards |-> got[p]]

Init ==
    /\ today = 0
    /\ version = 1
    /\ listing \in SUBSET Cards
    /\ released \in Dates
    /\ cache = NoCache
    /\ pc = [p \in Procs |-> "idle"]
    /\ attempt = [p \in Procs |-> 0]
    /\ page = [p \in Procs |-> 0]
    /\ got = [p \in Procs |-> {}]
    /\ meta = [p \in Procs |-> NoDate]
    /\ atStart = [p \in Procs |-> {}]
    /\ served = {}
    /\ withdrawn = FALSE
    /\ settled = {}

\* The locals of load_set end with it; "cards" is what it leaves as served last.
Return(p, cards) ==
    /\ pc' = [pc EXCEPT ![p] = "idle"]
    /\ attempt' = [attempt EXCEPT ![p] = 0]
    /\ page' = [page EXCEPT ![p] = 0]
    /\ got' = [got EXCEPT ![p] = {}]
    /\ meta' = [meta EXCEPT ![p] = NoDate]
    /\ atStart' = [atStart EXCEPT ![p] = {}]
    /\ served' = cards
    /\ settled' = IF ~withdrawn /\ \A q \in Procs \ {p} : pc[q] = "idle"
                  THEN cards ELSE settled

-----------------------------------------------------------------------------
\* load_set.

\* cards_in_set, when the cache is fresh.
ServeFresh(p) ==
    /\ pc[p] = "idle"
    /\ HasFreshCache
    /\ Return(p, cache.cards)
    /\ UNCHANGED <<world, cache>>

\* cards_in_set otherwise, and refresh_set at any time.
StartFetch(p, forceRefresh) ==
    /\ pc[p] = "idle"
    /\ forceRefresh \/ ~HasFreshCache
    /\ pc' = [pc EXCEPT ![p] = "meta"]
    /\ atStart' = [atStart EXCEPT ![p] = listing]
    /\ UNCHANGED <<world, cache, attempt, page, got, meta, result>>

FetchMeta(p) ==
    /\ pc[p] = "meta"
    /\ pc' = [pc EXCEPT ![p] = "page"]
    /\ attempt' = [attempt EXCEPT ![p] = 0]
    /\ meta' = [meta EXCEPT ![p] = released]
    /\ UNCHANGED <<world, cache, page, got, atStart, result>>

\* Mutation: only the first page is read.
FetchFirstPage(p) ==
    /\ pc[p] = "page"
    /\ got' = [got EXCEPT ![p] = OnPage(page[p])]
    /\ page' = [page EXCEPT ![p] = @ + 1]
    /\ attempt' = [attempt EXCEPT ![p] = 0]
    /\ pc' = [pc EXCEPT ![p] = "write"]
    /\ UNCHANGED <<world, cache, meta, atStart, result>>

\* A card that moved to the next page between two requests is received twice,
\* which a set of cards does not show.
FetchPage(p) ==
    /\ pc[p] = "page"
    /\ got' = [got EXCEPT ![p] = @ \cup OnPage(page[p])]
    /\ page' = [page EXCEPT ![p] = @ + 1]
    /\ attempt' = [attempt EXCEPT ![p] = 0]
    /\ pc' = [pc EXCEPT ![p] = IF HasMore(page[p]) THEN "page" ELSE "write"]
    /\ UNCHANGED <<world, cache, meta, atStart, result>>

\* Mutation: every response with status 429 is retried.
RetryAgain(p) ==
    /\ pc[p] \in {"meta", "page"}
    /\ attempt' = [attempt EXCEPT ![p] = @ + 1]
    /\ UNCHANGED <<world, cache, pc, page, got, meta, atStart, result>>

\* get_json: a response with status 429, other than the last one allowed.
RetryRequest(p) ==
    /\ pc[p] \in {"meta", "page"}
    /\ attempt[p] + 1 < MaxRetries
    /\ attempt' = [attempt EXCEPT ![p] = @ + 1]
    /\ UNCHANGED <<world, cache, pc, page, got, meta, atStart, result>>

\* Any other error of get_json, from any attempt.
RequestFails(p) ==
    /\ pc[p] \in {"meta", "page"}
    /\ pc' = [pc EXCEPT ![p] = "fallback"]
    /\ attempt' = [attempt EXCEPT ![p] = 0]
    /\ UNCHANGED <<world, cache, page, got, meta, atStart, result>>

\* std::fs::write truncates the file and then writes to it.
StartWrite(p) ==
    /\ pc[p] = "write"
    /\ cache' = NoCache
    /\ pc' = [pc EXCEPT ![p] = "writing"]
    /\ UNCHANGED <<world, attempt, page, got, meta, atStart, result>>

\* Two writes that overlap may leave a file that does not parse.
FinishWrite(p) ==
    /\ pc[p] = "writing"
    /\ \/ cache' = FetchedBy(p)
       \/ /\ cache # NoCache \/ \E q \in Procs \ {p} : pc[q] = "writing"
          /\ cache' = NoCache
    /\ Return(p, got[p])
    /\ UNCHANGED world

\* The file cannot be opened, or not be written to its end.
WriteFails(p) ==
    /\ pc[p] \in {"write", "writing"}
    /\ cache' = IF pc[p] = "write" THEN cache ELSE NoCache
    /\ Return(p, served)
    /\ UNCHANGED world

\* Mutation: what was received before the error is returned.
FallBackToPartial(p) ==
    /\ pc[p] = "fallback"
    /\ Return(p, got[p])
    /\ UNCHANGED <<world, cache>>

\* The stale cache, or the error.
FallBack(p) ==
    /\ pc[p] = "fallback"
    /\ Return(p, IF cache # NoCache THEN cache.cards ELSE served)
    /\ UNCHANGED <<world, cache>>

Crash(p) ==
    /\ pc[p] # "idle"
    /\ Return(p, served)
    /\ UNCHANGED <<world, cache>>

-----------------------------------------------------------------------------
\* The world.

NextDay ==
    /\ today < MaxDay
    /\ today' = today + 1
    /\ UNCHANGED <<version, listing, released, withdrawn, cache, load, result>>

\* A new version of the program, with another cache schema, is installed.
Upgrade ==
    /\ version < MaxVersion
    /\ \A p \in Procs : pc[p] = "idle"
    /\ version' = version + 1
    /\ UNCHANGED <<today, listing, released, withdrawn, cache, load, result>>

Publish ==
    /\ ~Frozen
    /\ \E c \in Cards \ listing : listing' = listing \cup {c}
    /\ UNCHANGED <<today, version, released, withdrawn, cache, load, result>>

\* Nothing is said of what was served before a withdrawal: "settled" ends there.
Withdraw ==
    /\ \E c \in listing : listing' = listing \ {c}
    /\ withdrawn' = TRUE
    /\ settled' = {}
    /\ UNCHANGED <<today, version, released, cache, load, served>>

Announce ==
    /\ released = NoDate
    /\ released' = ReleaseDay
    /\ UNCHANGED <<today, version, listing, withdrawn, cache, load, result>>

-----------------------------------------------------------------------------
Proceed(p) ==
    \/ FetchMeta(p)
    \/ FetchPage(p)
    \/ RetryRequest(p)
    \/ RequestFails(p)
    \/ StartWrite(p)
    \/ FinishWrite(p)
    \/ WriteFails(p)
    \/ FallBack(p)

Client(p) ==
    \/ ServeFresh(p)
    \/ \E forceRefresh \in BOOLEAN : StartFetch(p, forceRefresh)
    \/ Proceed(p)
    \/ Crash(p)

World == NextDay \/ Upgrade \/ Publish \/ Withdraw \/ Announce

Next == (\E p \in Procs : Client(p)) \/ World

Spec == Init /\ [][Next]_vars
-----------------------------------------------------------------------------
\* Properties.

\* Every variable has its type.
TypeOK ==
    /\ today \in 0 .. MaxDay
    /\ version \in 1 .. MaxVersion
    /\ listing \in SUBSET Cards
    /\ released \in Dates
    /\ cache \in Payloads \cup {NoCache}
    /\ pc \in [Procs -> Places]
    /\ attempt \in [Procs -> 0 .. MaxRetries - 1]
    /\ page \in [Procs -> Nat]
    /\ got \in [Procs -> SUBSET Cards]
    /\ meta \in [Procs -> Dates]
    /\ atStart \in [Procs -> SUBSET Cards]
    /\ served \in SUBSET Cards
    /\ withdrawn \in BOOLEAN
    /\ settled \in SUBSET Cards

\* A fetch misses no card that was listed when it began, although cards are
\* published between the requests for its pages and move the page boundaries,
\* and it makes none up; as long as Scryfall drops no card.
FetchMissesNothing ==
    ~withdrawn =>
        \A p \in Procs : pc[p] \in {"write", "writing"} =>
            atStart[p] \subseteq got[p] /\ got[p] \subseteq listing

\* Loads that overlap may take back what is served, as the one that began first
\* may write last, but never behind what was served before they began; so loads
\* that take turns, like the commands of a workflow, serve more and more.  The
\* diff of the corpus report depends on it: it forgets a card that is missing from
\* a listing.  It holds over failed requests, torn files, schema changes and stale
\* caches, as long as Scryfall drops no card.
ServedNeverBehind == ~withdrawn => settled \subseteq served

=============================================================================
