------------------------------ MODULE FeedPages ------------------------------
(***************************************************************************)
(* The feed of one viewer, read page by page while posts come, go and      *)
(* change visibility: getFeed of lib/social/feed-algorithm.ts with its     *)
(* keyset cursor and its cap of one pinned post a page, the page kept in   *)
(* Redis for viewers who follow many (lib/feed-cache.ts and its job), and  *)
(* the infinite query of hooks/use-feed.ts.  The posts of the "N new       *)
(* posts" pill are put above the pages and are left out.                   *)
(*                                                                         *)
(* A post is a number: the numbers are the order of (createdAt, id).  A    *)
(* page is the set of its posts: of the ranking only the place of pinned   *)
(* posts decides what a page holds, and among several pinned ones any may  *)
(* rank first.                                                             *)
(***************************************************************************)
EXTENDS Naturals, Sequences, FiniteSets, FiniteSetsExt, SequencesExt

CONSTANTS
  Posts,       \* the posts that may exist: numbers, in the order (createdAt, id)
  Old,         \* those that exist when the reading begins
  Pinned,      \* the pinned ones
  Take,        \* the size of a page (FEED_DEFAULT_LIMIT)
  CacheTake,   \* the size of the materialised page (FEED_MAX_LIMIT)
  MaxChanges,  \* bound on creations and on changes of visibility
  MaxRetries,  \* bound on refetches and on failed requests
  None         \* no cache, no request in flight

FeedAssumption ==
  /\ Posts \subseteq Nat \ {0} /\ IsFiniteSet(Posts) /\ Posts # {}
  /\ Old \subseteq Posts /\ Pinned \subseteq Posts
  /\ Take \in Nat \ {0} /\ CacheTake \in Nat \ {0}
  /\ MaxChanges \in Nat /\ MaxRetries \in Nat

VARIABLES
  open,     \* posts the query of the viewer selects: audience, author, isHidden
  private,  \* posts of authors whose profile is private and not followed
  cache,    \* None, or the materialised first page
  making,   \* None, or a page computed by refreshFeedCache and not yet stored
  pages,    \* the pages of the infinite query, first to last
  steady,   \* history: the posts visible ever since the first page was computed
  fetch,    \* None, or the fetch in flight of the infinite query
  changes, retries

vars == <<open, private, cache, making, pages, steady, fetch, changes,
          retries>>

Start == [at |-> 0, include |-> {}]            \* no cursor: from the newest post
End   == [at |-> 1 + Max(Posts), include |-> {}] \* nextCursor null

Newest(S, n) == {p \in S : Cardinality({q \in S : q > p}) < n}

(* What the query of getFeed reads: the newest posts older than the cursor, *)
(* or postponed by it.                                                      *)
Candidates(cur, n) ==
  Newest({p \in open : cur = Start \/ p < cur.at \/ p \in cur.include}, n)

(* applyPinnedCap, where `first` is the pinned post that ranks first.       *)
Dropped(visible, first) == (visible \cap Pinned) \ {first}

Least(S, otherwise) == IF S = {} THEN otherwise ELSE Min(S)

PivotOfPageOnly(cur, candidates, shown) ==
  IF cur = Start THEN Least(shown, 1 + Max(Posts)) ELSE Min({cur.at, Least(shown, cur.at)})

(* The pivot: the least post of the page, or of the window if the page is   *)
(* empty, and never newer than the cursor received; 0 is no pivot.          *)
Pivot(cur, candidates, shown) ==
  LET low == Least(shown, Least(candidates, 0))
  IN  CASE cur = Start -> low
        [] low = 0     -> cur.at
        [] OTHER       -> Min({low, cur.at})

Exhausted(candidates, n) == Cardinality(candidates) < n

CursorWithoutIncoming(cur, candidates, visible, shown, n) ==
  LET dropped == visible \ shown
  IN  IF candidates # {} /\ (~Exhausted(candidates, n) \/ dropped # {})
      THEN [at |-> Least(shown, Min(candidates)), include |-> dropped]
      ELSE End
CursorForgetsDropped(cur, candidates, visible, shown, n) ==
  IF candidates # {} /\ ~Exhausted(candidates, n)
  THEN [at |-> Pivot(cur, candidates, shown), include |-> {}]
  ELSE End
CursorByVisible(cur, candidates, visible, shown, n) ==
  IF visible # {} /\ (~Exhausted(visible, n) \/ visible # shown)
  THEN [at |-> Pivot(cur, candidates, shown), include |-> visible \ shown]
  ELSE End

NextCursor(cur, candidates, visible, shown, n) ==
  LET dropped == visible \ shown
      pivot   == Pivot(cur, candidates, shown)
  IN  IF pivot # 0 /\ (~Exhausted(candidates, n) \/ dropped # {})
      THEN [at |-> pivot, include |-> dropped]
      ELSE End

(* The pages getFeed may answer to a cursor.                                *)
getFeed(cur, n) ==
  LET candidates == Candidates(cur, n)
      visible    == candidates \ private
      page(shown) ==
        [posts |-> shown,
         next  |-> NextCursor(cur, candidates, visible, shown, n)]
  IN  IF visible \cap Pinned = {} THEN {page(visible)}
      ELSE {page(visible \ Dropped(visible, p)) : p \in visible \cap Pinned}

(* A first page comes with the posts visible when it was computed.          *)
FirstPages(n) == {[page |-> p, steady |-> open \ private] : p \in getFeed(Start, n)}

Cursor == [at : 0..(1 + Max(Posts)), include : SUBSET Posts]
Page   == [posts : SUBSET Posts, next : Cursor]

TypeOK ==
  /\ open \subseteq Posts /\ private \subseteq Posts
  /\ \A first \in {cache, making} \ {None} : first \in [page : Page, steady : SUBSET Posts]
  /\ pages \in Seq(Page) /\ steady \subseteq open \ private
  /\ fetch # None => fetch \in [all : BOOLEAN, want : Nat \ {0}, base : Seq(Page),
                               steady : SUBSET Posts]
  /\ changes \in 0..MaxChanges /\ retries \in 0..MaxRetries

Init ==
  /\ open = Old
  /\ private \in SUBSET Old
  /\ cache = None /\ making = None
  /\ pages = <<>> /\ steady = {} /\ fetch = None
  /\ changes = 0 /\ retries = 0

-----------------------------------------------------------------------------
(* Posts and their visibility.                                              *)

Change == changes < MaxChanges /\ changes' = changes + 1

(* A post is committed.  Its createdAt may lie before that of posts already *)
(* there.                                                                   *)
Create(p) ==
  /\ Change
  /\ p \notin open \cup Old
  /\ open' = open \cup {p}
  /\ UNCHANGED <<private, cache, making, pages, steady, fetch, retries>>

Without(first, p) ==
  IF first = None THEN None ELSE [first EXCEPT !.steady = @ \ {p}]

(* A post goes: deleted, hidden, its author banned or no longer followed    *)
(* (the query does not select it), or its author's profile made private.    *)
Lose(p) ==
  /\ Change
  /\ p \in open
  /\ \/ open' = open \ {p} /\ UNCHANGED private
     \/ p \notin private /\ private' = private \cup {p} /\ UNCHANGED open
  /\ steady' = steady \ {p}
  /\ cache'  = Without(cache, p)
  /\ making' = Without(making, p)
  /\ fetch'  = Without(fetch, p)
  /\ UNCHANGED <<pages, retries>>

(* The profile is opened again, or the viewer follows its author.           *)
Gain(p) ==
  /\ Change
  /\ p \in private
  /\ private' = private \ {p}
  /\ UNCHANGED <<open, cache, making, pages, steady, fetch, retries>>

-----------------------------------------------------------------------------
(* The materialised page.                                                   *)

(* refreshFeedCache, called by the daily job and after a post is created,   *)
(* for a viewer over the threshold: the page is computed ...                *)
Materialize ==
  /\ making = None
  /\ \E first \in FirstPages(CacheTake) : making' = first
  /\ UNCHANGED <<open, private, cache, pages, steady, fetch, changes, retries>>

(* ... and stored, in whatever state the posts are by then.                 *)
StorePage ==
  /\ making # None
  /\ cache' = making /\ making' = None
  /\ UNCHANGED <<open, private, pages, steady, fetch, changes, retries>>

(* The TTL ends, or the viewer falls under the threshold and it is deleted. *)
DropPage ==
  /\ cache # None
  /\ cache' = None
  /\ UNCHANGED <<open, private, making, pages, steady, fetch, changes, retries>>

-----------------------------------------------------------------------------
(* The infinite query.                                                      *)

NextParam == IF pages = <<>> THEN End ELSE Last(pages).next

(* Mount, pull to refresh, retry, and the invalidation after a post is      *)
(* created: all pages loaded so far are fetched again, one after the other, *)
(* and a fetch in flight is cancelled.                                      *)
Refetch ==
  /\ \/ pages = <<>> /\ fetch = None /\ UNCHANGED retries
     \/ pages # <<>> /\ retries < MaxRetries /\ retries' = retries + 1
  /\ fetch' = [all |-> TRUE, want |-> IF pages = <<>> THEN 1 ELSE Len(pages),
               base |-> <<>>, steady |-> {}]
  /\ UNCHANGED <<open, private, cache, making, pages, steady, changes>>

(* The sentinel is seen: fetchNextPage, from the pages there are now.       *)
FetchNext ==
  /\ NextParam # End
  /\ fetch # None => fetch.all     \* a refetch is cancelled
  /\ fetch' = [all |-> FALSE, want |-> Len(pages) + 1, base |-> pages, steady |-> steady]
  /\ UNCHANGED <<open, private, cache, making, pages, steady, changes, retries>>

(* What GET /social/feed answers to the page the fetch asks for next.       *)
Answers ==
  IF fetch.base = <<>>
  THEN IF cache # None THEN {cache} ELSE FirstPages(Take)
  ELSE {[page |-> p, steady |-> fetch.steady] : p \in getFeed(Last(fetch.base).next, Take)}

(* A page arrives: the next one is asked for, or the fetch is complete and  *)
(* its pages replace those there are, which may have changed meanwhile.     *)
Answer ==
  /\ fetch # None
  /\ \E a \in Answers :
       LET got == Append(fetch.base, a.page)
       IN  IF Len(got) = fetch.want \/ a.page.next = End
           THEN /\ pages' = got /\ steady' = a.steady /\ fetch' = None
           ELSE /\ fetch' = [fetch EXCEPT !.base = got, !.steady = a.steady]
                /\ UNCHANGED <<pages, steady>>
  /\ UNCHANGED <<open, private, cache, making, changes, retries>>

(* A request fails: the pages stay.                                         *)
Fail ==
  /\ fetch # None
  /\ retries < MaxRetries /\ retries' = retries + 1
  /\ fetch' = None
  /\ UNCHANGED <<open, private, cache, making, pages, steady, changes>>

-----------------------------------------------------------------------------
Next ==
  \/ \E p \in Posts : Create(p) \/ Lose(p) \/ Gain(p)
  \/ Materialize \/ StorePage \/ DropPage
  \/ Refetch \/ FetchNext \/ Answer \/ Fail

Spec == Init /\ [][Next]_vars

-----------------------------------------------------------------------------
(* No page repeats a post another page of the same reading served,          *)
(* whatever is created, hidden or postponed between the two requests        *)
(* ("não repete nem pula conteúdo visível").                                *)
ServedOnce ==
  \A i, j \in DOMAIN pages : i # j => pages[i].posts \cap pages[j].posts = {}

(* When the reading ends, no post that was visible all along has been       *)
(* skipped: neither one pushed out by the pinned cap, nor one behind a      *)
(* window of posts the viewer may not see, nor one after a cached page --   *)
(* provided that no page postponed more posts than the next one reads.  The *)
(* materialised page, which is longer, may, and what the next page does not *)
(* read of them is nowhere in its cursor (feed-algorithm.ts:303,322).       *)
NoneSkipped ==
  /\ pages # <<>> /\ NextParam = End
  /\ \A i \in DOMAIN pages : Cardinality(pages[i].next.include) <= Take
  => steady \subseteq UNION {pages[i].posts : i \in DOMAIN pages}

(* A page that shows nothing, since all its posts were filtered out, still  *)
(* moves the cursor: the pivot goes back, or nothing is postponed any more. *)
(* As no post is served twice, the reading of finitely many posts ends.     *)
Moves(cur, page) ==
  \/ page.posts # {}
  \/ page.next = End
  \/ page.next.at < cur.at
  \/ page.next.at = cur.at /\ page.next.include = {} /\ cur.include # {}

CursorMoves ==
  \A i \in 1..(Len(pages) - 1) : Moves(pages[i].next, pages[i + 1])

=============================================================================
