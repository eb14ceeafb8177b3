--------------------------- MODULE CommentSection ---------------------------
(***************************************************************************)
(* The comments under one post as one reader sees them: the component      *)
(* components/social/comment-section.tsx, the comments of the social store *)
(* (stores/social-store.ts) and the listing of                             *)
(* GET /social/posts/:id/comments.  A comment the reader writes goes into  *)
(* the store when it is acknowledged and stays there until a listing has   *)
(* brought it; listings are pages fetched again, one after the other,      *)
(* whenever somebody comments.                                             *)
(*                                                                         *)
(* Comments are root comments, numbers in the order (createdAt, id); the   *)
(* replies a root carries are part of its row.                             *)
(***************************************************************************)
EXTENDS Naturals, Sequences, FiniteSets, FiniteSetsExt, SequencesExt

CONSTANTS
  Comments,   \* the comments that may exist: numbers, in the order of creation
  Old,        \* those there when the section is opened
  Limit,      \* comments a page (COMMENTS_DEFAULT_LIMIT)
  None        \* no request in flight

CommentAssumption ==
  /\ Comments \subseteq Nat \ {0} /\ Comments # {} /\ IsFiniteSet(Comments)
  /\ Old \subseteq Comments /\ Limit \in Nat \ {0}

VARIABLES
  rows,         \* comments in the database that are listed
  written,      \* all comments written so far
  posting,      \* None, or the reader's comment being posted
  acked,        \* history: the reader's comments the server acknowledged
  postComments, \* the store: acknowledged and not yet listed
  pages,        \* the pages of the infinite query
  fetch,        \* None, or its fetch in flight
  likes,        \* likes of comments in flight
  likePending,  \* comments whose like button is waiting
  latest        \* None, or the comment of the latest like: the one whose
                \* callbacks the mutation still calls

vars == <<rows, written, posting, acked, postComments, pages, fetch, likes,
          likePending, latest>>
list == <<postComments, pages, fetch>>
hearts == <<likes, likePending, latest>>

Top == 1 + Max(Comments)    \* no cursor
End == 0                    \* nextCursor null

Init ==
  /\ rows = Old /\ written = Old
  /\ posting = None /\ acked = {} /\ postComments = {}
  /\ pages = <<>> /\ fetch = None
  /\ likes = {} /\ likePending = {} /\ latest = None

-----------------------------------------------------------------------------
(* GET .../comments: the newest rows older than the cursor, one more than   *)
(* shown to know whether there is a next page.                              *)
Older(cur) == {c \in rows : c < cur}
PageOf(cur) ==
  LET shown == {c \in Older(cur) : Cardinality({d \in Older(cur) : d > c}) < Limit}
  IN  [comments |-> shown,
       next |-> IF shown = Older(cur) THEN End ELSE Min(shown)]

NextParam == IF pages = <<>> THEN End ELSE Last(pages).next

(* Mount, and invalidateQueries: what is loaded is fetched again, and a     *)
(* fetch in flight is cancelled.                                            *)
Refetched ==
  [all |-> TRUE, want |-> IF pages = <<>> THEN 1 ELSE Len(pages), base |-> <<>>,
   cursor |-> Top, answer |-> None]

(* "comment-added", whenever it comes.                                      *)
Invalidate ==
  /\ fetch' = Refetched
  /\ UNCHANGED <<rows, written, posting, acked, postComments, pages, hearts>>

(* "Carregar mais".                                                         *)
FetchNext ==
  /\ NextParam # End
  /\ fetch # None => fetch.all
  /\ fetch' = [all |-> FALSE, want |-> Len(pages) + 1, base |-> pages,
               cursor |-> NextParam, answer |-> None]
  /\ UNCHANGED <<rows, written, posting, acked, postComments, pages, hearts>>

(* The server reads the page asked for ...                                  *)
Serve ==
  /\ fetch # None /\ fetch.answer = None
  /\ fetch' = [fetch EXCEPT !.answer = PageOf(fetch.cursor)]
  /\ UNCHANGED <<rows, written, posting, acked, postComments, pages, hearts>>

(* pruneSyncedComments: the store lets go of what the pages show.           *)
Pruned(shown) == postComments \ UNION {shown[i].comments : i \in DOMAIN shown}

PrunedAll(shown) ==
  IF \E i \in DOMAIN shown : shown[i].comments # {} THEN {} ELSE postComments

Synced(shown) == Pruned(shown)

(* ... and it arrives: the next page is asked for, or the fetch is done.    *)
Arrive ==
  /\ fetch # None /\ fetch.answer # None
  /\ LET got == Append(fetch.base, fetch.answer)
     IN  IF Len(got) = fetch.want \/ fetch.answer.next = End
         THEN /\ pages' = got /\ postComments' = Synced(got) /\ fetch' = None
         ELSE /\ fetch' = [fetch EXCEPT !.base = got, !.answer = None,
                                        !.cursor = fetch.answer.next]
              /\ UNCHANGED <<pages, postComments>>
  /\ UNCHANGED <<rows, written, posting, acked, hearts>>

FetchFails ==
  /\ fetch # None
  /\ fetch' = None
  /\ UNCHANGED <<rows, written, posting, acked, postComments, pages, hearts>>

-----------------------------------------------------------------------------
(* Somebody else comments, or a comment is removed.                         *)
OtherComments(c) ==
  /\ c \notin written
  /\ rows' = rows \cup {c} /\ written' = written \cup {c}
  /\ UNCHANGED <<posting, acked, list, hearts>>

RemoveComment(c) ==
  /\ c \in rows \cap Old
  /\ rows' = rows \ {c}
  /\ UNCHANGED <<written, posting, acked, list, hearts>>

(* handleSubmit: one comment at a time, stored by the server ...            *)
Submit(c) ==
  /\ posting = None /\ c \notin written
  /\ posting' = c /\ written' = written \cup {c} /\ rows' = rows \cup {c}
  /\ UNCHANGED <<acked, list, hearts>>

(* ... and acknowledged: into the store, and the list is fetched again.     *)
Acknowledge ==
  /\ posting # None
  /\ acked' = acked \cup {posting}
  /\ postComments' = postComments \cup {posting}
  /\ fetch' = Refetched
  /\ posting' = None
  /\ UNCHANGED <<rows, written, pages, hearts>>

(* The answer is lost: the text stays in the composer.                      *)
AnswerLost ==
  /\ posting # None
  /\ posting' = None
  /\ UNCHANGED <<rows, written, acked, list, hearts>>

-----------------------------------------------------------------------------
(* Likes: the button waits, and the mutation keeps the callbacks of its     *)
(* latest call only.                                                        *)
Shown == postComments \cup UNION {pages[i].comments : i \in DOMAIN pages}

Like(c) ==
  /\ c \in Shown /\ c \notin likePending
  /\ c \notin likes
  /\ likes' = likes \cup {c} /\ likePending' = likePending \cup {c} /\ latest' = c
  /\ UNCHANGED <<rows, written, posting, acked, list>>

SettledByAnswer(c) == likePending

(* onSettled, of the latest call.                                           *)
Settled(c) == IF c = latest THEN likePending \ {c} ELSE likePending

(* It is answered or fails; both settle it.                                 *)
LikeAnswered(c) ==
  /\ c \in likes
  /\ likes' = likes \ {c}
  /\ likePending' = Settled(c)
  /\ UNCHANGED <<rows, written, posting, acked, list, latest>>

-----------------------------------------------------------------------------
Next ==
  \/ Invalidate \/ FetchNext \/ Serve \/ Arrive \/ FetchFails
  \/ Acknowledge \/ AnswerLost
  \/ \E c \in Comments :
       OtherComments(c) \/ RemoveComment(c) \/ Submit(c) \/ Like(c) \/ LikeAnswered(c)

Spec == Init /\ [][Next]_vars

-----------------------------------------------------------------------------
TypeOK ==
  /\ rows \subseteq written /\ written \subseteq Comments
  /\ acked \subseteq written /\ postComments \subseteq acked
  /\ likes \subseteq likePending /\ likePending \subseteq Comments

(* A comment the server acknowledged stays on the reader's screen: from the *)
(* store until a listing has it, from the listing afterwards, unless it     *)
(* lies on a page not loaded yet, whatever listings were in flight when it  *)
(* was written ("sem flicker nem corrida com um POST em voo").              *)
AcknowledgedShown ==
  \A c \in acked \cap rows : c \in Shown \/ (pages # <<>> /\ c < NextParam)

(* The button of the comment liked last waits for a request that is in      *)
(* flight, however the likes of other comments are answered meanwhile.      *)
LatestLikeInFlight == latest \in likePending => latest \in likes

=============================================================================
