----------------------------- MODULE AdminPages ----------------------------
(***************************************************************************)
(* Paging through credentials or history in the admin UI: keyset cursors   *)
(* in both directions over rows that come and go between two pages. A row  *)
(* stands for its key, the id of a credential or the time and id of an     *)
(* event, and a later key is a greater number.                             *)
(***************************************************************************)
EXTENDS Naturals, FiniteSets

CONSTANTS
    KeyCount,       \* keys are 1..KeyCount
    Matching,       \* the keys of the rows that the filter lets through
    Size,           \* adminPageSize
    None

Keys == 1..KeyCount
ASSUME PagesAssumption ==
    /\ KeyCount \in Nat /\ Size \in Nat \ {0}
    /\ Matching \subseteq Keys

VARIABLES
    table,      \* keys of the rows there are
    gone,       \* keys of deleted rows; a UUID does not come back
    page,       \* the page shown: its rows and what its two links hold
    (* what the properties compare it with *)
    seen,       \* rows shown since the first page
    kept,       \* rows that were there when the first page was asked for and still are
    fresh,      \* nothing was inserted or deleted since the page was asked for
    left        \* rows of the page whose link led here, None if they may have changed

vars == <<table, gone, page, seen, kept, fresh, left>>

Cursor == [key : Keys, back : BOOLEAN]
Page == [rows : SUBSET Keys, cursor : Cursor \cup {None},
         previous : Keys \cup {None}, next : Keys \cup {None}]
ASSUME NoneAssumption == None \notin Keys /\ None \notin Cursor /\ None \notin Page

TypeOK ==
    /\ table \subseteq Keys /\ gone \subseteq Keys \ table
    /\ page \in Page \cup {None}
    /\ seen \subseteq Keys /\ kept \subseteq table \cap Matching
    /\ fresh \in BOOLEAN
    /\ left \in (SUBSET Keys) \cup {None}

Init ==
    /\ table \in SUBSET Keys /\ gone = {}
    /\ page = None /\ seen = {} /\ kept = {}
    /\ fresh = FALSE /\ left = None

-----------------------------------------------------------------------------
Newest(S) == CHOOSE k \in S : \A j \in S : j <= k
Oldest(S) == CHOOSE k \in S : \A j \in S : k <= j

(* The predicate a cursor adds to the query.                                *)
(* Faulty variant: events are compared by time only, and two share it.      *)
PastTime(k, c) ==
    c = None \/ (IF c.back THEN k \div 2 > c.key \div 2 ELSE k \div 2 < c.key \div 2)
Past(k, c) ==
    c = None \/ (IF c.back THEN k > c.key ELSE k < c.key)

(* ORDER BY and LIMIT: the first n rows of the traversal.                   *)
Earlier(S, k, back) == {j \in S : IF back THEN j < k ELSE j > k}
Limit(S, n, back) == {k \in S : Cardinality(Earlier(S, k, back)) < n}

(* One row more than a page holds is asked for, to know that there is more. *)
(* Faulty variant: only a page is.                                          *)
JustAPage == Size
Fetched == Size + 1

(* A page rendered newest first, so that previous leads on from its newest  *)
(* row and next from its oldest.                                            *)
(* Faulty variant: rows of a backward page stay in traversal order.         *)
Unreversed(rows, back) ==
    [newest |-> IF back THEN Oldest(rows) ELSE Newest(rows),
     oldest |-> IF back THEN Newest(rows) ELSE Oldest(rows)]
Ends(rows, back) == [newest |-> Newest(rows), oldest |-> Oldest(rows)]

(* adminPage and the links that are made of it.                             *)
PageOf(c) ==
    LET back == c # None /\ c.back
        found == Limit({k \in table \cap Matching : Past(k, c)}, Fetched, back)
        more == Cardinality(found) > Size
        rows == Limit(found, Size, back)
        previous == IF back THEN more ELSE c # None
        next == IF back THEN c # None ELSE more
    IN  [rows |-> rows, cursor |-> c,
         previous |-> IF rows # {} /\ previous THEN Ends(rows, back).newest ELSE None,
         next |-> IF rows # {} /\ next THEN Ends(rows, back).oldest ELSE None]

First ==
    /\ page' = PageOf(None)
    /\ seen' = page'.rows
    /\ kept' = table \cap Matching
    /\ fresh' = TRUE /\ left' = None
    /\ UNCHANGED <<table, gone>>

Follow(c) ==
    /\ page' = PageOf(c)
    /\ seen' = seen \cup page'.rows
    /\ fresh' = TRUE
    /\ left' = IF fresh THEN page.rows ELSE None
    /\ UNCHANGED <<table, gone, kept>>

FollowNext ==
    /\ page # None /\ page.next # None
    /\ Follow([key |-> page.next, back |-> FALSE])
FollowPrevious ==
    /\ page # None /\ page.previous # None
    /\ Follow([key |-> page.previous, back |-> TRUE])

Insert(k) ==
    /\ k \notin table \cup gone
    /\ table' = table \cup {k}
    /\ fresh' = FALSE /\ left' = None
    /\ UNCHANGED <<gone, page, seen, kept>>
Delete(k) ==
    /\ k \in table
    /\ table' = table \ {k} /\ gone' = gone \cup {k} /\ kept' = kept \ {k}
    /\ fresh' = FALSE /\ left' = None
    /\ UNCHANGED <<page, seen>>

Next ==
    \/ First \/ FollowNext \/ FollowPrevious
    \/ \E k \in Keys : Insert(k) \/ Delete(k)

Spec == Init /\ [][Next]_vars
-----------------------------------------------------------------------------
Forward == page # None /\ (page.cursor # None => ~page.cursor.back)

(* Whoever starts at the first page and follows links, in either direction, *)
(* until a page reached forward has no next link has met every row that was *)
(* there all the time, whatever was inserted and deleted meanwhile, also    *)
(* the rows the links themselves stand on (admin_queries.go, adminPage).    *)
SurvivorsMet == Forward /\ page.next = None => kept \subseteq seen

(* Turning round leads back: while nothing changes, previous after next and *)
(* next after previous show the very rows one came from (admin_queries.go,  *)
(* adminPage: traversal order and newest first).                            *)
RoundTrip ==
    [][ /\ page # None /\ page' # page
        /\ page'.cursor # None /\ page.cursor # None
        /\ page'.cursor.back # page.cursor.back
        /\ left # None /\ left' # None
        => page'.rows = left ]_vars

(* Everything newer than the page's oldest row has been shown, if it was    *)
(* there all the time.                                                      *)
NewerMet ==
    /\ \A k \in kept : page # None /\ page.next # None /\ k >= page.next => k \in seen
    /\ \A k \in kept : page # None /\ page.previous # None /\ k >= page.previous => k \in seen
    /\ page = None => kept = {}

(* While nothing changes, a page is what its query would find again, and it *)
(* knows the page whose link led to it.                                     *)
Current == fresh => page # None /\ page = PageOf(page.cursor)
LinkOf(p, back) == IF back THEN p.previous ELSE p.next
LedHere ==
    left # None =>
        /\ fresh /\ page.cursor # None
        /\ \E c \in Cursor \cup {None} :
              /\ left = PageOf(c).rows
              /\ page.cursor.key = LinkOf(PageOf(c), page.cursor.back)

IInv == TypeOK /\ NewerMet /\ SurvivorsMet /\ Current /\ LedHere
=============================================================================
