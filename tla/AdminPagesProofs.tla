--------------------------- MODULE AdminPagesProofs ------------------------
(***************************************************************************)
(* Paging through any table with pages of any size: no row that stays is   *)
(* passed over, and turning round leads back.                              *)
(***************************************************************************)
EXTENDS AdminPages, FiniteSetTheorems, WellFoundedInduction, TLAPS

LEMMA KeysFinite ==
    ASSUME NEW S \in SUBSET Keys
    PROVE  IsFiniteSet(S) /\ Cardinality(S) \in Nat
<1>1. IsFiniteSet(Keys)
  BY FS_Interval, PagesAssumption DEF Keys
<1>2. IsFiniteSet(S)
  BY <1>1, FS_Subset
<1> QED BY <1>2, FS_CardinalityType

LEMMA HasOldest ==
    ASSUME NEW S \in SUBSET Nat, S # {}
    PROVE  \E k \in S : \A j \in S : k <= j
<1>1. \E k \in S : \A j \in S : ~(<<j, k>> \in OpToRel(<, Nat))
  BY NatLessThanWellFounded, WFMin, Zenon
<1>2. PICK k \in S : \A j \in S : ~(<<j, k>> \in OpToRel(<, Nat))
  BY <1>1
<1>3. ASSUME NEW j \in S PROVE k <= j
  <2>1. <<j, k>> \in Nat \X Nat
    OBVIOUS
  <2>2. ~(j < k)
    BY <1>2, <2>1 DEF OpToRel
  <2> QED BY <2>2
<1> QED BY <1>3

(* The newest row is the one with the fewest keys up to KeyCount.           *)
LEMMA HasNewest ==
    ASSUME NEW S \in SUBSET Keys, S # {}
    PROVE  \E k \in S : \A j \in S : j <= k
<1> DEFINE T == {KeyCount - k : k \in S}
<1>0. KeyCount \in Nat /\ \A k \in S : k \in 1..KeyCount
  BY PagesAssumption DEF Keys
<1>1. T \in SUBSET Nat /\ T # {}
  BY <1>0
<1>2. PICK t \in T : \A u \in T : t <= u
  BY <1>1, HasOldest
<1>3. PICK k \in S : t = KeyCount - k
  BY <1>2
<1>4. \A j \in S : KeyCount - k <= KeyCount - j
  BY <1>2, <1>3
<1>5. \A j \in S : j <= k
  BY <1>0, <1>4
<1> QED BY <1>5

LEMMA EndsAreRows ==
    ASSUME NEW S \in SUBSET Keys, S # {}
    PROVE  /\ Newest(S) \in S /\ \A k \in S : k <= Newest(S)
           /\ Oldest(S) \in S /\ \A k \in S : Oldest(S) <= k
<1>1. S \in SUBSET Nat
  BY PagesAssumption DEF Keys
<1> QED BY <1>1, HasNewest, HasOldest DEF Newest, Oldest

-----------------------------------------------------------------------------
(* The row of a traversal that comes first.                                 *)
LEMMA HasFirst ==
    ASSUME NEW S \in SUBSET Keys, S # {}, NEW back \in BOOLEAN
    PROVE  \E k \in S : \A j \in S : j \notin Earlier(S, k, back)
<1>1. S \in SUBSET Nat /\ \A k \in S : k \in Nat
  BY PagesAssumption DEF Keys
<1>2. CASE back
  BY <1>1, <1>2, HasOldest DEF Earlier
<1>3. CASE ~back
  BY <1>1, <1>3, HasNewest DEF Earlier
<1> QED BY <1>2, <1>3

LEMMA EarlierIs ==
    ASSUME NEW S \in SUBSET Keys, NEW back \in BOOLEAN, NEW k \in Keys
    PROVE  /\ Earlier(S, k, back) \in SUBSET Keys
           /\ Earlier(S, k, back) \subseteq S
           /\ k \notin Earlier(S, k, back)
           /\ \A j \in S : j \in Earlier(S, k, back) =>
                 Earlier(S, j, back) \subseteq Earlier(S, k, back)
           /\ \A j \in S : j = k \/ j \in Earlier(S, k, back)
                 \/ (k \in S => k \in Earlier(S, j, back))
<1>1. \A j \in Keys : j \in Int
  BY PagesAssumption DEF Keys
<1> QED BY <1>1 DEF Earlier

(* LIMIT takes the rows of the traversal up to some row.                    *)
LEMMA LimitIsPrefix ==
    ASSUME NEW S \in SUBSET Keys, NEW n \in Nat, NEW back \in BOOLEAN,
           NEW k \in Limit(S, n, back), NEW j \in Earlier(S, k, back)
    PROVE  j \in Limit(S, n, back)
<1>1. k \in S /\ k \in Keys /\ j \in S /\ j \in Keys
  BY DEF Limit, Earlier
<1>2. Earlier(S, j, back) \in SUBSET Earlier(S, k, back)
  BY <1>1, EarlierIs
<1>3. /\ IsFiniteSet(Earlier(S, k, back))
      /\ Cardinality(Earlier(S, k, back)) \in Nat
      /\ Cardinality(Earlier(S, j, back)) \in Nat
  BY <1>1, EarlierIs, KeysFinite
<1>4. Cardinality(Earlier(S, j, back)) <= Cardinality(Earlier(S, k, back))
  BY <1>2, <1>3, FS_Subset
<1>5. Cardinality(Earlier(S, k, back)) < n
  BY DEF Limit
<1> QED BY <1>1, <1>3, <1>4, <1>5 DEF Limit

(* Fewer rows than the LIMIT: there are no others.                          *)
LEMMA LimitTakesAll ==
    ASSUME NEW S \in SUBSET Keys, NEW n \in Nat, NEW back \in BOOLEAN,
           Cardinality(Limit(S, n, back)) < n
    PROVE  Limit(S, n, back) = S
<1> DEFINE L == Limit(S, n, back)
           R == S \ L
<1>1. L \in SUBSET S /\ L \in SUBSET Keys /\ R \in SUBSET Keys
  BY DEF Limit
<1>2. SUFFICES ASSUME R # {} PROVE FALSE
  BY <1>1
<1>3. PICK k \in R : \A j \in R : j \notin Earlier(R, k, back)
  BY <1>1, <1>2, HasFirst
<1>4. k \in S /\ k \in Keys /\ k \notin L
  BY <1>1, <1>3
<1>5. Earlier(S, k, back) \in SUBSET L
  BY <1>3 DEF Earlier
<1>6. /\ IsFiniteSet(L) /\ Cardinality(L) \in Nat
      /\ Cardinality(Earlier(S, k, back)) \in Nat
  BY <1>1, <1>4, EarlierIs, KeysFinite
<1>7. Cardinality(Earlier(S, k, back)) <= Cardinality(L)
  BY <1>5, <1>6, FS_Subset
<1>8. ~(Cardinality(Earlier(S, k, back)) < n)
  BY <1>4 DEF Limit
<1> QED BY <1>6, <1>7, <1>8

(* No more rows than the LIMIT: all of them.                                *)
LEMMA LimitIsEnough ==
    ASSUME NEW S \in SUBSET Keys, NEW n \in Nat, NEW back \in BOOLEAN,
           Cardinality(S) <= n
    PROVE  Limit(S, n, back) = S
<1> SUFFICES ASSUME NEW k \in S PROVE Cardinality(Earlier(S, k, back)) < n
  BY DEF Limit
<1>1. /\ Earlier(S, k, back) \in SUBSET S /\ Earlier(S, k, back) # S
      /\ Earlier(S, k, back) \in SUBSET Keys
  BY EarlierIs
<1>2. /\ IsFiniteSet(S) /\ Cardinality(S) \in Nat
      /\ Cardinality(Earlier(S, k, back)) \in Nat
  BY <1>1, KeysFinite
<1>3. /\ Cardinality(Earlier(S, k, back)) <= Cardinality(S)
      /\ Cardinality(Earlier(S, k, back)) # Cardinality(S)
  BY <1>1, <1>2, FS_Subset
<1> QED BY <1>2, <1>3

(* A LIMIT that is not zero finds a row if there is one.                    *)
LEMMA LimitFindsOne ==
    ASSUME NEW S \in SUBSET Keys, NEW n \in Nat \ {0}, NEW back \in BOOLEAN, S # {}
    PROVE  Limit(S, n, back) # {}
<1>1. PICK k \in S : \A j \in S : j \notin Earlier(S, k, back)
  BY HasFirst
<1>2. Earlier(S, k, back) = {}
  BY <1>1, EarlierIs
<1>3. Cardinality(Earlier(S, k, back)) < n
  BY <1>2, FS_EmptySet
<1> QED BY <1>3 DEF Limit

-----------------------------------------------------------------------------
(* What LIMIT leaves, counted.                                              *)

LEMMA LimitSize ==
    ASSUME NEW S \in SUBSET Keys, NEW n \in Nat, NEW back \in BOOLEAN,
           Cardinality(S) >= n
    PROVE  Cardinality(Limit(S, n, back)) = n
<1> DEFINE L == Limit(S, n, back)
<1>1. L \in SUBSET S /\ L \in SUBSET Keys
  BY DEF Limit
<1>2. Cardinality(L) \in Nat /\ Cardinality(S) \in Nat /\ IsFiniteSet(L)
  BY <1>1, KeysFinite
<1>3. ~(Cardinality(L) < n)
  BY <1>2, LimitTakesAll
<1>4. CASE L = {}
  BY <1>3, <1>4, FS_EmptySet
<1>5. CASE L # {}
  <2>1. PICK k \in L : \A j \in L : j \notin Earlier(L, k, ~back)
    BY <1>1, <1>5, HasFirst
  <2>2. \A j \in L : j \in Int
    BY <1>1, PagesAssumption DEF Keys
  <2>3. L \ {k} \in SUBSET Earlier(S, k, back)
    BY <1>1, <2>1, <2>2 DEF Earlier
  <2>4. /\ IsFiniteSet(Earlier(S, k, back))
        /\ Cardinality(Earlier(S, k, back)) \in Nat
    BY <1>1, EarlierIs, KeysFinite
  <2>5. Cardinality(L \ {k}) <= Cardinality(Earlier(S, k, back))
    BY <2>3, <2>4, FS_Subset
  <2>6. Cardinality(L \ {k}) = Cardinality(L) - 1
    BY <1>2, FS_RemoveElement
  <2>7. Cardinality(Earlier(S, k, back)) < n
    BY DEF Limit
  <2>8. Cardinality(L) <= n
    BY <1>2, <2>4, <2>5, <2>6, <2>7
  <2> QED BY <1>2, <1>3, <2>8
<1> QED BY <1>4, <1>5

(* Any n rows that the traversal meets before all others are its first n.   *)
LEMMA LimitIs ==
    ASSUME NEW S \in SUBSET Keys, NEW n \in Nat, NEW back \in BOOLEAN,
           NEW R \in SUBSET S, Cardinality(R) = n,
           \A k \in R : Earlier(S, k, back) \subseteq R
    PROVE  Limit(S, n, back) = R
<1>1. IsFiniteSet(R)
  BY KeysFinite
<1>2. \A k \in S : /\ Earlier(S, k, back) \in SUBSET Keys
                   /\ IsFiniteSet(Earlier(S, k, back))
                   /\ Cardinality(Earlier(S, k, back)) \in Nat
  BY EarlierIs, KeysFinite
<1>3. ASSUME NEW k \in R
      PROVE  k \in Limit(S, n, back)
  <2>1. Earlier(S, k, back) \in SUBSET R /\ Earlier(S, k, back) # R
    BY EarlierIs
  <2>2. /\ Cardinality(Earlier(S, k, back)) <= Cardinality(R)
        /\ Cardinality(Earlier(S, k, back)) # Cardinality(R)
    BY <1>1, <2>1, FS_Subset
  <2>3. Cardinality(Earlier(S, k, back)) < n
    BY <1>2, <2>2
  <2> QED BY <2>3 DEF Limit
<1>4. ASSUME NEW k \in S \ R
      PROVE  k \notin Limit(S, n, back)
  <2>1. R \in SUBSET Earlier(S, k, back)
    BY EarlierIs
  <2>2. Cardinality(R) <= Cardinality(Earlier(S, k, back))
    BY <1>2, <2>1, FS_Subset
  <2>3. ~(Cardinality(Earlier(S, k, back)) < n)
    BY <1>2, <2>2
  <2> QED BY <2>3 DEF Limit
<1> QED BY <1>3, <1>4 DEF Limit

(* The row too many that is asked for changes nothing about the others.     *)
LEMMA LimitTwice ==
    ASSUME NEW S \in SUBSET Keys, NEW n \in Nat, NEW back \in BOOLEAN
    PROVE  Limit(Limit(S, n + 1, back), n, back) = Limit(S, n, back)
<1> DEFINE L == Limit(S, n + 1, back)
<1>1. L \in SUBSET S
  BY DEF Limit
<1>2. \A k \in L : Earlier(L, k, back) = Earlier(S, k, back)
  <2> SUFFICES ASSUME NEW k \in L PROVE Earlier(L, k, back) = Earlier(S, k, back)
    OBVIOUS
  <2>1. \A j \in Earlier(S, k, back) : j \in L
    BY LimitIsPrefix
  <2> QED BY <1>1, <2>1 DEF Earlier
<1>3. \A k \in S : Cardinality(Earlier(S, k, back)) \in Nat
  BY EarlierIs, KeysFinite
<1>4. \A k \in S : Cardinality(Earlier(S, k, back)) < n => k \in L
  BY <1>3 DEF Limit
<1> HIDE DEF L
<1>5. Limit(L, n, back) = Limit(S, n, back)
  BY <1>1, <1>2, <1>4 DEF Limit
<1> QED BY <1>5 DEF L

-----------------------------------------------------------------------------
(* A page: its links stand on rows of its own, every row of the traversal   *)
(* before one it shows is shown too, and without a further link forward it  *)
(* shows the rest.                                                          *)
Asked(c) == {k \in table \cap Matching : Past(k, c)}

LEMMA PageShows ==
    ASSUME TypeOK, NEW c \in Cursor \cup {None}
    PROVE  LET p == PageOf(c)
               back == c # None /\ c.back
           IN  /\ p \in Page /\ p.cursor = c /\ p.rows \subseteq Asked(c)
               /\ p.previous # None => p.previous \in p.rows /\ c # None
               /\ p.next # None => p.next \in p.rows
               /\ \A k \in p.rows, j \in Asked(c) :
                     (IF back THEN j <= k ELSE j >= k) => j \in p.rows
               /\ ~back /\ p.next = None => p.rows = Asked(c)
<1> DEFINE S == Asked(c)
           back == c # None /\ c.back
           found == Limit(S, Size + 1, back)
           rows == Limit(found, Size, back)
           p == PageOf(c)
<1>1. /\ S \in SUBSET Keys /\ found \in SUBSET S /\ found \in SUBSET Keys
      /\ rows \in SUBSET found /\ rows \in SUBSET Keys /\ back \in BOOLEAN
      /\ Size \in Nat \ {0} /\ Size + 1 \in Nat \ {0}
  BY PagesAssumption DEF TypeOK, Asked, Limit, Cursor
<1>2. /\ p.rows = rows /\ p.cursor = c
      /\ p.previous = IF rows # {} /\ (IF back THEN Cardinality(found) > Size ELSE c # None)
                        THEN Newest(rows) ELSE None
      /\ p.next = IF rows # {} /\ (IF back THEN c # None ELSE Cardinality(found) > Size)
                    THEN Oldest(rows) ELSE None
  BY DEF PageOf, Fetched, Ends, Asked
<1>3. rows # {} => Newest(rows) \in rows /\ Oldest(rows) \in rows
  BY <1>1, EndsAreRows
<1>4. p \in Page
  <2>1. /\ p = [rows |-> p.rows, cursor |-> p.cursor,
                previous |-> p.previous, next |-> p.next]
    BY DEF PageOf
  <2>2. /\ p.previous \in Keys \cup {None} /\ p.next \in Keys \cup {None}
    BY <1>1, <1>2, <1>3
  <2> QED BY <1>1, <1>2, <2>1, <2>2 DEF Page
<1>5. \A k \in rows, j \in S : (IF back THEN j <= k ELSE j >= k) => j \in rows
  <2> SUFFICES ASSUME NEW k \in rows, NEW j \in S, IF back THEN j <= k ELSE j >= k, j # k
               PROVE  j \in rows
    OBVIOUS
  <2>0. j \in Nat /\ k \in Nat /\ k \in found
    BY <1>1, PagesAssumption DEF Keys
  <2>1. j \in Earlier(S, k, back)
    BY <2>0 DEF Earlier
  <2>2. j \in found
    BY <1>1, <2>0, <2>1, LimitIsPrefix
  <2>3. j \in Earlier(found, k, back)
    BY <2>1, <2>2 DEF Earlier
  <2> QED BY <1>1, <2>3, LimitIsPrefix
<1>6. ASSUME ~back, p.next = None
      PROVE  rows = S
  <2>1. Oldest(rows) # None \/ rows = {}
    BY <1>1, <1>3, NoneAssumption
  <2>2. CASE rows = {}
    <3>1. found = {}
      BY <1>1, <2>2, LimitFindsOne
    <3>2. S = {}
      BY <1>1, <3>1, LimitFindsOne
    <3> QED BY <2>2, <3>2
  <2>3. CASE ~(Cardinality(found) > Size)
    <3>1. Cardinality(found) \in Nat /\ Cardinality(found) <= Size /\ Size \in Nat
      BY <1>1, <2>3, KeysFinite
    <3>2. rows = found
      BY <1>1, <3>1, LimitIsEnough
    <3>3. Cardinality(found) < Size + 1
      BY <3>1
    <3>4. found = S
      BY <1>1, <3>3, LimitTakesAll
    <3> QED BY <3>2, <3>4
  <2> QED BY <1>2, <1>6, <2>1, <2>2, <2>3
<1>7. /\ p.previous # None => p.previous \in rows /\ c # None
      /\ p.next # None => p.next \in rows
  BY <1>2, <1>3
<1> HIDE DEF rows, found, S, p
<1> QED BY <1>1, <1>2, <1>4, <1>5, <1>6, <1>7 DEF S, p

(* Its rows are the first of what the cursor asks for, a link stands on the *)
(* last of them in its direction, and a page with a link onward is full.    *)
LEMMA PageLinks ==
    ASSUME TypeOK, NEW c \in Cursor \cup {None}
    PROVE  LET p == PageOf(c)
               back == c # None /\ c.back
           IN  /\ p.rows = Limit(Asked(c), Size, back)
               /\ \A b \in BOOLEAN : LinkOf(p, b) # None =>
                     /\ LinkOf(p, b) \in p.rows
                     /\ \A k \in p.rows : IF b THEN k <= LinkOf(p, b) ELSE k >= LinkOf(p, b)
                     /\ b = back => Cardinality(p.rows) = Size
                     /\ b # back => c # None
<1> DEFINE S == Asked(c)
           back == c # None /\ c.back
           found == Limit(S, Size + 1, back)
           rows == Limit(found, Size, back)
           p == PageOf(c)
<1>1. /\ S \in SUBSET Keys /\ found \in SUBSET Keys /\ rows \in SUBSET Keys
      /\ back \in BOOLEAN /\ Size \in Nat
  BY PagesAssumption DEF TypeOK, Asked, Limit, Cursor
<1>2. /\ p.rows = rows
      /\ p.previous = IF rows # {} /\ (IF back THEN Cardinality(found) > Size ELSE c # None)
                        THEN Newest(rows) ELSE None
      /\ p.next = IF rows # {} /\ (IF back THEN c # None ELSE Cardinality(found) > Size)
                    THEN Oldest(rows) ELSE None
  BY DEF PageOf, Fetched, Ends, Asked
<1>3. rows # {} => /\ Newest(rows) \in rows /\ \A k \in rows : k <= Newest(rows)
                   /\ Oldest(rows) \in rows /\ \A k \in rows : k >= Oldest(rows)
  <2>1. ASSUME rows # {}
        PROVE  /\ Newest(rows) \in rows /\ \A k \in rows : k <= Newest(rows)
               /\ Oldest(rows) \in rows /\ \A k \in rows : Oldest(rows) <= k
    BY <1>1, <2>1, EndsAreRows
  <2>2. \A k \in rows : k \in Int
    BY <1>1, PagesAssumption DEF Keys
  <2> HIDE DEF rows
  <2> QED BY <2>1, <2>2
<1>4. rows = Limit(S, Size, back)
  BY <1>1, LimitTwice
<1> HIDE DEF found, back
<1>5. Cardinality(found) > Size => Cardinality(rows) = Size
  <2> SUFFICES ASSUME Cardinality(found) > Size PROVE Cardinality(rows) = Size
    OBVIOUS
  <2>1. Cardinality(found) >= Size
    BY <1>1, KeysFinite
  <2> QED BY <1>1, <2>1, LimitSize
<1> HIDE DEF rows, S, p
<1>6. ASSUME NEW b \in BOOLEAN, LinkOf(p, b) # None
      PROVE  /\ LinkOf(p, b) \in rows
             /\ \A k \in rows : IF b THEN k <= LinkOf(p, b) ELSE k >= LinkOf(p, b)
             /\ b = back => Cardinality(rows) = Size
             /\ b # back => c # None
  <2>1. CASE b
    BY <1>1, <1>2, <1>3, <1>5, <1>6, <2>1 DEF LinkOf
  <2>2. CASE ~b
    BY <1>1, <1>2, <1>3, <1>5, <1>6, <2>2 DEF LinkOf
  <2> QED BY <2>1, <2>2
<1> QED BY <1>2, <1>4, <1>6 DEF p, S, back

-----------------------------------------------------------------------------
(* Turning round.  After(j, k, back): a traversal meets j later than k.     *)
After(j, k, back) == IF back THEN j > k ELSE j < k

LEMMA AfterOrder ==
    \A i, j, k \in Keys, b \in BOOLEAN :
        /\ After(i, j, b) /\ After(j, k, b) => After(i, k, b)
        /\ After(i, j, b) \/ After(j, i, b) \/ i = j
        /\ ~(After(i, j, b) /\ After(j, i, b)) /\ ~After(i, i, b)
        /\ After(i, j, ~b) <=> After(j, i, b)
<1>1. \A k \in Keys : k \in Int
  BY PagesAssumption DEF Keys
<1> QED BY <1>1 DEF After

(* The same page, in the words of the traversal.                            *)
LEMMA PageInOrder ==
    ASSUME TypeOK, NEW c \in Cursor \cup {None}, NEW d \in BOOLEAN, d = (c # None /\ c.back)
    PROVE  LET rows == PageOf(c).rows
           IN  /\ \A k : k \in Asked(c) <=>
                     k \in table \cap Matching /\ (c = None \/ After(k, c.key, d))
               /\ rows \subseteq Asked(c) /\ Asked(c) \subseteq Keys
               /\ \A k \in rows, j \in Asked(c) : ~After(j, k, d) => j \in rows
<1>1. \A k : k \in Asked(c) <=>
          k \in table \cap Matching /\ (c = None \/ After(k, c.key, d))
  BY DEF Asked, Past, After
<1>2. Asked(c) \subseteq Keys /\ \A k \in Asked(c) : k \in Int
  <2>1. Asked(c) \subseteq Keys
    BY DEF TypeOK, Asked
  <2> QED BY <2>1, PagesAssumption DEF Keys
<1>3. /\ PageOf(c).rows \subseteq Asked(c)
      /\ \A k \in PageOf(c).rows, j \in Asked(c) :
            (IF d THEN j <= k ELSE j >= k) => j \in PageOf(c).rows
  BY PageShows
<1>4. ASSUME NEW k \in PageOf(c).rows, NEW j \in Asked(c), ~After(j, k, d)
      PROVE  j \in PageOf(c).rows
  BY <1>2, <1>3, <1>4 DEF After
<1> QED BY <1>1, <1>2, <1>3, <1>4

(* One link on from a page in one direction, and one back: the rows between *)
(* the two pages are none, so the second traversal starts with the row the  *)
(* first one stopped at. The page before was full if it was reached in the  *)
(* same direction, and began with that row if in the other.                 *)
LEMMA TurnRound ==
    ASSUME TypeOK, NEW d \in BOOLEAN,
           NEW b \in Cursor \cup {None}, LinkOf(PageOf(b), d) # None,
           NEW c \in Cursor, c.key = LinkOf(PageOf(b), d), c.back = d,
           LinkOf(PageOf(c), ~d) # None,
           NEW e \in Cursor, e.key = LinkOf(PageOf(c), ~d), e.back = ~d
    PROVE  PageOf(e).rows = PageOf(b).rows
<1> DEFINE S == table \cap Matching
           R == PageOf(b).rows
           P == PageOf(c).rows
           back == b # None /\ b.back
<1>0. /\ S \in SUBSET Keys /\ c.key \in Keys /\ e.key \in Keys /\ back \in BOOLEAN
      /\ c # None /\ e # None /\ Size \in Nat
  <2>1. S \in SUBSET Keys /\ Size \in Nat
    BY PagesAssumption DEF TypeOK
  <2>2. c.key \in Keys /\ e.key \in Keys /\ back \in BOOLEAN
    BY DEF Cursor
  <2>3. c # None /\ e # None
    BY NoneAssumption
  <2> QED BY <2>1, <2>2, <2>3
<1>1. /\ R = Limit(Asked(b), Size, back) /\ c.key \in R
      /\ \A k \in R : IF d THEN k <= c.key ELSE k >= c.key
      /\ d = back => Cardinality(R) = Size
      /\ d # back => b # None
  BY PageLinks
<1>2. /\ \A k : k \in Asked(b) <=> k \in S /\ (b = None \/ After(k, b.key, back))
      /\ R \subseteq Asked(b) /\ Asked(b) \subseteq Keys
      /\ \A k \in R, j \in Asked(b) : ~After(j, k, back) => j \in R
  BY <1>0, PageInOrder
<1>3. e.key \in P /\ \A k \in P : IF ~d THEN k <= e.key ELSE k >= e.key
  BY <1>0, PageLinks
<1>4. /\ \A k : k \in Asked(c) <=> k \in S /\ After(k, c.key, d)
      /\ P \subseteq Asked(c) /\ Asked(c) \subseteq Keys
      /\ \A k \in P, j \in Asked(c) : ~After(j, k, d) => j \in P
  BY <1>0, PageInOrder
<1>5. \A k : k \in Asked(e) <=> k \in S /\ After(k, e.key, ~d)
  BY <1>0, PageInOrder
<1>6. PageOf(e).rows = Limit(Asked(e), Size, ~d)
  BY <1>0, PageLinks
<1>7. /\ \A k \in R : ~After(k, c.key, d)
      /\ \A k \in P : ~After(k, e.key, ~d)
  <2>1. \A k \in R \cup P \cup {c.key, e.key} : k \in Int
    BY <1>0, <1>2, <1>4, PagesAssumption DEF Keys
  <2> HIDE DEF R, P
  <2> QED BY <1>1, <1>3, <2>1 DEF After
<1> HIDE DEF S, R, P, back
<1>8. \A k : k \in Asked(e) <=> k \in S /\ ~After(k, c.key, d)
  <2>1. ASSUME NEW k \in S, After(k, e.key, ~d), After(k, c.key, d)
        PROVE  FALSE
    <3>1. k \in Keys /\ k \in Asked(c) /\ ~After(k, e.key, d)
      BY <1>0, <1>4, <2>1, AfterOrder
    <3>2. k \in P
      BY <1>3, <1>4, <3>1
    <3> QED BY <1>7, <2>1, <3>2
  <2>2. ASSUME NEW k \in S, ~After(k, c.key, d)
        PROVE  After(k, e.key, ~d)
    <3>1. After(e.key, c.key, d) /\ k \in Keys
      BY <1>0, <1>3, <1>4
    <3>2. After(e.key, k, d)
      BY <1>0, <2>2, <3>1, AfterOrder
    <3> QED BY <1>0, <3>1, <3>2, AfterOrder
  <2> QED BY <1>5, <2>1, <2>2
<1>9. Asked(e) \in SUBSET Keys
  BY <1>0, <1>8
<1>10. CASE d = back
  <2>1. R \in SUBSET Asked(e)
    BY <1>2, <1>7, <1>8
  <2>2. ASSUME NEW k \in R, NEW j \in Earlier(Asked(e), k, ~d)
        PROVE  j \in R
    <3>1. j \in Asked(e) /\ j \in Keys /\ k \in Keys /\ After(k, j, ~d)
      <4>1. k \in Keys
        BY <1>2
      <4>2. j \in Asked(e) /\ After(k, j, ~d)
        BY <2>2 DEF Earlier, After
      <4> QED BY <1>9, <4>1, <4>2
    <3>2. After(j, k, d)
      BY <3>1, AfterOrder
    <3>3. j \in Asked(b)
      <4>1. CASE b = None
        BY <1>2, <1>8, <3>1, <4>1
      <4>2. CASE b # None
        <5>1. b.key \in Keys /\ After(k, b.key, back)
          BY <1>2, <4>2 DEF Cursor
        <5> QED BY <1>2, <1>8, <1>10, <3>1, <3>2, <5>1, AfterOrder
      <4> QED BY <4>1, <4>2
    <3>4. ~After(j, c.key, back)
      BY <1>8, <1>10, <3>1
    <3> QED BY <1>1, <1>2, <3>3, <3>4
  <2>3. Limit(Asked(e), Size, ~d) = R
    BY <1>0, <1>1, <1>9, <1>10, <2>1, <2>2, LimitIs
  <2> QED BY <1>6, <2>3 DEF R
<1>11. CASE d # back
  <2>1. back = ~d /\ b # None /\ b.key \in Keys
    BY <1>0, <1>1, <1>11 DEF Cursor
  <2>2. c.key \in Asked(b) /\ After(c.key, b.key, back)
    BY <1>1, <1>2, <2>1
  <2>3. ASSUME NEW k \in Asked(b)
        PROVE  k \in Asked(e)
    <3>1. k \in Keys /\ k \in S
      BY <1>2
    <3>2. After(k, c.key, d) => k \in R
      BY <1>0, <1>1, <1>2, <2>1, <3>1, AfterOrder
    <3> QED BY <1>7, <1>8, <3>1, <3>2
  <2>4. ASSUME NEW k \in Asked(e)
        PROVE  k \in Asked(b)
    <3>1. k \in S /\ k \in Keys /\ ~After(k, c.key, d)
      BY <1>8, <1>9
    <3>2. k = c.key \/ After(k, c.key, back)
      BY <1>0, <2>1, <3>1, AfterOrder
    <3>3. After(k, b.key, back)
      BY <1>0, <2>1, <2>2, <3>1, <3>2, AfterOrder
    <3> QED BY <1>2, <3>1, <3>3
  <2>5. Asked(e) = Asked(b)
    BY <2>3, <2>4
  <2> QED BY <1>1, <1>6, <2>1, <2>5 DEF R
<1> QED BY <1>10, <1>11

-----------------------------------------------------------------------------
LEMMA FirstStep ==
    ASSUME IInv, First
    PROVE  TypeOK' /\ NewerMet' /\ SurvivorsMet'
<1>0. TypeOK
  BY DEF IInv
<1>1. /\ page' = PageOf(None) /\ seen' = page'.rows /\ kept' = table \cap Matching
      /\ fresh' = TRUE /\ left' = None /\ UNCHANGED <<table, gone>>
  BY DEF First
<1>2. Asked(None) = table \cap Matching
  BY DEF Asked, Past
<1>3. /\ page' \in Page /\ page'.cursor = None /\ page'.rows \subseteq Keys
      /\ page'.previous = None
      /\ page'.next # None => page'.next \in page'.rows
      /\ \A k \in page'.rows, j \in kept' : j >= k => j \in page'.rows
      /\ page'.next = None => page'.rows = kept'
  BY <1>0, <1>1, <1>2, PageShows DEF TypeOK
<1>4. page' # None
  BY <1>3, NoneAssumption
<1>5. TypeOK'
  BY <1>0, <1>1, <1>3 DEF TypeOK
<1>6. NewerMet' /\ SurvivorsMet'
  BY <1>1, <1>3, <1>4 DEF NewerMet, SurvivorsMet
<1> QED BY <1>5, <1>6

(* Following next: what is newer than the link has been shown, and the page *)
(* goes on below it without a gap.                                          *)
LEMMA NextStepForward ==
    ASSUME IInv, FollowNext
    PROVE  TypeOK' /\ NewerMet' /\ SurvivorsMet'
<1> DEFINE c == [key |-> page.next, back |-> FALSE]
<1>0. TypeOK /\ NewerMet /\ page # None /\ page.next # None
  BY DEF IInv, FollowNext
<1>1. /\ page' = PageOf(c) /\ seen' = seen \cup page'.rows
      /\ fresh' = TRUE /\ left' = (IF fresh THEN page.rows ELSE None)
      /\ UNCHANGED <<table, gone, kept>>
  BY DEF FollowNext, Follow
<1>2. page.next \in Keys /\ page.rows \subseteq Keys
  BY <1>0 DEF TypeOK, Page
<1>3. c \in Cursor /\ c # None /\ c.back = FALSE /\ c.key = page.next
  <2>1. c \in Cursor
    BY <1>2 DEF Cursor
  <2>2. c.back = FALSE /\ c.key = page.next
    OBVIOUS
  <2> QED BY <2>1, <2>2, NoneAssumption
<1> HIDE DEF c
<1>4. \A k \in kept : k >= page.next \/ k \in Asked(c)
  BY <1>0, <1>2, <1>3, PagesAssumption DEF TypeOK, Asked, Past, Keys
<1>5. /\ page' \in Page /\ page'.rows \subseteq Keys
      /\ page'.previous # None => page'.previous \in page'.rows
      /\ page'.next # None => page'.next \in page'.rows
      /\ \A k \in page'.rows, j \in Asked(c) : j >= k => j \in page'.rows
      /\ page'.next = None => page'.rows = Asked(c)
  BY <1>0, <1>1, <1>3, PageShows DEF TypeOK, Asked
<1>6. \A k \in kept : k >= page.next => k \in seen
  BY <1>0 DEF NewerMet
<1>7. TypeOK'
  BY <1>0, <1>1, <1>2, <1>5 DEF TypeOK
<1>8. NewerMet' /\ SurvivorsMet'
  <2>1. page' # None
    BY <1>5, NoneAssumption
  <2> QED BY <1>1, <1>4, <1>5, <1>6, <2>1 DEF NewerMet, SurvivorsMet
<1> QED BY <1>7, <1>8

(* Following previous: all of the page is newer than the link.              *)
LEMMA NextStepBackward ==
    ASSUME IInv, FollowPrevious
    PROVE  TypeOK' /\ NewerMet' /\ SurvivorsMet'
<1> DEFINE c == [key |-> page.previous, back |-> TRUE]
<1>0. TypeOK /\ NewerMet /\ page # None /\ page.previous # None
  BY DEF IInv, FollowPrevious
<1>1. /\ page' = PageOf(c) /\ seen' = seen \cup page'.rows
      /\ fresh' = TRUE /\ left' = (IF fresh THEN page.rows ELSE None)
      /\ UNCHANGED <<table, gone, kept>>
  BY DEF FollowPrevious, Follow
<1>2. page.previous \in Keys /\ page.rows \subseteq Keys
  BY <1>0 DEF TypeOK, Page
<1>3. c \in Cursor /\ c # None /\ c.back = TRUE /\ c.key = page.previous
  <2>1. c \in Cursor
    BY <1>2 DEF Cursor
  <2>2. c.back = TRUE /\ c.key = page.previous
    OBVIOUS
  <2> QED BY <2>1, <2>2, NoneAssumption
<1> HIDE DEF c
<1>4. \A k \in Asked(c) : k > page.previous /\ k \in Keys
  BY <1>0, <1>3 DEF TypeOK, Asked, Past
<1>5. /\ page' \in Page /\ page'.cursor = c /\ page'.rows \subseteq Asked(c)
      /\ page'.previous # None => page'.previous \in page'.rows
      /\ page'.next # None => page'.next \in page'.rows
  BY <1>0, <1>1, <1>3, PageShows
<1>6. \A k \in kept : k >= page.previous => k \in seen
  BY <1>0 DEF NewerMet
<1>7. TypeOK'
  BY <1>0, <1>1, <1>2, <1>4, <1>5 DEF TypeOK
<1>8. NewerMet'
  <2>1. \A k \in kept : k \in Keys /\ k \in Int
    BY <1>0, PagesAssumption DEF TypeOK, Keys
  <2>2. \A l \in page'.rows : l \in Int /\ l > page.previous
    BY <1>4, <1>5, PagesAssumption DEF Keys
  <2>3. \A l \in page'.rows, k \in kept : k >= l => k \in seen
    BY <1>2, <1>6, <2>1, <2>2, PagesAssumption DEF Keys
  <2>4. page' # None
    BY <1>5, NoneAssumption
  <2> QED BY <1>1, <1>5, <2>3, <2>4 DEF NewerMet
<1>9. SurvivorsMet'
  BY <1>1, <1>3, <1>5 DEF SurvivorsMet, Forward
<1> QED BY <1>7, <1>8, <1>9

(* The table the query saw is the table the page was read from; what the    *)
(* last link was read off is on record.                                     *)
LEMMA PageStays ==
    ASSUME table' = table
    PROVE  \A c : PageOf(c)' = PageOf(c)
BY DEF PageOf

LEMMA StaysCurrent ==
    ASSUME IInv, [Next]_vars
    PROVE  Current' /\ LedHere'
<1>0. TypeOK /\ Current /\ LedHere
  BY DEF IInv
<1>1. CASE First
  <2>1. /\ page' = PageOf(None) /\ table' = table /\ left' = None
    BY <1>1 DEF First
  <2>2. page' \in Page /\ page'.cursor = None
    BY <1>0, <2>1, PageShows
  <2>3. page' = PageOf(None)'
    BY <2>1, PageStays
  <2> QED BY <2>1, <2>2, <2>3, NoneAssumption DEF Current, LedHere
<1>2. ASSUME NEW b \in BOOLEAN, page # None, LinkOf(page, b) # None,
             Follow([key |-> LinkOf(page, b), back |-> b])
      PROVE  Current' /\ LedHere'
  <2> DEFINE c == [key |-> LinkOf(page, b), back |-> b]
  <2>1. /\ page' = PageOf(c) /\ table' = table
        /\ left' = (IF fresh THEN page.rows ELSE None) /\ fresh' = TRUE
    BY <1>2 DEF Follow
  <2>2. page \in Page /\ page.cursor \in Cursor \cup {None}
    BY <1>0, <1>2 DEF TypeOK, Page
  <2>3. c \in Cursor /\ c # None /\ c.key = LinkOf(page, b) /\ c.back = b
    <3>1. LinkOf(page, b) \in Keys
      BY <1>2, <2>2 DEF Page, LinkOf
    <3>2. c \in Cursor
      BY <3>1 DEF Cursor
    <3> QED BY <3>2, NoneAssumption
  <2> HIDE DEF c
  <2>4. page' \in Page /\ page'.cursor = c
    BY <1>0, <2>1, <2>3, PageShows
  <2>5. \A x : PageOf(x)' = PageOf(x)
    BY <2>1, PageStays
  <2>6. Current'
    BY <2>1, <2>4, <2>5, NoneAssumption DEF Current
  <2>7. ASSUME left' # None
        PROVE  /\ page.cursor \in Cursor \cup {None}
               /\ left' = PageOf(page.cursor).rows
               /\ page'.cursor.key = LinkOf(PageOf(page.cursor), page'.cursor.back)
    BY <1>0, <2>1, <2>2, <2>3, <2>4, <2>7 DEF Current
  <2>8. LedHere'
    BY <2>1, <2>3, <2>4, <2>5, <2>7 DEF LedHere
  <2> QED BY <2>6, <2>8
<1>3. CASE FollowNext
  <2>1. /\ page # None /\ LinkOf(page, FALSE) # None
        /\ Follow([key |-> LinkOf(page, FALSE), back |-> FALSE])
    BY <1>3 DEF FollowNext, LinkOf
  <2> QED BY <1>2, <2>1
<1>4. CASE FollowPrevious
  <2>1. /\ page # None /\ LinkOf(page, TRUE) # None
        /\ Follow([key |-> LinkOf(page, TRUE), back |-> TRUE])
    BY <1>4 DEF FollowPrevious, LinkOf
  <2> QED BY <1>2, <2>1
<1>5. ASSUME NEW k \in Keys, Insert(k) \/ Delete(k)
      PROVE  Current' /\ LedHere'
  BY <1>5 DEF Insert, Delete, Current, LedHere
<1>6. CASE UNCHANGED vars
  <2>1. \A x : PageOf(x)' = PageOf(x)
    BY <1>6, PageStays DEF vars
  <2> QED BY <1>0, <1>6, <2>1 DEF vars, Current, LedHere
<1> QED BY <1>1, <1>3, <1>4, <1>5, <1>6 DEF Next

LEMMA NextStep ==
    ASSUME IInv, [Next]_vars
    PROVE  IInv'
<1>0. TypeOK /\ NewerMet /\ SurvivorsMet
  BY DEF IInv
<1>1. ASSUME NEW k \in Keys, Insert(k) \/ Delete(k)
      PROVE  TypeOK' /\ NewerMet' /\ SurvivorsMet'
  <2>1. /\ kept' \subseteq kept /\ UNCHANGED <<page, seen>>
        /\ fresh' = FALSE /\ left' = None
    BY <1>1 DEF Insert, Delete
  <2>2. TypeOK'
    BY <1>0, <1>1, <2>1 DEF TypeOK, Insert, Delete
  <2>3. NewerMet' /\ SurvivorsMet'
    BY <1>0, <2>1 DEF NewerMet, SurvivorsMet, Forward
  <2> QED BY <2>2, <2>3
<1>2. ASSUME UNCHANGED vars
      PROVE  TypeOK' /\ NewerMet' /\ SurvivorsMet'
  BY <1>0, <1>2 DEF vars, TypeOK, NewerMet, SurvivorsMet, Forward
<1>3. TypeOK' /\ NewerMet' /\ SurvivorsMet'
  BY <1>1, <1>2, FirstStep, NextStepForward, NextStepBackward DEF Next
<1> QED BY <1>3, StaysCurrent DEF IInv

(* A link in the other direction than the one before it.                    *)
LEMMA LinkBack ==
    ASSUME IInv, NEW b \in BOOLEAN, page # None, LinkOf(page, b) # None,
           Follow([key |-> LinkOf(page, b), back |-> b]),
           page.cursor # None, page.cursor.back # b, left # None
    PROVE  page'.rows = left
<1> DEFINE e == [key |-> LinkOf(page, b), back |-> b]
           d == page.cursor.back
<1>0. TypeOK /\ Current /\ LedHere
  BY DEF IInv
<1>1. /\ page \in Page /\ page.cursor \in Cursor /\ d \in BOOLEAN /\ b = ~d
  BY <1>0 DEF TypeOK, Page, Cursor
<1>2. page = PageOf(page.cursor)
  BY <1>0 DEF Current, LedHere
<1>3. PICK c \in Cursor \cup {None} :
          left = PageOf(c).rows /\ page.cursor.key = LinkOf(PageOf(c), d)
  BY <1>0 DEF LedHere
<1>4. e \in Cursor /\ e.key = LinkOf(page, ~d) /\ e.back = ~d
  <2>1. LinkOf(page, b) \in Keys
    BY <1>1 DEF Page, LinkOf
  <2>2. e \in Cursor
    BY <2>1 DEF Cursor
  <2> QED BY <1>1, <2>2
<1>5. page' = PageOf(e)
  BY DEF Follow
<1>6. LinkOf(PageOf(c), d) # None /\ LinkOf(PageOf(page.cursor), ~d) # None
  BY <1>1, <1>2, <1>3, NoneAssumption DEF Cursor
<1> HIDE DEF e
<1>7. PageOf(e).rows = PageOf(c).rows
  BY <1>0, <1>1, <1>2, <1>3, <1>4, <1>6, TurnRound
<1> QED BY <1>3, <1>5, <1>7

-----------------------------------------------------------------------------
(* Types, that whatever lies above a link has been shown, and that a page   *)
(* nothing has changed since still knows where it was reached from.         *)
THEOREM PagesInvariant == Spec => []IInv
<1>1. Init => IInv
  BY DEF Init, IInv, TypeOK, NewerMet, SurvivorsMet, Forward, Current, LedHere
<1>2. IInv /\ [Next]_vars => IInv'
  BY NextStep
<1> QED BY <1>1, <1>2, PTL DEF Spec

(* No page size, table or traffic makes a walk through the pages pass over  *)
(* a row that was there all the time (adminPage and its queries).           *)
THEOREM SurvivorsAlwaysMet == Spec => []SurvivorsMet
<1>1. IInv => SurvivorsMet
  BY DEF IInv
<1> QED BY <1>1, PagesInvariant, PTL

(* For every table, filter and page size, turning round at any page leads   *)
(* back to the rows one came from (adminPage: the row too many, the order   *)
(* of a backward page, and the ends its links are read off).                *)
THEOREM TurningLeadsBack == Spec => RoundTrip
<1> DEFINE Back == page # None /\ page' # page
                   /\ page'.cursor # None /\ page.cursor # None
                   /\ page'.cursor.back # page.cursor.back
                   /\ left # None /\ left' # None
                   => page'.rows = left
<1>1. IInv /\ [Next]_vars => [Back]_vars
  <2> SUFFICES ASSUME IInv, Next, page # None, page' # page, page'.cursor # None,
                      page.cursor # None, page'.cursor.back # page.cursor.back, left # None
               PROVE  page'.rows = left
    OBVIOUS
  <2>0. TypeOK
    BY DEF IInv
  <2>1. CASE First
    BY <2>0, <2>1, PageShows DEF First
  <2>2. ASSUME NEW b \in BOOLEAN, LinkOf(page, b) # None,
               Follow([key |-> LinkOf(page, b), back |-> b])
        PROVE  page'.rows = left
    <3> DEFINE c == [key |-> LinkOf(page, b), back |-> b]
    <3>1. LinkOf(page, b) \in Keys
      BY <2>0, <2>2 DEF TypeOK, Page, LinkOf
    <3>2. c \in Cursor /\ c.back = b
      BY <3>1 DEF Cursor
    <3>3. page'.cursor = c
      BY <2>2 DEF Follow, PageOf
    <3> QED BY <2>2, <3>2, <3>3, LinkBack
  <2>3. CASE FollowNext
    <3>1. LinkOf(page, FALSE) # None /\ Follow([key |-> LinkOf(page, FALSE), back |-> FALSE])
      BY <2>3 DEF FollowNext, LinkOf
    <3> QED BY <2>2, <3>1
  <2>4. CASE FollowPrevious
    <3>1. LinkOf(page, TRUE) # None /\ Follow([key |-> LinkOf(page, TRUE), back |-> TRUE])
      BY <2>4 DEF FollowPrevious, LinkOf
    <3> QED BY <2>2, <3>1
  <2> QED BY <2>1, <2>3, <2>4 DEF Next, Insert, Delete
<1> QED BY <1>1, PagesInvariant, PTL DEF Spec, RoundTrip
=============================================================================
