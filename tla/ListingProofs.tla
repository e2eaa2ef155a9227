--------------------------- MODULE ListingProofs ---------------------------
(***************************************************************************)
(* Theorems about Listing, for any contents, page size and page asked for, *)
(* whatever other administrators upload and delete meanwhile.              *)
(***************************************************************************)
EXTENDS Listing, SequenceTheorems, TLAPS

-----------------------------------------------------------------------------
(* Arithmetic of pages.                                                    *)

LEMMA Division ==
    ASSUME NEW n \in Nat, NEW d \in Nat \ {0}
    PROVE  /\ n \div d \in Nat
           /\ d * (n \div d) <= n
           /\ n < d * (n \div d) + d
<1>1. n = d * (n \div d) + (n % d) /\ (n % d) \in 0..(d - 1)
  BY SMT
<1> QED
  BY <1>1, SMT

LEMMA PageBounds ==
    ASSUME NEW page \in Nat \ {0}
    PROVE  /\ Offset(page) \in Nat /\ page * PageSize \in Nat
           /\ Offset(page) + PageSize = page * PageSize
           /\ Offset(page + 1) = page * PageSize
BY ListingAssumption, SMT DEF Offset

LEMMA PageOrder ==
    ASSUME NEW page \in Nat \ {0}, NEW other \in Nat \ {0}, page < other
    PROVE  page * PageSize <= Offset(other)
<1>1. PageSize \in Nat \ {0}
  BY ListingAssumption
<1>2. other - 1 \in Nat /\ page <= other - 1
  OBVIOUS
<1>3. \A a, b, c \in Nat : a <= b => a * c <= b * c
  BY SMT
<1> QED
  BY <1>1, <1>2, <1>3 DEF Offset

LEMMA Totals ==
    ASSUME NEW n \in Nat
    PROVE  /\ TotalPages(n) \in Nat \ {0}
           /\ n <= TotalPages(n) * PageSize
           /\ n # 0 => Offset(TotalPages(n)) < n
<1>1. PageSize \in Nat \ {0}
  BY ListingAssumption
<1>2. CASE n = 0
  BY <1>1, <1>2 DEF TotalPages
<1>3. CASE n # 0
  <2> DEFINE q == (n + PageSize - 1) \div PageSize
  <2>1. n + PageSize - 1 \in Nat
    BY <1>1, <1>3
  <2>2. /\ q \in Nat /\ PageSize * q <= n + PageSize - 1
        /\ n + PageSize - 1 < PageSize * q + PageSize
    BY <1>1, <2>1, Division
  <2>3. TotalPages(n) = q
    BY <1>3 DEF TotalPages
  <2> HIDE DEF q
  <2>4. q # 0
    BY <1>1, <1>3, <2>2
  <2>5. PageSize * q = q * PageSize /\ (q - 1) * PageSize = q * PageSize - PageSize
        /\ q * PageSize \in Nat
    BY <1>1, <2>2, SMT
  <2>6. n <= q * PageSize /\ (q - 1) * PageSize < n
    BY <1>1, <2>2, <2>5
  <2> QED
    BY <2>2, <2>3, <2>4, <2>6 DEF Offset
<1> QED
  BY <1>2, <1>3

LEMMA Clamped ==
    ASSUME NEW page \in Int, NEW total \in Nat \ {0}
    PROVE  Clamp(page, total) \in 1..total
BY DEF Clamp

-----------------------------------------------------------------------------
(* What a page shows.                                                      *)

OnPage(i, page) == Offset(page) < i /\ i <= Offset(page) + PageSize
Last(seq, page) ==
    IF Len(seq) < Offset(page) + PageSize THEN Len(seq) ELSE Offset(page) + PageSize

LEMMA PageShows ==
    ASSUME NEW seq \in Seq(Contents), NEW page \in Nat \ {0}
    PROVE  /\ PageOf(seq, page) \in Seq(Contents)
           /\ Len(PageOf(seq, page)) <= PageSize
           /\ \A i \in DOMAIN seq :
                OnPage(i, page) => seq[i] \in Elements(PageOf(seq, page))
           /\ \A c \in Elements(PageOf(seq, page)) :
                \E i \in DOMAIN seq : OnPage(i, page) /\ seq[i] = c
<1> DEFINE from == Offset(page)
           last == Last(seq, page)
           items == PageOf(seq, page)
<1>1. from \in Nat /\ PageSize \in Nat \ {0} /\ Len(seq) \in Nat
      /\ DOMAIN seq = 1..Len(seq)
  <2>1. Offset(page) \in Nat /\ PageSize \in Nat \ {0}
    BY PageBounds, ListingAssumption
  <2>2. Len(seq) \in Nat /\ DOMAIN seq = 1..Len(seq)
    OBVIOUS
  <2> QED
    BY <2>1, <2>2
<1>2. last \in Nat /\ last <= Len(seq) /\ last <= from + PageSize
      /\ \A i \in 1..Len(seq) : i <= from + PageSize => i <= last
  BY <1>1 DEF Last
<1>3. items = SubSeq(seq, from + 1, last)
  BY DEF PageOf, Last
<1> HIDE DEF from, last, items
<1>4. \A i \in (from + 1)..last : i \in DOMAIN seq /\ seq[i] \in Contents
  BY <1>1, <1>2
<1>5. /\ items \in Seq(Contents)
      /\ Len(items) = IF from + 1 <= last THEN last - (from + 1) + 1 ELSE 0
      /\ \A j \in 1..(last - (from + 1) + 1) : items[j] = seq[(from + 1) + j - 1]
  BY <1>1, <1>2, <1>3, <1>4, SubSeqProperties
<1>6. Len(items) <= PageSize
  BY <1>1, <1>2, <1>5
<1>7. DOMAIN items = 1..Len(items)
  BY <1>5
<1>8. ASSUME NEW i \in DOMAIN seq, from < i, i <= from + PageSize
      PROVE  seq[i] \in Elements(items)
  <2>1. i <= last /\ from + 1 <= last
    BY <1>1, <1>2, <1>8
  <2>2. i - from \in 1..(last - (from + 1) + 1) /\ i - from \in DOMAIN items
    BY <1>1, <1>2, <1>5, <1>7, <1>8, <2>1
  <2>3. items[i - from] = seq[(from + 1) + (i - from) - 1]
    BY <1>5, <2>2
  <2>4. (from + 1) + (i - from) - 1 = i
    BY <1>1
  <2> QED
    BY <2>2, <2>3, <2>4 DEF Elements
<1>9. ASSUME NEW c \in Elements(items)
      PROVE  \E i \in DOMAIN seq : from < i /\ i <= from + PageSize /\ seq[i] = c
  <2>1. PICK j \in DOMAIN items : items[j] = c
    BY DEF Elements
  <2>2. /\ j \in 1..(last - (from + 1) + 1) /\ (from + 1) + j - 1 = from + j
        /\ from + j \in DOMAIN seq
        /\ from < from + j /\ from + j <= from + PageSize
    BY <1>1, <1>2, <1>5, <1>7
  <2>3. seq[from + j] = c
    BY <1>5, <2>1, <2>2
  <2> QED
    BY <2>2, <2>3
<1> QED
  BY <1>5, <1>6, <1>8, <1>9 DEF OnPage, from, items

\* A content is on one page, and the pages there are have them all.
LEMMA OnePage ==
    ASSUME NEW i \in Nat \ {0}, NEW page \in Nat \ {0}, NEW other \in Nat \ {0},
           OnPage(i, page), OnPage(i, other)
    PROVE  page = other
<1>1. \A p, q \in Nat \ {0} : OnPage(i, p) /\ OnPage(i, q) => ~(p < q)
  <2> SUFFICES ASSUME NEW p \in Nat \ {0}, NEW q \in Nat \ {0},
                      OnPage(i, p), OnPage(i, q), p < q
               PROVE  FALSE
    OBVIOUS
  <2>1. i <= p * PageSize /\ Offset(q) < i
    BY PageBounds DEF OnPage
  <2>2. p * PageSize <= Offset(q)
    BY PageOrder
  <2>3. p * PageSize \in Nat /\ Offset(q) \in Nat
    BY PageBounds
  <2> QED
    BY <2>1, <2>2, <2>3
<1> QED
  BY <1>1

LEMMA SomePage ==
    ASSUME NEW n \in Nat, NEW i \in 1..n
    PROVE  \E page \in 1..TotalPages(n) : OnPage(i, page)
<1> DEFINE q == (i - 1) \div PageSize
<1>1. PageSize \in Nat \ {0} /\ i - 1 \in Nat
  BY ListingAssumption
<1>2. q \in Nat /\ PageSize * q <= i - 1 /\ i - 1 < PageSize * q + PageSize
  BY <1>1, Division
<1> HIDE DEF q
<1>3. Offset(q + 1) = PageSize * q
  BY <1>1, <1>2, SMT DEF Offset
<1>4. OnPage(i, q + 1)
  BY <1>1, <1>2, <1>3 DEF OnPage
<1>5. TotalPages(n) \in Nat \ {0} /\ n <= TotalPages(n) * PageSize
  BY Totals
<1>6. q + 1 <= TotalPages(n)
  <2> SUFFICES ASSUME TotalPages(n) < q + 1 PROVE FALSE
    BY <1>2, <1>5
  <2>1. TotalPages(n) * PageSize <= Offset(q + 1)
    BY <1>2, <1>5, PageOrder
  <2>2. Offset(q + 1) \in Nat /\ TotalPages(n) * PageSize \in Nat
    BY <1>2, <1>5, PageBounds
  <2> QED
    BY <1>5, <1>4, <2>1, <2>2 DEF OnPage
<1> QED
  BY <1>2, <1>4, <1>5, <1>6

-----------------------------------------------------------------------------
(* What uploads and deletions do to the list.                              *)

LEMMA Created ==
    ASSUME NEW seq \in Seq(Contents), NEW c \in Contents, NEW i \in 1..(Len(seq) + 1)
    PROVE  LET new == SubSeq(seq, 1, i - 1) \o (<<c>> \o SubSeq(seq, i, Len(seq))) IN
           /\ new \in Seq(Contents) /\ Len(new) = Len(seq) + 1
           /\ \A j \in 1..(Len(seq) + 1) :
                new[j] = IF j < i THEN seq[j] ELSE IF j = i THEN c ELSE seq[j - 1]
<1> DEFINE a == SubSeq(seq, 1, i - 1)
           b == SubSeq(seq, i, Len(seq))
           d == <<c>> \o b
           new == a \o d
<1>1. Len(seq) \in Nat /\ i \in Int /\ 1 <= i /\ i <= Len(seq) + 1
      /\ \A j \in 1..Len(seq) : seq[j] \in Contents
  OBVIOUS
<1>2. /\ a \in Seq(Contents) /\ Len(a) = IF 1 <= i - 1 THEN i - 1 - 1 + 1 ELSE 0
      /\ \A j \in 1..(i - 1 - 1 + 1) : a[j] = seq[1 + j - 1]
  BY <1>1, SubSeqProperties
<1>3. /\ b \in Seq(Contents)
      /\ Len(b) = IF i <= Len(seq) THEN Len(seq) - i + 1 ELSE 0
      /\ \A j \in 1..(Len(seq) - i + 1) : b[j] = seq[i + j - 1]
  BY <1>1, SubSeqProperties
<1> HIDE DEF a, b
<1>4. Len(a) = i - 1 /\ Len(b) = Len(seq) - i + 1
  BY <1>1, <1>2, <1>3
<1>5. <<c>> \in Seq(Contents) /\ Len(<<c>>) = 1 /\ <<c>>[1] = c
  OBVIOUS
<1>6. /\ d \in Seq(Contents) /\ Len(d) = Len(<<c>>) + Len(b)
      /\ \A j \in 1..(Len(<<c>>) + Len(b)) :
            d[j] = IF j <= Len(<<c>>) THEN <<c>>[j] ELSE b[j - Len(<<c>>)]
  BY <1>3, <1>5, ConcatProperties
<1>length. Len(d) \in Nat /\ Len(d) = Len(seq) - i + 2
  BY <1>1, <1>4, <1>5, <1>6
<1> HIDE DEF d
<1>7. d[1] = c /\ \A j \in 1..Len(b) : d[j + 1] = b[j]
  <2>1. \A j \in 1..(1 + Len(b)) : d[j] = IF j <= 1 THEN <<c>>[j] ELSE b[j - 1]
    BY <1>5, <1>6
  <2>2. Len(b) \in Nat
    BY <1>1, <1>4
  <2> QED
    BY <1>5, <2>1, <2>2
<1>type. d \in Seq(Contents)
  BY <1>6
<1>8. /\ new \in Seq(Contents) /\ Len(new) = Len(a) + Len(d)
      /\ \A j \in 1..(Len(a) + Len(d)) :
            new[j] = IF j <= Len(a) THEN a[j] ELSE d[j - Len(a)]
  BY <1>2, <1>type, ConcatProperties
<1> HIDE DEF new
<1>9. Len(d) = Len(seq) - i + 2 /\ Len(new) = Len(seq) + 1
  BY <1>1, <1>4, <1>length, <1>8
<1>10. ASSUME NEW j \in 1..(Len(seq) + 1)
       PROVE  new[j] = IF j < i THEN seq[j] ELSE IF j = i THEN c ELSE seq[j - 1]
  <2>1. CASE j < i
    <3>1. j <= Len(a) /\ j \in 1..(Len(a) + Len(d)) /\ j \in 1..(i - 1 - 1 + 1)
      BY <1>1, <1>4, <1>length, <2>1
    <3>2. new[j] = a[j] /\ a[j] = seq[1 + j - 1]
      BY <1>2, <1>8, <3>1
    <3>3. 1 + j - 1 = j
      OBVIOUS
    <3> QED
      BY <2>1, <3>2, <3>3
  <2>2. CASE j = i
    <3>1. new[j] = d[j - (i - 1)] /\ j - (i - 1) = 1
      BY <1>1, <1>4, <1>8, <1>9, <2>2
    <3> QED
      BY <1>7, <2>2, <3>1
  <2>3. CASE j > i
    <3>1. PICK e \in Int : e = j - i
      BY <1>1
    <3>2. e \in 1..Len(b) /\ e \in 1..(Len(seq) - i + 1) /\ i + e - 1 = j - 1
          /\ j - (i - 1) = e + 1
      BY <1>1, <1>4, <2>3, <3>1
    <3>3. new[j] = d[e + 1]
      BY <1>1, <1>4, <1>8, <1>9, <2>3, <3>2
    <3>4. d[e + 1] = b[e] /\ b[e] = seq[i + e - 1]
      BY <1>3, <1>7, <3>2
    <3> QED
      BY <1>1, <2>3, <3>2, <3>3, <3>4
  <2> QED
    BY <1>1, <2>1, <2>2, <2>3
<1> QED
  BY <1>8, <1>9, <1>10 DEF new, d, a, b

LEMMA Deleted ==
    ASSUME NEW seq \in Seq(Contents), NEW i \in DOMAIN seq
    PROVE  LET new == SubSeq(seq, 1, i - 1) \o SubSeq(seq, i + 1, Len(seq)) IN
           /\ new \in Seq(Contents) /\ Len(new) = Len(seq) - 1
           /\ \A j \in 1..(Len(seq) - 1) :
                new[j] = IF j < i THEN seq[j] ELSE seq[j + 1]
<1> DEFINE a == SubSeq(seq, 1, i - 1)
           b == SubSeq(seq, i + 1, Len(seq))
           new == a \o b
<1>1. Len(seq) \in Nat /\ i \in 1..Len(seq) /\ \A j \in 1..Len(seq) : seq[j] \in Contents
  OBVIOUS
<1>2. /\ a \in Seq(Contents) /\ Len(a) = IF 1 <= i - 1 THEN i - 1 - 1 + 1 ELSE 0
      /\ \A j \in 1..(i - 1 - 1 + 1) : a[j] = seq[1 + j - 1]
  BY <1>1, SubSeqProperties
<1>3. /\ b \in Seq(Contents)
      /\ Len(b) = IF i + 1 <= Len(seq) THEN Len(seq) - (i + 1) + 1 ELSE 0
      /\ \A j \in 1..(Len(seq) - (i + 1) + 1) : b[j] = seq[(i + 1) + j - 1]
  BY <1>1, SubSeqProperties
<1> HIDE DEF a, b
<1>4. Len(a) = i - 1 /\ Len(b) = Len(seq) - i
  BY <1>1, <1>2, <1>3
<1>5. /\ new \in Seq(Contents) /\ Len(new) = Len(a) + Len(b)
      /\ \A j \in 1..(Len(a) + Len(b)) :
            new[j] = IF j <= Len(a) THEN a[j] ELSE b[j - Len(a)]
  BY <1>2, <1>3, ConcatProperties
<1> HIDE DEF new
<1>6. Len(new) = Len(seq) - 1
  BY <1>1, <1>4, <1>5
<1>7. ASSUME NEW j \in 1..(Len(seq) - 1)
      PROVE  new[j] = IF j < i THEN seq[j] ELSE seq[j + 1]
  <2>1. CASE j < i
    <3>1. new[j] = a[j] /\ a[j] = seq[1 + j - 1] /\ 1 + j - 1 = j
      BY <1>1, <1>2, <1>4, <1>5, <2>1
    <3> QED
      BY <2>1, <3>1
  <2>2. CASE ~(j < i)
    <3>1. new[j] = b[j - (i - 1)]
      BY <1>1, <1>4, <1>5, <2>2
    <3>2. PICK d \in Int : d = j - (i - 1)
      BY <1>1
    <3>3. d \in 1..(Len(seq) - (i + 1) + 1) /\ (i + 1) + d - 1 = j + 1
      BY <1>1, <2>2, <3>2
    <3>4. b[d] = seq[(i + 1) + d - 1]
      BY <1>3, <3>3
    <3> QED
      BY <2>2, <3>1, <3>2, <3>3, <3>4
  <2> QED
    BY <2>1, <2>2
<1>8. new \in Seq(Contents) /\ Len(new) = Len(seq) - 1
      /\ \A j \in 1..(Len(seq) - 1) : new[j] = IF j < i THEN seq[j] ELSE seq[j + 1]
  BY <1>5, <1>6, <1>7
<1> QED
  BY <1>8 DEF new, a, b

-----------------------------------------------------------------------------
(* The inductive invariant.                                                *)

Distinct == \A i, j \in DOMAIN list : list[i] = list[j] => i = j

\* What was counted bounds what is there, until something happens.
Counted ==
    view.pc = "read" =>
        /\ "created" \notin meanwhile => Len(list) <= view.counted
        /\ "deleted" \notin meanwhile => view.counted <= Len(list)

\* Deletions pull what was seen towards the first page, uploads push what is
\* to be seen towards the last: each keeps one half of the walk in order.
SeenBehind ==
    (walk.upto # 0 /\ "created" \notin walk.since) =>
        \A i \in DOMAIN list : list[i] \in walk.seen => i <= walk.upto * PageSize
BehindSeen ==
    (walk.upto # 0 /\ "deleted" \notin walk.since) =>
        \A i \in DOMAIN list : (i <= walk.upto * PageSize /\ list[i] \in walk.stayed)
                                    => list[i] \in walk.seen

ListInv ==
    /\ TypeOK /\ Distinct /\ Counted
    /\ walk.upto = 0 => walk = NoWalk
    /\ walk.stayed \subseteq Elements(list)
    /\ SeenBehind /\ BehindSeen /\ MissesExplained /\ RepeatsExplained

LEMMA NoWalkInv ==
    ASSUME walk = NoWalk, view.total # 0
    PROVE  /\ walk \in Walks /\ walk.upto = 0
           /\ walk.stayed \subseteq Elements(list)
           /\ SeenBehind /\ BehindSeen /\ MissesExplained /\ RepeatsExplained
BY DEF NoWalk, Walks, SeenBehind, BehindSeen, MissesExplained, RepeatsExplained

LEMMA Initially == Init => ListInv
<1> SUFFICES ASSUME Init PROVE ListInv
  OBVIOUS
<1>1. <<>> \in Seq(Contents) /\ Len(<<>>) = 0 /\ DOMAIN <<>> = {}
  OBVIOUS
<1>2. view \in Views /\ view.total = 1 /\ view.page = 1 /\ view.items = <<>> /\ view.pc = "idle"
  BY <1>1 DEF Init, Views
<1>3. walk = NoWalk /\ view.total # 0
  BY <1>2 DEF Init
<1>4. Distinct /\ Counted
  BY <1>1, <1>2 DEF Init, Distinct, Counted
<1>5. TypeOK
  BY <1>1, <1>2, <1>3, NoWalkInv, ListingAssumption DEF Init, TypeOK
<1> QED
  BY <1>3, <1>4, <1>5, NoWalkInv DEF ListInv

-----------------------------------------------------------------------------
(* The steps.                                                              *)

LEMMA AskInv ==
    ASSUME ListInv, NEW page \in Int, Ask(page) PROVE ListInv'
<1>1. view.pc = "idle" /\ view \in Views
  BY DEF Ask, ListInv, TypeOK
<1>2. /\ view' \in Views /\ view'.pc = "count" /\ view'.page = view.page
      /\ view'.total = view.total /\ view'.items = view.items
  BY <1>1 DEF Ask, Views
<1>3. UNCHANGED <<list, meanwhile, walk>>
  BY DEF Ask
<1>4. TypeOK'
  BY <1>2, <1>3 DEF ListInv, TypeOK
<1> QED
  BY <1>2, <1>3, <1>4
     DEF ListInv, Distinct, Counted, SeenBehind, BehindSeen, MissesExplained, RepeatsExplained

LEMMA CountInv ==
    ASSUME ListInv, Count PROVE ListInv'
<1>1. view \in Views /\ Len(list) \in Nat
  BY DEF ListInv, TypeOK
<1>2. /\ view' \in Views /\ view'.pc = "read" /\ view'.page = view.page
      /\ view'.total = view.total /\ view'.items = view.items
      /\ view'.counted = Len(list)
  BY <1>1 DEF Count, Views
<1>3. UNCHANGED <<list, meanwhile, walk>>
  BY DEF Count
<1>4. TypeOK'
  BY <1>2, <1>3 DEF ListInv, TypeOK
<1>5. Counted'
  BY <1>1, <1>2, <1>3 DEF Counted
<1> QED
  BY <1>2, <1>3, <1>4, <1>5
     DEF ListInv, Distinct, SeenBehind, BehindSeen, MissesExplained, RepeatsExplained

LEMMA CreateInv ==
    ASSUME ListInv, NEW c \in Contents, NEW i, Create(c, i) PROVE ListInv'
<1>1. list \in Seq(Contents) /\ Len(list) \in Nat /\ DOMAIN list = 1..Len(list)
      /\ i \in 1..(Len(list) + 1)
  BY DEF ListInv, TypeOK, Create
<1>2. /\ list' \in Seq(Contents) /\ Len(list') = Len(list) + 1
      /\ \A j \in 1..(Len(list) + 1) :
            list'[j] = IF j < i THEN list[j] ELSE IF j = i THEN c ELSE list[j - 1]
      /\ DOMAIN list' = 1..(Len(list) + 1)
  <2> DEFINE new == SubSeq(list, 1, i - 1) \o (<<c>> \o SubSeq(list, i, Len(list)))
  <2>1. /\ new \in Seq(Contents) /\ Len(new) = Len(list) + 1
        /\ \A j \in 1..(Len(list) + 1) :
              new[j] = IF j < i THEN list[j] ELSE IF j = i THEN c ELSE list[j - 1]
    BY <1>1, Created
  <2>2. list' = new
    BY DEF Create
  <2> HIDE DEF new
  <2>3. DOMAIN new = 1..Len(new)
    BY <2>1
  <2> QED
    BY <2>1, <2>2, <2>3
\* Where a content that is not the new one was before.
<1> DEFINE Was(j) == IF j < i THEN j ELSE j - 1
<1>3. \A j \in DOMAIN list' :
        j = i \/ (Was(j) \in DOMAIN list /\ list'[j] = list[Was(j)] /\ Was(j) <= j)
  BY <1>1, <1>2
<1>4. c \notin Elements(list)
  BY DEF Create
<1>5. Distinct'
  <2>1. list'[i] = c /\ \A j \in DOMAIN list' : j # i => list'[j] # c
    BY <1>1, <1>2, <1>3, <1>4 DEF Elements
  <2>2. \A h, j \in DOMAIN list' :
            (h # i /\ j # i /\ list'[h] = list'[j]) => Was(h) = Was(j)
    BY <1>3 DEF ListInv, Distinct
  <2>3. \A h, j \in DOMAIN list' : (h # i /\ j # i /\ Was(h) = Was(j)) => h = j
    BY <1>1, <1>2
  <2> HIDE DEF Was
  <2> QED
    BY <2>1, <2>2, <2>3 DEF Distinct
<1>6. UNCHANGED view
  BY DEF Create, Happened
<1>7. meanwhile' = IF view.pc = "read" THEN meanwhile \cup {"created"} ELSE {}
  BY DEF Create, Happened
<1>8. Counted'
  BY <1>1, <1>2, <1>6, <1>7 DEF ListInv, Counted, TypeOK, Views
<1>9. view \in Views /\ view.total # 0 /\ walk \in Walks
  BY DEF ListInv, TypeOK, Views
<1>10. CASE walk' = NoWalk
  <2>1. (walk \in Walks /\ walk.upto = 0 /\ walk.stayed \subseteq Elements(list)
         /\ SeenBehind /\ BehindSeen /\ MissesExplained /\ RepeatsExplained)'
    BY <1>6, <1>9, <1>10
       DEF NoWalk, Walks, SeenBehind, BehindSeen, MissesExplained, RepeatsExplained
  <2> QED
    BY <1>2, <1>5, <1>6, <1>7, <1>8, <1>10, <2>1 DEF ListInv, TypeOK, Changes
<1>11. CASE walk.upto # 0 /\ walk' = [walk EXCEPT !.since = @ \cup {"created"},
                                                !.stayed = @ \cap Elements(list')]
  <2>1. /\ walk'.upto = walk.upto /\ walk'.seen = walk.seen /\ walk'.twice = walk.twice
        /\ walk'.stayed = walk.stayed \cap Elements(list')
        /\ walk'.since = walk.since \cup {"created"} /\ walk'.raced = walk.raced
        /\ walk' \in Walks
    BY <1>9, <1>11 DEF Walks, Changes
  <2>2. SeenBehind' /\ RepeatsExplained'
    BY <2>1 DEF SeenBehind, RepeatsExplained
  <2>3. BehindSeen'
    <3> SUFFICES ASSUME "deleted" \notin walk.since, NEW j \in DOMAIN list',
                        j <= walk.upto * PageSize, list'[j] \in walk.stayed
                 PROVE  list'[j] \in walk.seen
      BY <2>1 DEF BehindSeen
    <3>1. list'[j] \in Elements(list)
      BY DEF ListInv
    <3>2. j # i
      BY <1>1, <1>2, <1>4, <3>1
    <3>3. Was(j) \in DOMAIN list /\ list'[j] = list[Was(j)] /\ Was(j) <= j
      BY <1>3, <3>2
    <3>4. walk.upto \in Nat \ {0}
      BY <1>9, <1>11 DEF Walks
    <3>5. walk.upto * PageSize \in Nat
      BY <3>4, PageBounds
    <3> HIDE DEF Was
    <3>6. Was(j) <= walk.upto * PageSize
      BY <1>1, <1>2, <3>3, <3>5
    <3> QED
      BY <1>11, <3>3, <3>6 DEF ListInv, BehindSeen
  <2>4. MissesExplained'
    BY <1>6, <2>1 DEF ListInv, MissesExplained
  <2>5. walk'.upto # 0
    BY <1>11, <2>1
  <2> QED
    BY <1>2, <1>5, <1>6, <1>7, <1>8, <2>1, <2>2, <2>3, <2>4, <2>5 DEF ListInv, TypeOK, Changes
<1> QED
  BY <1>10, <1>11 DEF Create, Happened

LEMMA DeleteInv ==
    ASSUME ListInv, NEW d \in DOMAIN list, Delete(d) PROVE ListInv'
<1>1. list \in Seq(Contents) /\ Len(list) \in Nat /\ DOMAIN list = 1..Len(list)
  BY DEF ListInv, TypeOK
<1>2. /\ list' \in Seq(Contents) /\ Len(list') = Len(list) - 1
      /\ \A j \in 1..(Len(list) - 1) : list'[j] = IF j < d THEN list[j] ELSE list[j + 1]
      /\ DOMAIN list' = 1..(Len(list) - 1)
  <2>1. /\ list' \in Seq(Contents) /\ Len(list') = Len(list) - 1
        /\ \A j \in 1..(Len(list) - 1) : list'[j] = IF j < d THEN list[j] ELSE list[j + 1]
    BY <1>1, Deleted DEF Delete
  <2>2. DOMAIN list' = 1..Len(list')
    BY <2>1
  <2> QED
    BY <2>1, <2>2
<1>3. \A j \in DOMAIN list' :
        \E i \in DOMAIN list : /\ list'[j] = list[i] /\ j <= i
                               /\ i = IF j < d THEN j ELSE j + 1
  <2> SUFFICES ASSUME NEW j \in DOMAIN list'
               PROVE  \E i \in DOMAIN list : /\ list'[j] = list[i] /\ j <= i
                                             /\ i = IF j < d THEN j ELSE j + 1
    OBVIOUS
  <2>1. j \in 1..Len(list) /\ j + 1 \in 1..Len(list) /\ j \in Nat
    BY <1>1, <1>2
  <2> QED
    BY <1>1, <1>2, <2>1
<1>4. Distinct'
  <2> SUFFICES ASSUME NEW j \in DOMAIN list', NEW k \in DOMAIN list', list'[j] = list'[k]
               PROVE  j = k
    BY DEF Distinct
  <2>1. PICK i \in DOMAIN list : list'[j] = list[i] /\ i = IF j < d THEN j ELSE j + 1
    BY <1>3
  <2>2. PICK l \in DOMAIN list : list'[k] = list[l] /\ l = IF k < d THEN k ELSE k + 1
    BY <1>3
  <2>3. i = l
    BY <2>1, <2>2 DEF ListInv, Distinct
  <2> QED
    BY <1>1, <1>2, <2>1, <2>2, <2>3
<1>5. Elements(list') \subseteq Elements(list)
  BY <1>3 DEF Elements
<1>6. UNCHANGED view
  BY DEF Delete, Happened
<1>7. meanwhile' = IF view.pc = "read" THEN meanwhile \cup {"deleted"} ELSE {}
  BY DEF Delete, Happened
<1>8. Counted'
  BY <1>1, <1>2, <1>6, <1>7 DEF ListInv, Counted, TypeOK, Views
<1>9. view \in Views /\ view.total # 0 /\ walk \in Walks
  BY DEF ListInv, TypeOK, Views
<1>10. CASE walk' = NoWalk
  <2>1. (walk \in Walks /\ walk.upto = 0 /\ walk.stayed \subseteq Elements(list)
         /\ SeenBehind /\ BehindSeen /\ MissesExplained /\ RepeatsExplained)'
    BY <1>6, <1>9, <1>10
       DEF NoWalk, Walks, SeenBehind, BehindSeen, MissesExplained, RepeatsExplained
  <2> QED
    BY <1>2, <1>4, <1>6, <1>7, <1>8, <1>10, <2>1 DEF ListInv, TypeOK, Changes
<1>11. CASE walk.upto # 0 /\ walk' = [walk EXCEPT !.since = @ \cup {"deleted"},
                                                !.stayed = @ \cap Elements(list')]
  <2>1. /\ walk'.upto = walk.upto /\ walk'.seen = walk.seen /\ walk'.twice = walk.twice
        /\ walk'.stayed = walk.stayed \cap Elements(list')
        /\ walk'.since = walk.since \cup {"deleted"} /\ walk'.raced = walk.raced
        /\ walk' \in Walks
    BY <1>9, <1>11 DEF Walks, Changes
  <2>2. BehindSeen' /\ MissesExplained'
    BY <2>1 DEF BehindSeen, MissesExplained
  <2>3. SeenBehind'
    <3> SUFFICES ASSUME "created" \notin walk.since, NEW j \in DOMAIN list',
                        list'[j] \in walk.seen
                 PROVE  j <= walk.upto * PageSize
      BY <2>1 DEF SeenBehind
    <3>1. PICK i \in DOMAIN list : list'[j] = list[i] /\ j <= i
      BY <1>3
    <3>2. i <= walk.upto * PageSize
      BY <1>11, <3>1 DEF ListInv, SeenBehind
    <3>3. walk.upto * PageSize \in Nat
      BY <1>9, <1>11, PageBounds DEF Walks
    <3> QED
      BY <1>1, <1>2, <3>1, <3>2, <3>3
  <2>4. RepeatsExplained'
    BY <2>1 DEF ListInv, RepeatsExplained
  <2>5. walk'.upto # 0
    BY <1>11, <2>1
  <2> QED
    BY <1>2, <1>4, <1>6, <1>7, <1>8, <2>1, <2>2, <2>3, <2>4, <2>5 DEF ListInv, TypeOK, Changes
<1> QED
  BY <1>10, <1>11 DEF Delete, Happened

LEMMA ReadInv ==
    ASSUME ListInv, Read PROVE ListInv'
<1> DEFINE total == TotalPages(view.counted)
           page == Clamp(view.asked, total)
           items == PageOf(list, page)
<1>1. /\ view.counted \in Nat /\ view.asked \in Int /\ list \in Seq(Contents)
      /\ Len(list) \in Nat /\ DOMAIN list = 1..Len(list) /\ view.pc = "read"
      /\ walk \in Walks /\ meanwhile \subseteq Changes
  BY DEF ListInv, TypeOK, Views, Read
<1>2. total \in Nat \ {0} /\ view.counted <= total * PageSize
  BY <1>1, Totals
<1>3. page \in Nat \ {0} /\ page <= total
  <2>1. page \in 1..total
    BY <1>1, <1>2, Clamped
  <2> HIDE DEF page, total
  <2> QED
    BY <1>2, <2>1
<1>4. /\ items \in Seq(Contents) /\ Len(items) <= PageSize
      /\ \A i \in DOMAIN list : OnPage(i, page) => list[i] \in Elements(items)
      /\ \A c \in Elements(items) : \E i \in DOMAIN list : OnPage(i, page) /\ list[i] = c
  BY <1>1, <1>3, PageShows
<1>5. view' = [pc |-> "idle", asked |-> page, counted |-> 0,
               page |-> page, total |-> total, items |-> items]
  BY DEF Read
<1>6. walk' = Walked(view.asked, page, Elements(items))
  BY DEF Read
<1>7. meanwhile' = {} /\ list' = list
  BY DEF Read
<1> HIDE DEF total, page, items
<1>8. /\ view' \in Views /\ view'.page = page /\ view'.total = total
      /\ view'.items = items /\ view'.pc = "idle"
  BY <1>2, <1>3, <1>4, <1>5 DEF Views
<1>9. Distinct' /\ Counted'
  BY <1>7, <1>8 DEF ListInv, Distinct, Counted
<1>10. Elements(items) \subseteq Elements(list) /\ Elements(list) \subseteq Contents
  BY <1>1, <1>4 DEF Elements
<1> SUFFICES (/\ walk \in Walks /\ (walk.upto = 0 => walk = NoWalk)
              /\ walk.stayed \subseteq Elements(list)
              /\ SeenBehind /\ BehindSeen /\ MissesExplained /\ RepeatsExplained)'
  BY <1>1, <1>3, <1>4, <1>7, <1>8, <1>9 DEF ListInv, TypeOK
<1>11. CASE walk' = NoWalk
  BY <1>2, <1>8, <1>11 DEF NoWalk, Walks, SeenBehind, BehindSeen, MissesExplained, RepeatsExplained
<1>12. ASSUME walk' \in Walks, walk'.upto = page, walk'.stayed \subseteq Elements(list),
              walk'.raced = meanwhile, SeenBehind', BehindSeen', RepeatsExplained'
       PROVE  MissesExplained'
  <2> SUFFICES ASSUME page = total, "deleted" \notin walk'.since,
                      "created" \notin meanwhile, NEW c \in walk'.stayed
               PROVE  c \in walk'.seen
    BY <1>8, <1>12 DEF MissesExplained
  <2>1. PICK i \in DOMAIN list : list[i] = c
    BY <1>12 DEF Elements
  <2>2. Len(list) <= view.counted
    BY <1>1 DEF ListInv, Counted
  <2>3. total * PageSize \in Nat
    BY <1>2, PageBounds
  <2>4. i <= page * PageSize
    BY <1>1, <1>2, <2>2, <2>3
  <2> QED
    BY <1>3, <1>7, <1>12, <2>1, <2>4 DEF BehindSeen
<1>13. CASE walk' = [upto |-> 1, seen |-> Elements(items), twice |-> FALSE,
                     stayed |-> Elements(list), since |-> {}, raced |-> meanwhile]
            /\ page = 1
  <2>1. /\ walk'.upto = 1 /\ walk'.seen = Elements(items) /\ walk'.twice = FALSE
        /\ walk'.stayed = Elements(list) /\ walk'.since = {} /\ walk'.raced = meanwhile
        /\ walk' \in Walks
    BY <1>1, <1>10, <1>13 DEF Walks
  <2>2. Offset(1) = 0 /\ Offset(1) + PageSize = 1 * PageSize
    BY PageBounds, ListingAssumption DEF Offset
  <2>3. SeenBehind'
    <3> SUFFICES ASSUME NEW i \in DOMAIN list, list[i] \in Elements(items)
                 PROVE  i <= 1 * PageSize
      BY <1>7, <2>1 DEF SeenBehind
    <3>1. PICK j \in DOMAIN list : OnPage(j, 1) /\ list[j] = list[i]
      BY <1>4, <1>13
    <3>2. i = j
      BY <3>1 DEF ListInv, Distinct
    <3> QED
      BY <2>2, <3>1, <3>2 DEF OnPage
  <2>4. BehindSeen'
    <3> SUFFICES ASSUME NEW i \in DOMAIN list, i <= 1 * PageSize
                 PROVE  list[i] \in Elements(items)
      BY <1>7, <2>1 DEF BehindSeen
    <3>1. OnPage(i, 1)
      BY <1>1, <2>2 DEF OnPage
    <3> QED
      BY <1>4, <1>13, <3>1
  <2>5. RepeatsExplained'
    BY <2>1 DEF RepeatsExplained
  <2> QED
    BY <1>7, <1>12, <1>13, <2>1, <2>3, <2>4, <2>5
<1>14. CASE /\ walk' = [walk EXCEPT !.upto = page, !.seen = @ \cup Elements(items),
                          !.twice = @ \/ walk.seen \cap Elements(items) # {},
                          !.raced = meanwhile]
            /\ page = walk.upto + 1 /\ page # 1
  <2>1. /\ walk'.upto = page /\ walk'.seen = walk.seen \cup Elements(items)
        /\ walk'.twice = (walk.twice \/ walk.seen \cap Elements(items) # {})
        /\ walk'.stayed = walk.stayed /\ walk'.since = walk.since
        /\ walk'.raced = meanwhile
    BY <1>1, <1>14 DEF Walks
  <2>2. walk' \in Walks
    <3>1. walk.twice \in BOOLEAN /\ (walk.twice \/ walk.seen \cap Elements(items) # {}) \in BOOLEAN
      BY <1>1 DEF Walks
    <3> QED
      BY <1>1, <1>3, <1>10, <1>14, <3>1 DEF Walks
  <2>3. walk.upto \in Nat \ {0}
    BY <1>1, <1>3, <1>14 DEF Walks
  <2>4. /\ walk.upto * PageSize = Offset(page) /\ page * PageSize = Offset(page) + PageSize
        /\ Offset(page) \in Nat /\ PageSize \in Nat
    BY <1>3, <1>14, <2>3, PageBounds, ListingAssumption
  <2>5. ASSUME "created" \notin walk.since
        PROVE  /\ \A i \in DOMAIN list : list[i] \in walk.seen => i <= Offset(page)
               /\ \A i \in DOMAIN list : list[i] \in Elements(items) =>
                      Offset(page) < i /\ i <= page * PageSize
    <3>1. \A i \in DOMAIN list : list[i] \in walk.seen => i <= Offset(page)
      BY <2>3, <2>4, <2>5 DEF ListInv, SeenBehind
    <3>2. ASSUME NEW i \in DOMAIN list, list[i] \in Elements(items)
          PROVE  Offset(page) < i /\ i <= page * PageSize
      <4>1. PICK j \in DOMAIN list : OnPage(j, page) /\ list[j] = list[i]
        BY <1>4, <3>2
      <4>2. i = j
        BY <4>1 DEF ListInv, Distinct
      <4> QED
        BY <2>4, <4>1, <4>2 DEF OnPage
    <3> QED
      BY <3>1, <3>2
  <2>6. SeenBehind'
    <3> SUFFICES ASSUME "created" \notin walk.since, NEW i \in DOMAIN list,
                        list[i] \in walk.seen \cup Elements(items)
                 PROVE  i <= page * PageSize
      BY <1>7, <2>1 DEF SeenBehind
    <3> QED
      BY <1>1, <2>4, <2>5
  <2>7. BehindSeen'
    <3> SUFFICES ASSUME "deleted" \notin walk.since, NEW i \in DOMAIN list,
                        i <= page * PageSize, list[i] \in walk.stayed
                 PROVE  list[i] \in walk.seen \cup Elements(items)
      BY <1>7, <2>1 DEF BehindSeen
    <3>1. CASE i <= Offset(page)
      BY <2>3, <2>4, <3>1 DEF ListInv, BehindSeen
    <3>2. CASE Offset(page) < i
      BY <1>4, <2>4, <3>2 DEF OnPage
    <3> QED
      BY <1>1, <2>4, <3>1, <3>2
  <2>8. RepeatsExplained'
    <3> SUFFICES ASSUME "created" \notin walk.since PROVE ~ walk'.twice
      BY <2>1 DEF RepeatsExplained
    <3>1. ~ walk.twice
      BY DEF ListInv, RepeatsExplained
    <3>2. walk.seen \cap Elements(items) = {}
      <4> SUFFICES ASSUME NEW c \in walk.seen \cap Elements(items) PROVE FALSE
        OBVIOUS
      <4>1. PICK i \in DOMAIN list : list[i] = c
        BY <1>10 DEF Elements
      <4>2. i <= Offset(page) /\ Offset(page) < i
        BY <2>5, <4>1
      <4> QED
        BY <1>1, <2>4, <4>2
    <3> QED
      BY <2>1, <3>1, <3>2
  <2>9. walk'.upto # 0
    BY <1>3, <2>1
  <2>10. walk'.stayed \subseteq Elements(list)
    BY <2>1 DEF ListInv
  <2> QED
    BY <1>7, <1>12, <2>1, <2>2, <2>6, <2>7, <2>8, <2>9, <2>10
<1> QED
  BY <1>6, <1>11, <1>13, <1>14 DEF Walked

LEMMA NextInv ==
    ASSUME ListInv, [Next]_vars PROVE ListInv'
<1>1. ASSUME NEW page \in 0..MaxPage, Ask(page) PROVE ListInv'
  BY <1>1, AskInv
<1>2. CASE Turn
  <2>1. view.page - 1 \in Int /\ view.page + 1 \in Int
    BY DEF ListInv, TypeOK, Views
  <2> QED
    BY <1>2, <2>1, AskInv DEF Turn
<1>3. CASE UNCHANGED vars
  BY <1>3 DEF vars, ListInv, TypeOK, Distinct, Counted, SeenBehind, BehindSeen,
              MissesExplained, RepeatsExplained
<1> QED
  BY <1>1, <1>2, <1>3, CountInv, ReadInv, CreateInv, DeleteInv DEF Next

THEOREM Invariance == Spec => []ListInv
BY Initially, NextInv, PTL DEF Spec

-----------------------------------------------------------------------------
(* What list_content and its buttons promise.                              *)

\* The page on screen is one of the pages there were, and no longer than a
\* page may be.
THEOREM TypeCorrect == Spec => []TypeOK
<1>1. ListInv => TypeOK
  BY DEF ListInv
<1> QED
  BY <1>1, Invariance, PTL

\* Every content is on exactly one of the pages, for any page size.
THEOREM PagesCutTheList == Spec => []PagesPartition
<1>1. ASSUME ListInv PROVE PagesPartition
  <2> SUFFICES ASSUME NEW i \in DOMAIN list
               PROVE  \E page \in 1..TotalPages(Len(list)) :
                        /\ list[i] \in Elements(PageOf(list, page))
                        /\ \A other \in 1..TotalPages(Len(list)) :
                            list[i] \in Elements(PageOf(list, other)) => other = page
    BY DEF PagesPartition
  <2>1. list \in Seq(Contents) /\ Len(list) \in Nat /\ i \in 1..Len(list) /\ i \in Nat \ {0}
        /\ DOMAIN list = 1..Len(list)
    BY <1>1 DEF ListInv, TypeOK
  <2>2. TotalPages(Len(list)) \in Nat \ {0}
    BY <2>1, Totals
  <2>3. PICK page \in 1..TotalPages(Len(list)) : OnPage(i, page)
    BY <2>1, SomePage
  <2>4. page \in Nat \ {0} /\ \A p \in 1..TotalPages(Len(list)) : p \in Nat \ {0}
    BY <2>2
  <2>5. list[i] \in Elements(PageOf(list, page))
    BY <2>1, <2>3, <2>4, PageShows
  <2>6. ASSUME NEW other \in 1..TotalPages(Len(list)),
               list[i] \in Elements(PageOf(list, other))
        PROVE  other = page
    <3>1. PICK j \in DOMAIN list : OnPage(j, other) /\ list[j] = list[i]
      BY <2>1, <2>4, <2>6, PageShows
    <3>2. i = j
      BY <1>1, <3>1 DEF ListInv, Distinct
    <3> QED
      BY <2>1, <2>3, <2>4, <3>1, <3>2, OnePage
  <2> QED
    BY <2>5, <2>6
<1> QED
  BY <1>1, Invariance, PTL

\* Turning all pages misses what was there all the time only for a deletion, or
\* an upload while the last page was fetched (list_content).
THEOREM MissesHaveACause == Spec => []MissesExplained
<1>1. ListInv => MissesExplained
  BY DEF ListInv
<1> QED
  BY <1>1, Invariance, PTL

\* Turning the pages repeats something only for an upload (list_content).
THEOREM RepeatsHaveACause == Spec => []RepeatsExplained
<1>1. ListInv => RepeatsExplained
  BY DEF ListInv
<1> QED
  BY <1>1, Invariance, PTL

\* An empty page means an empty list, unless a deletion fell between the count
\* and the reading.
THEOREM EmptyIsEmpty == Spec => EmptyTruthful
<1> DEFINE A == (Read /\ view'.items = <<>> /\ "deleted" \notin meanwhile) => list = <<>>
<1>1. ASSUME ListInv PROVE A
  <2> SUFFICES ASSUME Read, view'.items = <<>>, "deleted" \notin meanwhile,
                      Len(list) # 0
               PROVE  FALSE
    BY <1>1 DEF ListInv, TypeOK
  <2> DEFINE total == TotalPages(view.counted)
             page == Clamp(view.asked, total)
             items == PageOf(list, page)
  <2>1. /\ view.counted \in Nat /\ view.asked \in Int /\ list \in Seq(Contents)
        /\ Len(list) \in Nat /\ DOMAIN list = 1..Len(list) /\ view.counted <= Len(list)
    BY <1>1 DEF ListInv, TypeOK, Views, Counted, Read
  <2>2. view'.items = items
    BY DEF Read
  <2>3. /\ total \in Nat \ {0}
        /\ view.counted # 0 => Offset(total) < view.counted
        /\ view.counted = 0 => total = 1
    BY <2>1, Totals DEF TotalPages
  <2>4. page \in 1..total
    BY <2>1, <2>3, Clamped
  <2>5. Elements(items) = {}
    BY <2>2 DEF Elements
  <2> HIDE DEF total, page, items
  <2>6. page \in Nat \ {0} /\ (page = total \/ page < total)
    BY <2>3, <2>4
  <2>7. Offset(page) < Len(list)
    <3>1. Offset(page) \in Nat /\ Offset(total) \in Nat /\ page * PageSize \in Nat
          /\ Offset(page) + PageSize = page * PageSize /\ PageSize \in Nat
      BY <2>3, <2>6, PageBounds, ListingAssumption
    <3>2. Offset(page) <= Offset(total)
      BY <2>3, <2>6, <3>1, PageOrder
    <3>3. view.counted = 0 => Offset(total) = 0
      BY <2>3, ListingAssumption DEF Offset
    <3> QED
      BY <2>1, <2>3, <3>1, <3>2, <3>3
  <2>8. Offset(page) + 1 \in DOMAIN list /\ OnPage(Offset(page) + 1, page)
    <3>1. Offset(page) \in Nat /\ PageSize \in Nat \ {0}
      BY <2>6, PageBounds, ListingAssumption
    <3>2. /\ Offset(page) + 1 \in 1..Len(list)
          /\ Offset(page) < Offset(page) + 1 /\ Offset(page) + 1 <= Offset(page) + PageSize
      BY <2>1, <2>7, <3>1
    <3> QED
      BY <2>1, <3>2 DEF OnPage
  <2>9. list[Offset(page) + 1] \in Elements(items)
    BY <2>1, <2>6, <2>8, PageShows DEF items
  <2> QED
    BY <2>5, <2>9
<1> HIDE DEF A
<1>2. ListInv /\ [Next]_vars => A
  BY <1>1
<1>3. Spec => [][A]_vars
  BY <1>2, Invariance, PTL DEF Spec
<1> QED
  BY <1>3 DEF A, EmptyTruthful

=============================================================================
