------------------------------ MODULE Listing ------------------------------
(***************************************************************************)
(* The pages of the content list: list_content of                          *)
(* app/services/content_management_service.py counts the contents in one   *)
(* session, clamps the page that was asked for, and reads it in another,   *)
(* while other administrators upload and delete.  One administrator looks  *)
(* at the list and turns its pages.                                        *)
(***************************************************************************)
EXTENDS Integers, Sequences, FiniteSets

CONSTANTS
    Contents,
    PageSize,   \* CONTENT_PAGE_SIZE
    MaxPage,    \* bound: the page numbers typed are between 0 and this one
    Overlap     \* bound: the uploads that may be committed before an older one

ASSUME ListingAssumption ==
    PageSize \in Nat \ {0} /\ MaxPage \in Nat /\ Overlap \in Nat

VARIABLES
    list,       \* ORDER BY created_at DESC, id DESC: the newest first
    view,       \* the message with the list, and the handler that renews it
    meanwhile,  \* history: what happened to the list since it was counted
    walk        \* history: the pages turned one by one from the first on

vars == <<list, view, meanwhile, walk>>

Changes == {"created", "deleted"}
Elements(seq) == {seq[i] : i \in DOMAIN seq}

\* pc: "idle", then the count, then the page.
Views ==
    [pc : {"idle", "count", "read"}, asked : Int, counted : Nat,
     page : Nat \ {0}, total : Nat \ {0}, items : Seq(Contents)]

\* upto: the last page of the walk, 0 when there is none.  stayed: what was in
\* the list ever since its first page was read.  since: what happened to the
\* list since then; a walk that met both kinds of changes shows nothing and is
\* forgotten.  raced: what happened while its last page was fetched.
Walks ==
    [upto : Nat, seen : SUBSET Contents, twice : BOOLEAN,
     stayed : SUBSET Contents, since : SUBSET Changes, raced : SUBSET Changes]

TypeOK ==
    /\ list \in Seq(Contents)
    /\ view \in Views
    /\ view.page <= view.total
    /\ Len(view.items) <= PageSize
    /\ meanwhile \subseteq Changes
    /\ walk \in Walks

-----------------------------------------------------------------------------
(* list_content.                                                           *)

FullPages(count) ==     \* mutant: the last page is forgotten if not full
    IF count < PageSize THEN 1 ELSE count \div PageSize
TotalPages(count) ==
    IF count = 0 THEN 1 ELSE (count + PageSize - 1) \div PageSize

FromOne(page, total) == IF page < 1 THEN 1 ELSE page    \* mutant: no upper bound
Clamp(page, total) ==
    IF page < 1 THEN 1 ELSE IF page > total THEN total ELSE page

Offset(page) == (page - 1) * PageSize

Overlapping(seq, page) ==   \* mutant: one row too many
    SubSeq(seq, Offset(page) + 1,
           IF Len(seq) <= Offset(page) + PageSize THEN Len(seq)
           ELSE Offset(page) + PageSize + 1)
\* .offset(offset).limit(limit)
PageOf(seq, page) ==
    SubSeq(seq, Offset(page) + 1,
           IF Len(seq) < Offset(page) + PageSize THEN Len(seq)
           ELSE Offset(page) + PageSize)

\* MANAGE, /list, the pagination buttons, and "back" from a detail; /list
\* takes any number.
Ask(page) ==
    /\ view.pc = "idle"
    /\ view' = [view EXCEPT !.pc = "count", !.asked = page]
    /\ UNCHANGED <<list, meanwhile, walk>>

Turn ==
    \/ view.page > 1 /\ Ask(view.page - 1)
    \/ view.page < view.total /\ Ask(view.page + 1)

\* count_content: a session of its own.
Count ==
    /\ view.pc = "count"
    /\ view' = [view EXCEPT !.pc = "read", !.counted = Len(list)]
    /\ UNCHANGED <<list, meanwhile, walk>>

NoWalk == [upto |-> 0, seen |-> {}, twice |-> FALSE,
           stayed |-> {}, since |-> {}, raced |-> {}]

Walked(asked, page, items) ==
    IF asked # page \/ (page # 1 /\ page # walk.upto + 1)
    THEN NoWalk
    ELSE IF page = 1
    THEN [upto |-> 1, seen |-> items, twice |-> FALSE, stayed |-> Elements(list),
          since |-> {}, raced |-> meanwhile]
    ELSE [walk EXCEPT !.upto = page, !.seen = @ \cup items,
                      !.twice = @ \/ walk.seen \cap items # {}, !.raced = meanwhile]

\* repository list_content, and the screen made of it.
Read ==
    LET total == TotalPages(view.counted)
        page == Clamp(view.asked, total)
        items == PageOf(list, page) IN
    /\ view.pc = "read"
    /\ view' = [pc |-> "idle", asked |-> page, counted |-> 0,
                page |-> page, total |-> total, items |-> items]
    /\ meanwhile' = {}
    /\ walk' = Walked(view.asked, page, Elements(items))
    /\ UNCHANGED list

-----------------------------------------------------------------------------
(* The other administrators.                                               *)

Happened(change) ==
    /\ meanwhile' = IF view.pc = "read" THEN meanwhile \cup {change} ELSE {}
    /\ walk' = IF walk.upto = 0 \/ walk.since \cup {change} = Changes THEN NoWalk
               ELSE [walk EXCEPT !.since = @ \cup {change},
                                 !.stayed = @ \cap Elements(list')]
    /\ UNCHANGED view

\* created_at is the moment the Content was made, before its INSERT: uploads
\* that were made later may be there already, in front of it.
Create(content, i) ==
    /\ content \notin Elements(list)
    /\ i \in 1..(Len(list) + 1) /\ i <= Overlap + 1
    /\ list' = SubSeq(list, 1, i - 1) \o (<<content>> \o SubSeq(list, i, Len(list)))
    /\ Happened("created")

Delete(i) ==
    /\ list' = SubSeq(list, 1, i - 1) \o SubSeq(list, i + 1, Len(list))
    /\ Happened("deleted")

-----------------------------------------------------------------------------

Init ==
    /\ list = <<>>
    /\ view = [pc |-> "idle", asked |-> 1, counted |-> 0,
               page |-> 1, total |-> 1, items |-> <<>>]
    /\ meanwhile = {}
    /\ walk = NoWalk

Next ==
    \/ \E page \in 0..MaxPage : Ask(page)
    \/ Turn \/ Count \/ Read
    \/ \E content \in Contents, i \in 1..(Overlap + 1) : Create(content, i)
    \/ \E i \in DOMAIN list : Delete(i)

Spec == Init /\ [][Next]_vars

-----------------------------------------------------------------------------
(* Properties                                                              *)

\* The pages cut the list into pieces: each content is on exactly one of
\* them, so as long as nothing changes, every content can be found.
PagesPartition ==
    \A i \in DOMAIN list :
        \E page \in 1..TotalPages(Len(list)) :
            /\ list[i] \in Elements(PageOf(list, page))
            /\ \A other \in 1..TotalPages(Len(list)) :
                    list[i] \in Elements(PageOf(list, other)) => other = page

\* Whoever has turned all the pages there are, from the first to the last, has
\* seen every content that was there all the time, and none twice (task 04:
\* "Content lists are bounded and stable under pagination").
StableUnderPagination ==
    [][(Read /\ walk'.upto = TotalPages(Len(list)))
          => walk'.stayed \subseteq walk'.seen /\ ~walk'.twice]_vars

\* Why a content that was there all the time can be missed: something was
\* deleted while the pages were turned, which pulls contents back to a page
\* already turned; or something was uploaded between the count and the reading
\* of the last page, which pushes a content to a page the count has not seen.
\* Uploads at any other moment, and clamped pages, hide nothing.
MissesExplained ==
    (walk.upto = view.total /\ ~(walk.stayed \subseteq walk.seen)) =>
        "deleted" \in walk.since \/ "created" \in walk.raced

\* Why a content can be shown twice: something was uploaded while the pages
\* were turned.  Deletions, and clamped pages, repeat nothing.
RepeatsExplained == walk.twice => "created" \in walk.since

\* "There is nothing to show" is said only of an empty list, unless something
\* was deleted between the count and the reading: then the page that was
\* counted may be gone while others are not.
EmptyTruthful ==
    [][(Read /\ view'.items = <<>> /\ "deleted" \notin meanwhile)
          => list = <<>>]_vars

=============================================================================
