-------------------------------- MODULE Arena --------------------------------
(***************************************************************************)
(* The arena allocator, core/arena.c, on top of the page allocator,        *)
(* core/physical_memory.c.                                                 *)
(*                                                                         *)
(* An arena serves objects of one size out of pages that it takes from     *)
(* kalloc.  Its pages form a circular list (CList); `pages' points at the  *)
(* one that the next object comes from.  Every operation runs under the    *)
(* lock of the arena and is one action.  A failed assertion, and the use   *)
(* of the missing first page, stop the kernel: `failed'.                   *)
(***************************************************************************)
EXTENDS Naturals, FiniteSets, SequencesExt

CONSTANTS
    Page,           \* the physical pages
    NULL,           \* the null pointer
    MaxCount        \* max_count: objects that fit in a page

ASSUME ArenaAssumption == MaxCount \in Nat \ {0} /\ NULL \notin Page /\ IsFiniteSet(Page)

INSTANCE CList WITH Node <- Page

VARIABLES
    freelist,       \* the free pages, the one kalloc returns first
    pages,          \* arena->pages: the head of the list, or NULL
    links,          \* the list nodes of all pages
    used,           \* used[p]: the set bits of the bitmap of page p
    count,          \* count[p]: page->count
    num_objects,
    num_pages,
    live,           \* history: objects handed out and not given back
    taken,          \* pages that other users of kalloc hold
    failed          \* an assertion of the arena failed

arenaVars == <<pages, links, used, count, num_objects, num_pages>>
vars == <<freelist, arenaVars, live, taken, failed>>

Index == 0 .. (MaxCount - 1)

\* The pages on the list of page h.
RingOf(h) == {p \in Page : \A S \in SUBSET Page : h \in S /\ Closed(links, S) => p \in S}

ArenaPages == IF pages = NULL THEN {} ELSE RingOf(pages)

TypeOK ==
    /\ freelist \in Seq(Page)
    /\ pages \in Page \union {NULL}
    /\ links \in Links
    /\ used \in [Page -> SUBSET Index]
    /\ count \in [Page -> 0 .. MaxCount]
    /\ num_objects \in Nat /\ num_pages \in Nat
    /\ live \subseteq Page \X Index
    /\ taken \subseteq Page
    /\ failed \in BOOLEAN

\* init_memory_manager and init_arena.  The fields of a page mean nothing
\* before init_arena_page.
Init ==
    /\ freelist = SetToSeq(Page)
    /\ pages = NULL
    /\ links = [next |-> [p \in Page |-> p], prev |-> [p \in Page |-> p]]
    /\ used = [p \in Page |-> {}]
    /\ count = [p \in Page |-> 0]
    /\ num_objects = 0 /\ num_pages = 0
    /\ live = {} /\ taken = {}
    /\ failed = FALSE

-----------------------------------------------------------------------------
(* The list of pages *)

\* insert_page that leaves the head where it was: the page becomes the last.
append_page(l, page) == [links |-> IF pages = NULL THEN l ELSE merge_list(l, page, pages),
                         head  |-> IF pages = NULL THEN page ELSE pages]

\* insert_page: the page becomes the head.
insert_page(l, page) == [links |-> IF pages = NULL THEN l ELSE merge_list(l, page, pages),
                         head  |-> page]

NeedsPage == IF pages = NULL THEN TRUE ELSE count[pages] >= MaxCount

\* The first clear bit of a bitmap.
FirstFree(bits) == CHOOSE i \in Index \ bits : \A j \in Index \ bits : i <= j

-----------------------------------------------------------------------------
(* alloc_object *)

\* The object comes from page p, and the list is l: the bookkeeping, and the
\* step to the next page when this one has become full.
take_slot(p, l, n, bits) ==
    LET i == FirstFree(bits) IN
    /\ used' = [used EXCEPT ![p] = bits \union {i}]
    /\ count' = [count EXCEPT ![p] = n + 1]
    /\ num_objects' = num_objects + 1
    /\ pages' = IF n + 1 >= MaxCount THEN l.next[p] ELSE p
    /\ links' = l
    /\ live' = live \union {<<p, i>>}

\* The head page has room.
alloc_from_head ==
    /\ ~NeedsPage
    /\ take_slot(pages, links, count[pages], used[pages])
    /\ UNCHANGED <<freelist, num_pages, taken, failed>>

\* add_page succeeds: init_arena_page, insert_page.
alloc_from_new_page ==
    /\ NeedsPage /\ freelist # <<>>
    /\ LET page == Head(freelist)
           in == insert_page(init_list_node(links, page), page)
       IN  take_slot(in.head, in.links, 0, {})
    /\ freelist' = Tail(freelist)
    /\ num_pages' = num_pages + 1
    /\ UNCHANGED <<taken, failed>>

\* add_page fails: there is no page to look at, or the head page is full and
\* the assertion on `object' fails.
alloc_fails ==
    /\ NeedsPage /\ freelist = <<>>
    /\ failed' = TRUE
    /\ UNCHANGED <<freelist, arenaVars, live, taken>>

alloc_object == ~failed /\ (alloc_from_head \/ alloc_from_new_page \/ alloc_fails)

-----------------------------------------------------------------------------
(* free_object and clear_arena *)

\* free_object without the call to move_page_to_head.
stay_in_place(page) == [links |-> links, head |-> pages]

move_page_to_head(page) ==
    IF pages # page THEN insert_page(detach_from_list(links, page), page)
                    ELSE [links |-> links, head |-> pages]

free_object(page, i) ==
    /\ ~failed
    /\ <<page, i>> \in live
    /\ used' = [used EXCEPT ![page] = @ \ {i}]
    /\ count' = [count EXCEPT ![page] = @ - 1]
    /\ num_objects' = num_objects - 1
    /\ links' = move_page_to_head(page).links
    /\ pages' = move_page_to_head(page).head
    /\ live' = live \ {<<page, i>>}
    /\ UNCHANGED <<freelist, num_pages, taken, failed>>

\* The pages are freed in list order, so the last one ends up in front.
clear_arena ==
    /\ ~failed
    /\ pages # NULL
    /\ \E order \in SetToSeqs(RingOf(pages)) :
         /\ order[1] = pages
         /\ \A k \in 1 .. (Len(order) - 1) : order[k + 1] = links.next[order[k]]
         /\ freelist' = Reverse(order) \o freelist
    /\ pages' = NULL
    /\ num_objects' = 0 /\ num_pages' = 0
    /\ live' = {}
    /\ UNCHANGED <<links, used, count, taken, failed>>

-----------------------------------------------------------------------------
(* Other users of the page allocator *)

\* kalloc: freelist_alloc.
kalloc ==
    /\ ~failed
    /\ freelist # <<>>
    /\ taken' = taken \union {Head(freelist)}
    /\ freelist' = Tail(freelist)
    /\ UNCHANGED <<arenaVars, live, failed>>

\* kfree: freelist_free.
kfree(p) ==
    /\ ~failed
    /\ p \in taken
    /\ taken' = taken \ {p}
    /\ freelist' = <<p>> \o freelist
    /\ UNCHANGED <<arenaVars, live, failed>>

Next ==
    \/ alloc_object
    \/ \E p \in Page, i \in Index : free_object(p, i)
    \/ clear_arena
    \/ kalloc
    \/ \E p \in Page : kfree(p)

Spec == Init /\ [][Next]_vars

-----------------------------------------------------------------------------
(* Properties *)

\* The arena takes a new page only when every page it has is full, because
\* free_object moves a page with room to the head and alloc_object steps past
\* a full one: a full head means that there is no free slot anywhere
\* (arena.c:92-93, 126-128).  So the assertion "arena failed to allocate
\* object" fails only when there is no free page and no free slot.
GrowsOnlyWhenFull ==
    (pages # NULL /\ count[pages] >= MaxCount) \/ failed =>
        /\ \A p \in ArenaPages : used[p] = Index
        /\ failed => freelist = <<>>

\* No page is lost or used twice: every physical page is in the free list, held
\* by another user, or on the arena's list, exactly once (insert_page,
\* move_page_to_head, clear_arena).
PagesPartitioned ==
    /\ TypeOK
    /\ IsInjective(freelist)
    /\ ToSet(freelist) \intersect taken = {}
    /\ ArenaPages = Page \ (ToSet(freelist) \union taken)

\* The counters agree with the bitmaps, and the set bits are exactly the
\* objects that clients hold: no object is handed out twice, and none is lost
\* (the double-free assertion of free_object cannot fail for a live object).
CountsExact ==
    /\ live = {o \in Page \X Index : o[1] \in ArenaPages /\ o[2] \in used[o[1]]}
    /\ \A p \in ArenaPages : count[p] = Cardinality(used[p])
    /\ num_objects = Cardinality(live)
    /\ num_pages = Cardinality(ArenaPages)
=============================================================================
