------------------------------- MODULE Mapping ------------------------------
(***************************************************************************)
(* What the callers of the page frame allocator and of paging::MapPage see *)
(* of them, over the one pool of frames that both take from (FramePool and *)
(* Paging have the detail).  The kernel maps a page to the frame of the    *)
(* same number.                                                            *)
(*                                                                         *)
(*   memory.free    the free frames                                        *)
(*   memory.tables  the page tables there are below the root               *)
(*   memory.mapped  the pages that are mapped                              *)
(***************************************************************************)
EXTENDS Integers, FiniteSetsExt

CONSTANT PagesPerTable      \* 512

ASSUME PagesAssumption == PagesPerTable \in Nat \ {0}

(* AllocatePhysicalPages: the lowest run of n free frames, or null.        *)
Run(first, n) == first .. first + n - 1
Fitting(free, n) == {f \in free : Run(f, n) \subseteq free}
LowestRun(free, n) == IF Fitting(free, n) = {} THEN 0 ELSE Min(Fitting(free, n))
Granted(free, n) == IF Fitting(free, n) = {} THEN {} ELSE Run(LowestRun(free, n), n)

(* The tables that the translation of a page goes through.                 *)
Levels == 1 .. 3
TablesFor(page) == {<<l, page \div (PagesPerTable ^ l)>> : l \in Levels}

(* MapPages takes the pages of a run in their order and makes the tables    *)
(* each still needs from the root down, with a frame for each, until a      *)
(* frame cannot be had: frame 0 is taken for none.                         *)
Needed(tables, run) == (UNION {TablesFor(p) : p \in run}) \ tables
FirstPage(table, run) == Min({p \in run : table \in TablesFor(p)})
Sooner(t, u, run) ==
    \/ FirstPage(t, run) < FirstPage(u, run)
    \/ FirstPage(t, run) = FirstPage(u, run) /\ t[1] > u[1]

TablesMade(free, tables, run) ==
    {t \in Needed(tables, run) :
        /\ 0 \notin free
        /\ Cardinality({u \in Needed(tables, run) : Sooner(u, t, run)}) < Cardinality(free)}

(* Frame by frame, the lowest free one first. *)
FramesTaken(free, tables, run) ==
    {f \in free :
        Cardinality({g \in free : g < f}) <
            IF 0 \in free THEN Min({1, Cardinality(Needed(tables, run))})
                          ELSE Cardinality(Needed(tables, run))}

(* Nothing behind the first page that cannot be mapped is mapped. *)
PagesMapped(tables, run) == {p \in run : \A q \in run : q <= p => TablesFor(q) \subseteq tables}

MapPages(memory, run) ==
    LET tables == memory.tables \union TablesMade(memory.free, memory.tables, run)
    IN  [free   |-> memory.free \ FramesTaken(memory.free, memory.tables, run),
         tables |-> tables,
         mapped |-> memory.mapped \union PagesMapped(tables, run)]

MapPage(memory, page) == MapPages(memory, {page})

(* n frames that are mapped as soon as they are allocated; null is no       *)
(* exception.                                                              *)
NewRun(memory, n) == Run(LowestRun(memory.free, n), n)
AllocateMapped(memory, n) ==
    MapPages([memory EXCEPT !.free = @ \ Granted(@, n)], NewRun(memory, n))

(* The processor reads and writes without a page fault. *)
Readable(memory, pages) == pages \subseteq memory.mapped
=============================================================================
