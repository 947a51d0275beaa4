---------------------------- MODULE Paging_proofs ----------------------------
(***************************************************************************)
(* Proofs about Paging, for any number of levels, entries of a table,      *)
(* frames, calls and addresses.                                            *)
(***************************************************************************)
EXTENDS Paging, Numbers_proofs, FiniteSetTheorems

(* The present entries of the tables in S, and the tables they lead to. *)
Present(m, S) == {k \in S \X Indices : m[k[1]][k[2]].present}
Targets(m, S) == {m[k[1]][k[2]].address : k \in Present(m, S)}

(* T[l] are the tables of level l that memory m has. *)
Tree(m, T) ==
  /\ T \in [1 .. Levels -> SUBSET Frames]
  /\ T[Levels] = {Root}
  /\ \A l \in 2 .. Levels :
       /\ T[l - 1] = Targets(m, T[l])
       /\ \A j, k \in Present(m, T[l]) :
            m[j[1]][j[2]].address = m[k[1]][k[2]].address => j = k
  /\ \A l, n \in 1 .. Levels : l # n => T[l] \cap T[n] = {}

Tables(T) == UNION {T[l] : l \in 1 .. Levels - 1}

(* Which part of the address space a table is for: the addresses of one      *)
(* region of a level have their digits above that level in common.  R[f] is  *)
(* the region of table f.                                                    *)
Region(v, l) == v \div Radix ^ l

Labelled(m, T, R) ==
  /\ R \in [Frames -> Nat] /\ R[Root] = 0
  /\ \A l \in 2 .. Levels : \A k \in Present(m, T[l]) :
       /\ m[k[1]][k[2]].write = TRUE
       /\ R[m[k[1]][k[2]].address] = Radix * R[k[1]] + k[2]
  /\ \A l \in 1 .. Levels : \A f, g \in T[l] : R[f] = R[g] => f = g

(* The table of the last level that v has, if any, says w of it. *)
Right(m, T, R, v, w) ==
  /\ \A f \in T[1] : R[f] = Region(v, 1) /\ m[f][Index(v, 1)].present => w = m[f][Index(v, 1)]
  /\ w = NoPage \/ \E f \in T[1] : R[f] = Region(v, 1) /\ m[f][Index(v, 1)].present

(* Memory as it is once the entry that is being written has its address.   *)
Linked == IF at = "link" THEN WriteHere([Here EXCEPT !.address = FrameAt(next)]) ELSE memory

EntryT == [present : BOOLEAN, write : BOOLEAN, address : 0 .. HHDM_Offset - 1]
TableT == [Indices -> EntryT]

(* The arguments, and how far the call is. *)
CallShape ==
  /\ call.va \in Nat /\ call.pa \in Nat /\ call.count \in Nat
  /\ call.present \in BOOLEAN /\ call.write \in BOOLEAN
  /\ call.pa + call.count <= HHDM_Offset
  /\ at # "idle" => call.va + call.count <= Radix ^ Levels
  /\ at \in {"next", "link", "address", "flush"} => i < call.count
  /\ at \in {"next", "link", "address"} => level >= 1
  /\ at = "address" => level = 1 /\ Here = Entry(call.present, call.write, 0)
  /\ at = "link" => /\ level >= 2 /\ FrameAt(next) \in Frames
                    /\ Here.present /\ Here.write = TRUE
                    /\ memory[FrameAt(next)] = ZeroTable

Books ==
  /\ free \cap used = {} /\ free \cup used \subseteq Frames \ {0, Root}
  /\ wanted \in [AllPages -> EntryT]

(* The table MapPage is at is the one of its level for the page. *)
Walking(T, R) ==
  at \in {"next", "link", "address"} =>
    FrameAt(table) \in T[level] /\ R[FrameAt(table)] = Region(Virtual, level)

AllRight(T, R) ==
  \A v \in AllPages : Right(Linked, T, R, v, wanted[v]) \/ (at = "address" /\ v = Virtual)

Owned(T, R) ==
  /\ Tree(Linked, T) /\ Labelled(Linked, T, R)
  /\ Tables(T) = Frames \ ({0, Root} \cup free \cup used)
  /\ Walking(T, R)
  /\ AllRight(T, R)

PagesInv == PagingTypeOK /\ CallShape /\ Books /\ \E T, R : Owned(T, R)
-----------------------------------------------------------------------------
(* Entries, tables and memory. *)
LEMMA Sizes ==
  /\ Levels \in Nat \ {0} /\ Radix \in Nat \ {0} /\ HHDM_Offset \in Nat \ {0}
  /\ Frames \subseteq 0 .. HHDM_Offset - 1 /\ Frames \subseteq Nat
  /\ 0 \in Frames /\ Root \in Frames \ {0}
  /\ \A l \in 0 .. Levels : Radix ^ l \in Nat \ {0}
BY PagingAssumption

(* The region of a page at one level and its index there make its region    *)
(* one level below.                                                         *)
LEMMA RegionBelow ==
  ASSUME NEW v \in Nat, NEW l \in 1 .. Levels
  PROVE  /\ Region(v, l) \in Nat /\ Region(v, l - 1) \in Nat /\ Index(v, l) \in Indices
         /\ Region(v, l - 1) = Radix * Region(v, l) + Index(v, l)
<1>1. PICK q \in Nat \ {0} : q = Radix ^ (l - 1)
  <2>1. l - 1 \in 0 .. Levels
    BY Sizes
  <2> QED
    BY <2>1, Sizes
<1>2. Radix ^ l = Radix * q
  BY <1>1, PagingAssumption
<1>3. PICK a \in Nat : a = v \div q
  BY Quotient
<1>4. Radix \in Nat \ {0}
  BY Sizes
<1>5. PICK b \in Nat, y \in 0 .. Radix - 1 : b = a \div Radix /\ y = a % Radix /\ a = Radix * b + y
  <2>1. /\ a \div Radix \in Nat /\ a % Radix \in 0 .. Radix - 1
        /\ a = Radix * (a \div Radix) + (a % Radix)
    BY <1>4, Quotient
  <2> QED
    BY <2>1
<1>6. b = v \div (Radix * q)
  <2>1. (v \div q) \div Radix = v \div (Radix * q)
    BY <1>4, QuotientTwice
  <2> QED
    BY <1>3, <1>5, <2>1
<1>7. Region(v, l) = b /\ Region(v, l - 1) = a /\ Index(v, l) = y
  BY <1>1, <1>2, <1>3, <1>5, <1>6 DEF Region, Index
<1> QED
  BY <1>5, <1>7 DEF Indices

(* A region of one level tells the region and the index above. *)
LEMMA OneLabel ==
  \A a, b \in Nat, x, y \in Indices : Radix * a + x = Radix * b + y => a = b /\ x = y
<1>1. Radix \in Nat \ {0}
  BY Sizes
<1> QED
  BY <1>1, OneQuotient DEF Indices

(* The whole space is one region, and a page one of the lowest level. *)
LEMMA RegionEnds ==
  /\ \A v \in AllPages : v \in Nat /\ Region(v, Levels) = 0
  /\ \A v \in Nat : Region(v, 0) = v
<1>1. ASSUME NEW v \in AllPages PROVE v \in Nat /\ Region(v, Levels) = 0
  <2>1. PICK q \in Nat \ {0} : q = Radix ^ Levels
    BY Sizes
  <2>2. v \in 0 .. q - 1 /\ v = q * 0 + v
    BY <2>1 DEF AllPages
  <2>3. v \div q = 0
    BY <2>2, QuotientIs
  <2> QED
    BY <2>1, <2>2, <2>3 DEF Region
<1>2. ASSUME NEW v \in Nat PROVE Region(v, 0) = v
  <2>1. v = 1 * v + 0 /\ 0 \in 0 .. 1 - 1 /\ 1 \in Nat \ {0}
    OBVIOUS
  <2>2. v \div 1 = v
    BY <2>1, QuotientIs
  <2> QED
    BY <2>2, PagingAssumption DEF Region
<1> QED
  BY <1>1, <1>2

(* Two pages with one table and one entry are one page. *)
LEMMA OnePage ==
  ASSUME NEW v \in Nat, NEW w \in Nat, Region(v, 1) = Region(w, 1), Index(v, 1) = Index(w, 1)
  PROVE  v = w
<1>1. 1 \in 1 .. Levels
  BY Sizes
<1>2. Region(v, 0) = Region(w, 0)
  BY <1>1, RegionBelow
<1> QED
  BY <1>2, RegionEnds

(* An induction from the root down. *)
LEMMA Descend ==
  ASSUME NEW P, \A l \in 1 .. Levels : (l = Levels \/ l + 1 \in P) => l \in P
  PROVE  \A l \in 1 .. Levels : l \in P
<1> DEFINE D == {d \in Nat : Levels - d \in 1 .. Levels /\ Levels - d \notin P}
<1>1. SUFFICES ASSUME D # {} PROVE FALSE
  <2> SUFFICES ASSUME NEW l \in 1 .. Levels, l \notin P PROVE FALSE
    OBVIOUS
  <2>1. Levels - l \in Nat /\ Levels - (Levels - l) = l
    BY Sizes
  <2> QED
    BY <1>1, <2>1
<1>2. Min(D) \in D /\ \A e \in D : Min(D) <= e
  BY <1>1, LeastElement
<1>3. PICK d \in Nat : d = Min(D) /\ Levels - d \in 1 .. Levels /\ Levels - d \notin P
  BY <1>2
<1>4. d # 0 /\ (Levels - d) + 1 \notin P
  BY <1>3, Sizes
<1>5. d - 1 \in Nat /\ Levels - (d - 1) = (Levels - d) + 1 /\ Levels - (d - 1) \in 1 .. Levels
  BY <1>3, <1>4, Sizes
<1>6. d - 1 \in D
  BY <1>4, <1>5
<1> QED
  BY <1>2, <1>3, <1>6

(* A frame is reached by its address and by that in the higher half. *)
LEMMA FramesReached ==
  ASSUME NEW f \in Frames
  PROVE  FrameAt(f) = f /\ FrameAt(PhysicalToVirtual(f)) = f
BY Sizes DEF FrameAt, IsPhysical, PhysicalToVirtual

(* Clear tables, other frames and the absent page are made of entries. *)
LEMMA TablesHold ==
  ZeroTable \in TableT /\ Garbage \in TableT /\ NoPage \in EntryT /\ ~NoPage.present
BY Sizes DEF ZeroTable, Garbage, TableT, EntryT, Entry, NoPage

(* What there is to say of a page depends on the tables of the last level. *)
LEMMA RightStays ==
  ASSUME NEW m, NEW m2, NEW T, NEW R, NEW v, NEW w, Right(m, T, R, v, w),
         \A f \in T[1] : R[f] = Region(v, 1) => m2[f][Index(v, 1)] = m[f][Index(v, 1)]
  PROVE  Right(m2, T, R, v, w)
BY DEF Right

(* The tree depends on the tables above the last level. *)
LEMMA TreeOnlyTables ==
  ASSUME NEW m, NEW m2, NEW T, NEW R, Tree(m, T), Labelled(m, T, R),
         \A l \in 2 .. Levels : \A f \in T[l] : m2[f] = m[f]
  PROVE  Tree(m2, T) /\ Labelled(m2, T, R)
<1>1. ASSUME NEW l \in 2 .. Levels
      PROVE  /\ Present(m2, T[l]) = Present(m, T[l]) /\ Targets(m2, T[l]) = Targets(m, T[l])
             /\ \A k \in Present(m, T[l]) : m2[k[1]] = m[k[1]]
  BY DEF Present, Targets
<1>2. ASSUME NEW l \in 2 .. Levels, NEW j \in Present(m2, T[l]), NEW k \in Present(m2, T[l]),
             m2[j[1]][j[2]].address = m2[k[1]][k[2]].address
      PROVE  j = k
  <2>1. m2[j[1]] = m[j[1]] /\ m2[k[1]] = m[k[1]]
    BY DEF Present
  <2> QED
    BY <1>1, <1>2, <2>1 DEF Tree
<1>3. Tree(m2, T)
  BY <1>1, <1>2 DEF Tree
<1>4. ASSUME NEW l \in 2 .. Levels, NEW k \in Present(m2, T[l])
      PROVE  /\ m2[k[1]][k[2]].write = TRUE
             /\ R[m2[k[1]][k[2]].address] = Radix * R[k[1]] + k[2]
  BY <1>1, <1>4 DEF Labelled
<1>5. Labelled(m2, T, R)
  BY <1>4 DEF Labelled
<1> QED
  BY <1>3, <1>5
-----------------------------------------------------------------------------
(* m2 is m but for entry x of table t, which was not present and leads to   *)
(* frame g now, and for g, which is clear.                                  *)
Grown(m, m2, t, x, g) ==
  /\ ~m[t][x].present /\ m2[t][x].present /\ m2[t][x].write = TRUE
  /\ m2[t][x].address = g /\ m2[g] = ZeroTable
  /\ \A y \in Indices \ {x} : m2[t][y] = m[t][y]
  /\ \A f \in Frames \ {t, g} : m2[f] = m[f]

(* T[l - 1] gets the frame g, which was no table. *)
Added(T, U, l, t, x, g) ==
  /\ l \in 2 .. Levels /\ t \in T[l] /\ x \in Indices /\ g \in Frames
  /\ \A n \in 1 .. Levels : g \notin T[n]
  /\ U = [T EXCEPT ![l - 1] = T[l - 1] \cup {g}]

(* The tables of the other levels stay, and the entry is in one table. *)
LEMMA AddedTables ==
  ASSUME NEW m, NEW T, NEW U, NEW l, NEW t, NEW x, NEW g, Tree(m, T), Added(T, U, l, t, x, g)
  PROVE  /\ l - 1 \in 1 .. Levels /\ l \in 1 .. Levels /\ Levels \in Nat
         /\ T \in [1 .. Levels -> SUBSET Frames] /\ U \in [1 .. Levels -> SUBSET Frames]
         /\ U[l - 1] = T[l - 1] \cup {g} /\ \A n \in 1 .. Levels : n # l - 1 => U[n] = T[n]
         /\ t \in Frames /\ t # g /\ \A n \in 1 .. Levels : n # l => t \notin T[n]
<1>1. /\ l - 1 \in 1 .. Levels /\ l \in 1 .. Levels /\ Levels \in Nat
      /\ T \in [1 .. Levels -> SUBSET Frames] /\ U \in [1 .. Levels -> SUBSET Frames]
      /\ U[l - 1] = T[l - 1] \cup {g} /\ \A n \in 1 .. Levels : n # l - 1 => U[n] = T[n]
  BY Sizes DEF Tree, Added
<1>2. t \in Frames /\ t # g /\ \A n \in 1 .. Levels : n # l => t \notin T[n]
  BY <1>1 DEF Tree, Added
<1> QED
  BY <1>1, <1>2

(* One entry more is present, and the others are what they were. *)
OneMore(m, m2, T, U, l, t, x) ==
  /\ <<t, x>> \notin Present(m, T[l])
  /\ Present(m2, U[l]) = Present(m, T[l]) \cup {<<t, x>>}
  /\ \A n \in 2 .. Levels : n # l => Present(m2, U[n]) = Present(m, T[n])
  /\ \A n \in 2 .. Levels : \A k \in Present(m, T[n]) : m2[k[1]][k[2]] = m[k[1]][k[2]]

(* Adding a table adds its entry and no other. *)
LEMMA GrownEntries ==
  ASSUME NEW m, NEW m2, NEW T, NEW U, NEW l, NEW t, NEW x, NEW g,
         Tree(m, T), Added(T, U, l, t, x, g), Grown(m, m2, t, x, g)
  PROVE  OneMore(m, m2, T, U, l, t, x)
<1>1. /\ l - 1 \in 1 .. Levels /\ l \in 1 .. Levels /\ Levels \in Nat
      /\ T \in [1 .. Levels -> SUBSET Frames] /\ U \in [1 .. Levels -> SUBSET Frames]
      /\ U[l - 1] = T[l - 1] \cup {g} /\ \A n \in 1 .. Levels : n # l - 1 => U[n] = T[n]
      /\ t \in Frames /\ t # g /\ \A n \in 1 .. Levels : n # l => t \notin T[n]
  BY AddedTables
<1>2. /\ l \in 2 .. Levels /\ t \in T[l] /\ x \in Indices /\ g \in Frames
      /\ \A n \in 1 .. Levels : g \notin T[n]
  BY DEF Added
<1>3. ASSUME NEW n \in 1 .. Levels, NEW k \in T[n] \X Indices, k # <<t, x>>
      PROVE  m2[k[1]][k[2]] = m[k[1]][k[2]]
  <2>1. CASE k[1] = t
    <3>1. k[2] \in Indices \ {x}
      BY <1>3, <2>1
    <3> QED
      BY <2>1, <3>1 DEF Grown
  <2>2. CASE k[1] # t
    <3>1. k[1] \in Frames \ {t, g}
      BY <1>1, <1>2, <2>2
    <3> QED
      BY <3>1 DEF Grown
  <2> QED
    BY <2>1, <2>2
<1>4. /\ <<t, x>> \in T[l] \X Indices
      /\ m2[<<t, x>>[1]][<<t, x>>[2]].present /\ ~m[<<t, x>>[1]][<<t, x>>[2]].present
  BY <1>2 DEF Grown
<1>5. <<t, x>> \notin Present(m, T[l]) /\ <<t, x>> \in Present(m2, T[l])
  BY <1>4 DEF Present
<1>6. Present(m2, T[l]) = Present(m, T[l]) \cup {<<t, x>>}
  <2>1. \A k \in T[l] \X Indices :
          k # <<t, x>> => (k \in Present(m2, T[l]) <=> k \in Present(m, T[l]))
    BY <1>1, <1>3 DEF Present
  <2>2. Present(m, T[l]) \subseteq T[l] \X Indices /\ Present(m2, T[l]) \subseteq T[l] \X Indices
    BY DEF Present
  <2> QED
    BY <1>5, <2>1, <2>2
<1>7. U[l] = T[l]
  BY <1>1
<1>8. ASSUME NEW n \in 2 .. Levels, n # l PROVE Present(m2, U[n]) = Present(m, T[n])
  <2>1. n \in 1 .. Levels /\ (U[n] = T[n] \/ U[n] = T[n] \cup {g})
    BY <1>1
  <2>2. \A f \in T[n] : m2[f] = m[f]
    <3>1. T[n] \subseteq Frames \ {t, g}
      BY <1>1, <1>2, <1>8, <2>1
    <3> QED
      BY <3>1 DEF Grown
  <2>3. \A y \in Indices : ~m2[g][y].present
    BY DEF Grown, ZeroTable, Entry
  <2> QED
    BY <2>1, <2>2, <2>3 DEF Present
<1>9. ASSUME NEW n \in 2 .. Levels, NEW k \in Present(m, T[n])
      PROVE  m2[k[1]][k[2]] = m[k[1]][k[2]]
  <2>1. n \in 1 .. Levels /\ k \in T[n] \X Indices
    BY <1>1 DEF Present
  <2>2. k # <<t, x>>
    BY <1>4, <1>9 DEF Present
  <2> QED
    BY <1>3, <2>1, <2>2
<1> QED
  BY <1>5, <1>6, <1>7, <1>8, <1>9 DEF OneMore

(* MapPage adds a table to the tree. *)
LEMMA Grow ==
  ASSUME NEW m, NEW m2, NEW T, NEW U, NEW l, NEW t, NEW x, NEW g,
         Tree(m, T), Added(T, U, l, t, x, g), Grown(m, m2, t, x, g)
  PROVE  Tree(m2, U)
<1>1. /\ l - 1 \in 1 .. Levels /\ l \in 1 .. Levels /\ Levels \in Nat
      /\ T \in [1 .. Levels -> SUBSET Frames] /\ U \in [1 .. Levels -> SUBSET Frames]
      /\ U[l - 1] = T[l - 1] \cup {g} /\ \A n \in 1 .. Levels : n # l - 1 => U[n] = T[n]
  BY AddedTables
<1>2. /\ l \in 2 .. Levels /\ g \in Frames /\ \A n \in 1 .. Levels : g \notin T[n]
  BY DEF Added
<1>3. OneMore(m, m2, T, U, l, t, x)
  BY GrownEntries
<1>4. m2[<<t, x>>[1]][<<t, x>>[2]].address = g
  BY DEF Grown
<1>5. U[Levels] = {Root}
  BY <1>1, <1>2 DEF Tree
<1>6. \A k, n \in 1 .. Levels : k # n => U[k] \cap U[n] = {}
  <2> SUFFICES ASSUME NEW k \in 1 .. Levels, NEW n \in 1 .. Levels, k # n
               PROVE  U[k] \cap U[n] = {}
    OBVIOUS
  <2>1. T[k] \cap T[n] = {}
    BY DEF Tree
  <2> QED
    BY <1>1, <1>2, <2>1
<1>7. \A n \in 2 .. Levels : T[n - 1] = Targets(m, T[n])
  BY DEF Tree
<1>8. \A k \in Present(m, T[l]) : m2[k[1]][k[2]].address # g
  <2>1. g \notin Targets(m, T[l])
    BY <1>1, <1>2, <1>7
  <2> QED
    BY <1>2, <1>3, <2>1 DEF Targets, OneMore
<1>9. ASSUME NEW n \in 2 .. Levels PROVE U[n - 1] = Targets(m2, U[n])
  <2>1. CASE n = l
    <3>1. Targets(m2, U[l]) = Targets(m, T[l]) \cup {g}
      BY <1>2, <1>3, <1>4 DEF Targets, OneMore
    <3> QED
      BY <1>1, <1>7, <1>9, <2>1, <3>1
  <2>2. CASE n # l
    <3>1. U[n - 1] = T[n - 1]
      BY <1>1, <1>2, <2>2
    <3>2. Targets(m2, U[n]) = Targets(m, T[n])
      BY <1>3, <2>2 DEF Targets, OneMore
    <3> QED
      BY <1>7, <3>1, <3>2
  <2> QED
    BY <2>1, <2>2
<1>10. ASSUME NEW n \in 2 .. Levels, NEW j \in Present(m2, U[n]), NEW k \in Present(m2, U[n]),
              m2[j[1]][j[2]].address = m2[k[1]][k[2]].address
       PROVE  j = k
  <2>1. CASE j \in Present(m, T[n]) /\ k \in Present(m, T[n])
    <3>1. m[j[1]][j[2]].address = m[k[1]][k[2]].address
      BY <1>3, <1>10, <2>1 DEF OneMore
    <3> QED
      BY <2>1, <3>1 DEF Tree
  <2>2. CASE n = l /\ (j = <<t, x>> \/ k = <<t, x>>)
    BY <1>3, <1>4, <1>8, <1>10, <2>2 DEF OneMore
  <2> QED
    BY <1>3, <2>1, <2>2 DEF OneMore
<1> QED
  BY <1>1, <1>5, <1>6, <1>9, <1>10 DEF Tree

(* Q names the region of the new table g: that of entry x of table t. *)
NewLabel(R, Q, t, x, g) == Q = [R EXCEPT ![g] = Radix * R[t] + x]

(* With that name every table is where its region says. *)
LEMMA GrowLabelled ==
  ASSUME NEW m, NEW m2, NEW T, NEW U, NEW R, NEW l, NEW t, NEW x, NEW g, NEW Q,
         Tree(m, T), Labelled(m, T, R), Added(T, U, l, t, x, g), Grown(m, m2, t, x, g),
         NewLabel(R, Q, t, x, g)
  PROVE  Labelled(m2, U, Q)
<1>1. /\ l - 1 \in 1 .. Levels /\ l \in 1 .. Levels /\ Levels \in Nat
      /\ T \in [1 .. Levels -> SUBSET Frames] /\ U \in [1 .. Levels -> SUBSET Frames]
      /\ U[l - 1] = T[l - 1] \cup {g} /\ \A n \in 1 .. Levels : n # l - 1 => U[n] = T[n]
      /\ t \in Frames /\ t # g
  BY AddedTables
<1>2. /\ l \in 2 .. Levels /\ t \in T[l] /\ x \in Indices /\ g \in Frames
      /\ \A n \in 1 .. Levels : g \notin T[n]
  BY DEF Added
<1>3. OneMore(m, m2, T, U, l, t, x)
  BY GrownEntries
<1>4. R \in [Frames -> Nat] /\ R[t] \in Nat /\ x \in Nat /\ Radix * R[t] + x \in Nat
  <2>1. R \in [Frames -> Nat] /\ R[t] \in Nat /\ x \in Nat
    BY <1>1, <1>2, Sizes DEF Labelled, Indices
  <2> QED
    BY <2>1, Sizes
<1>5. /\ Q \in [Frames -> Nat] /\ Q[g] = Radix * R[t] + x
      /\ \A f \in Frames \ {g} : Q[f] = R[f]
  BY <1>2, <1>4 DEF NewLabel
<1>6. Q[Root] = 0
  <2>1. Root \in T[Levels] /\ Root # g
    BY <1>1, <1>2 DEF Tree
  <2> QED
    BY <1>5, <2>1, Sizes DEF Labelled
<1>7. \A n \in 1 .. Levels : \A f \in T[n] : f \in Frames \ {g} /\ Q[f] = R[f]
  BY <1>1, <1>2, <1>5
<1>8. ASSUME NEW n \in 2 .. Levels, NEW k \in Present(m2, U[n])
      PROVE  /\ m2[k[1]][k[2]].write = TRUE
             /\ Q[m2[k[1]][k[2]].address] = Radix * Q[k[1]] + k[2]
  <2>1. CASE k \in Present(m, T[n])
    <3>1. n \in 1 .. Levels /\ n - 1 \in 1 .. Levels
      BY <1>1
    <3>2. m[k[1]][k[2]].address \in T[n - 1] /\ k[1] \in T[n]
      BY <2>1 DEF Tree, Targets, Present
    <3>3. /\ m[k[1]][k[2]].write = TRUE
          /\ R[m[k[1]][k[2]].address] = Radix * R[k[1]] + k[2]
      BY <2>1 DEF Labelled
    <3>4. Q[m[k[1]][k[2]].address] = R[m[k[1]][k[2]].address] /\ Q[k[1]] = R[k[1]]
      BY <1>7, <3>1, <3>2
    <3> QED
      BY <1>3, <2>1, <3>3, <3>4 DEF OneMore
  <2>2. CASE k = <<t, x>>
    <3>1. m2[k[1]][k[2]].address = g /\ m2[k[1]][k[2]].write = TRUE
      BY <2>2 DEF Grown
    <3>2. Q[k[1]] = R[t] /\ k[2] = x
      BY <1>1, <1>5, <2>2
    <3> QED
      BY <1>5, <3>1, <3>2
  <2> QED
    BY <1>3, <2>1, <2>2 DEF OneMore
<1>9. ASSUME NEW h \in T[l - 1] PROVE R[h] # Radix * R[t] + x
  <2> SUFFICES ASSUME R[h] = Radix * R[t] + x PROVE FALSE
    OBVIOUS
  <2>1. PICK k \in Present(m, T[l]) : h = m[k[1]][k[2]].address
    BY <1>2 DEF Tree, Targets
  <2>2. k[1] \in T[l] /\ k[1] \in Frames /\ k[2] \in Indices /\ k = <<k[1], k[2]>>
    BY <1>1 DEF Present
  <2>3. Radix * R[k[1]] + k[2] = Radix * R[t] + x
    BY <1>2, <2>1 DEF Labelled
  <2>4. R[k[1]] = R[t] /\ k[2] = x
    <3>1. R[k[1]] \in Nat
      BY <1>4, <2>2
    <3> QED
      BY <1>2, <1>4, <2>2, <2>3, <3>1, OneLabel
  <2>5. k[1] = t
    BY <1>1, <1>2, <2>2, <2>4 DEF Labelled
  <2> QED
    BY <1>3, <2>1, <2>2, <2>4, <2>5 DEF OneMore
<1>10. ASSUME NEW n \in 1 .. Levels, NEW f \in U[n], NEW h \in U[n], Q[f] = Q[h]
       PROVE  f = h
  <2>1. CASE f \in T[n] /\ h \in T[n]
    BY <1>7, <1>10, <2>1 DEF Labelled
  <2>2. CASE n = l - 1 /\ (f = g \/ h = g)
    <3>1. \A e \in T[l - 1] : Q[e] # Q[g]
      BY <1>1, <1>5, <1>7, <1>9
    <3> QED
      BY <1>1, <1>10, <2>2, <3>1
  <2> QED
    BY <1>1, <2>1, <2>2
<1> QED
  BY <1>5, <1>6, <1>8, <1>10 DEF Labelled

(* The new table is clear, so that nothing translates that did not. *)
LEMMA GrowRight ==
  ASSUME NEW m, NEW m2, NEW T, NEW U, NEW R, NEW Q, NEW l, NEW t, NEW x, NEW g,
         NEW v \in Nat, NEW w,
         Tree(m, T), Labelled(m, T, R), Added(T, U, l, t, x, g), Grown(m, m2, t, x, g),
         NewLabel(R, Q, t, x, g), Right(m, T, R, v, w)
  PROVE  Right(m2, U, Q, v, w)
<1>1. /\ l - 1 \in 1 .. Levels /\ l \in 1 .. Levels /\ Levels \in Nat
      /\ T \in [1 .. Levels -> SUBSET Frames] /\ U \in [1 .. Levels -> SUBSET Frames]
      /\ U[l - 1] = T[l - 1] \cup {g} /\ \A n \in 1 .. Levels : n # l - 1 => U[n] = T[n]
      /\ t \in Frames /\ t # g /\ \A n \in 1 .. Levels : n # l => t \notin T[n]
  BY AddedTables
<1>2. /\ l \in 2 .. Levels /\ g \in Frames /\ \A n \in 1 .. Levels : g \notin T[n]
      /\ 1 \in 1 .. Levels /\ l # 1
  BY <1>1 DEF Added
<1>3. \A f \in T[1] : m2[f] = m[f] /\ Q[f] = R[f]
  <2>1. T[1] \subseteq Frames \ {t, g} /\ R \in [Frames -> Nat]
    BY <1>1, <1>2 DEF Labelled
  <2> QED
    BY <2>1 DEF Grown, NewLabel
<1>4. \A f \in U[1] : f \in T[1] \/ f = g
  BY <1>1, <1>2
<1>5. T[1] \subseteq U[1]
  BY <1>1, <1>2
<1>6. ~m2[g][Index(v, 1)].present
  BY <1>2, RegionBelow DEF Grown, ZeroTable, Entry
<1> QED
  BY <1>3, <1>4, <1>5, <1>6 DEF Right
-----------------------------------------------------------------------------
(* The page that is being mapped is one of the space. *)
LEMMA PageInSpace ==
  ASSUME PagingTypeOK, CallShape, at # "idle", i < call.count
  PROVE  Virtual \in AllPages /\ Virtual \in Nat
<1>1. PICK q \in Nat \ {0} : q = Radix ^ Levels
  BY Sizes
<1>2. /\ i \in Nat /\ call.va \in Nat /\ call.count \in Nat
      /\ call.va + call.count <= q
  BY <1>1 DEF PagingTypeOK, CallShape
<1>3. call.va + i \in 0 .. q - 1
  BY <1>2
<1> QED
  BY <1>1, <1>3 DEF Virtual, AllPages

(* In the beginning the root is the only table, and it is clear. *)
LEMMA InitPagesInv == Init => PagesInv
<1> SUFFICES ASSUME Init PROVE PagesInv
  OBVIOUS
<1> PICK T : T = [l \in 1 .. Levels |-> IF l = Levels THEN {Root} ELSE {}]
  OBVIOUS
<1> PICK R : R = [f \in Frames |-> 0]
  OBVIOUS
<1>1. memory \in [Frames -> TableT] /\ memory[Root] = ZeroTable
  BY TablesHold, Sizes DEF Init
<1>2. PagingTypeOK
  BY <1>1, Sizes DEF Init, PagingTypeOK, TableT, EntryT, NoCall
<1>3. CallShape /\ Books
  BY Sizes, TablesHold DEF Init, CallShape, Books, NoCall
<1>4. Linked = memory
  BY DEF Init, Linked
<1>5. /\ T \in [1 .. Levels -> SUBSET Frames] /\ T[Levels] = {Root}
      /\ \A l \in 1 .. Levels : T[l] \subseteq {Root}
      /\ \A l \in 1 .. Levels : l # Levels => T[l] = {}
  BY Sizes
<1>6. \A S : S \subseteq {Root} => Present(memory, S) = {} /\ Targets(memory, S) = {}
  BY <1>1 DEF Present, Targets, ZeroTable, Entry
<1>7. \A l \in 2 .. Levels : l \in 1 .. Levels /\ l - 1 \in 1 .. Levels /\ l - 1 # Levels
  BY Sizes
<1>8. Tree(memory, T)
  <2>1. \A l, n \in 1 .. Levels : l # n => T[l] \cap T[n] = {}
    BY <1>5
  <2> QED
    BY <1>5, <1>6, <1>7, <2>1 DEF Tree
<1>9. Labelled(memory, T, R)
  <2>1. R \in [Frames -> Nat] /\ R[Root] = 0
    BY Sizes
  <2>2. \A l \in 2 .. Levels : Present(memory, T[l]) = {}
    BY <1>5, <1>6, <1>7
  <2>3. \A l \in 1 .. Levels : \A f, g \in T[l] : f = g
    BY <1>5
  <2> QED
    BY <2>1, <2>2, <2>3 DEF Labelled
<1>10. Tables(T) = Frames \ ({0, Root} \cup free \cup used)
  <2>1. \A l \in 1 .. Levels - 1 : l \in 1 .. Levels /\ l # Levels
    BY Sizes
  <2> QED
    BY <1>5, <2>1 DEF Init, Tables
<1>11. AllRight(T, R)
  <2> SUFFICES ASSUME NEW v \in AllPages PROVE Right(memory, T, R, v, wanted[v])
    BY <1>4 DEF AllRight
  <2>1. 1 \in 1 .. Levels /\ v \in Nat
    BY Sizes, RegionEnds
  <2>2. Index(v, 1) \in Indices /\ T[1] \subseteq {Root}
    <3>1. Index(v, 1) \in Indices
      BY <2>1, RegionBelow
    <3>2. \A l \in 1 .. Levels : T[l] \subseteq {Root}
      BY <1>5
    <3> QED
      BY <2>1, <3>1, <3>2
  <2>3. wanted[v] = NoPage
    BY DEF Init
  <2>4. ~ZeroTable[Index(v, 1)].present
    BY <2>2 DEF ZeroTable, Entry
  <2>5. \A f \in T[1] : ~memory[f][Index(v, 1)].present
    BY <1>1, <2>2, <2>4
  <2> QED
    BY <2>3, <2>5 DEF Right
<1>12. Owned(T, R)
  BY <1>4, <1>8, <1>9, <1>10, <1>11 DEF Owned, Walking, Init
<1> QED
  BY <1>2, <1>3, <1>12 DEF PagesInv

(* A table is nobody else's frame. *)
LEMMA TablesOwn ==
  ASSUME Books, NEW T, NEW R, Owned(T, R), NEW l \in 1 .. Levels, NEW f \in T[l]
  PROVE  f \in Frames /\ f \notin free \cup used
<1>1. CASE l = Levels
  BY <1>1, Sizes DEF Owned, Tree, Books
<1>2. CASE l # Levels
  <2>1. l \in 1 .. Levels - 1
    BY <1>2, Sizes
  <2>2. f \in Tables(T)
    BY <2>1 DEF Tables
  <2> QED
    BY <2>2 DEF Owned
<1> QED
  BY <1>1, <1>2

(* Where MapPage is, there is an entry, and it is the page's. *)
LEMMA EntryThere ==
  ASSUME PagesInv, NEW T, NEW R, Owned(T, R), at \in {"next", "link", "address"}
  PROVE  /\ Levels \in Nat /\ level \in 1 .. Levels
         /\ T \in [1 .. Levels -> SUBSET Frames]
         /\ FrameAt(table) \in T[level] /\ FrameAt(table) \in Frames
         /\ R[FrameAt(table)] = Region(Virtual, level)
         /\ Virtual \in AllPages /\ Virtual \in Nat
         /\ Index(Virtual, level) \in Indices /\ Here \in EntryT
         /\ memory \in [Frames -> TableT]
<1>1. level \in 1 .. Levels /\ Levels \in Nat
  BY Sizes DEF PagesInv, PagingTypeOK, CallShape
<1>2. /\ FrameAt(table) \in T[level] /\ T \in [1 .. Levels -> SUBSET Frames]
      /\ R[FrameAt(table)] = Region(Virtual, level)
  BY DEF Owned, Walking, Tree
<1>3. FrameAt(table) \in Frames
  BY <1>1, <1>2
<1>4. Virtual \in AllPages /\ Virtual \in Nat
  BY PageInSpace DEF PagesInv, CallShape
<1>5. Index(Virtual, level) \in Indices
  BY <1>1, <1>4, RegionBelow
<1>6. memory \in [Frames -> TableT]
  BY DEF PagesInv, PagingTypeOK, TableT, EntryT
<1>7. Here \in EntryT
  BY <1>3, <1>5, <1>6 DEF Here, TableT
<1> QED
  BY <1>1, <1>2, <1>3, <1>4, <1>5, <1>6, <1>7
-----------------------------------------------------------------------------
(* Steps that write to no table and move no frame. *)
LEMMA QuietOwned ==
  ASSUME NEW T, NEW R, Owned(T, R), UNCHANGED <<memory, free, used, wanted>>,
         at \notin {"link", "address"}, at' \notin {"link", "address"}, Walking(T, R)'
  PROVE  Owned(T, R)'
<1>1. Linked' = Linked
  BY DEF Linked
<1>2. AllRight(T, R)'
  BY <1>1 DEF Owned, AllRight
<1> QED
  BY <1>1, <1>2 DEF Owned

(* The arguments of a call lie in the space. *)
LEMMA CallKeeps == PagesInv /\ Call => PagesInv'
<1> SUFFICES ASSUME PagesInv, NEW v \in VAs, NEW p \in PAs, NEW n \in Counts, NEW f \in Flags,
                    CallMapPages(v, p, n, f[1], f[2])
             PROVE  PagesInv'
  BY DEF Call
<1>1. /\ at = "idle" /\ at' = "page" /\ i' = 0
      /\ call' = [va |-> v, pa |-> p, count |-> n, present |-> f[1],
                  write |-> f[2], room |-> Cardinality(free)]
      /\ UNCHANGED <<memory, free, used, level, table, next, result, wanted>>
  BY DEF CallMapPages, walk, books
<1>2. /\ v \in Nat /\ p \in Nat /\ n \in Nat \ {0} /\ p + n <= HHDM_Offset
      /\ v + n <= Radix ^ Levels /\ f[1] \in BOOLEAN /\ f[2] \in BOOLEAN
  BY PagingAssumption
<1>3. PagingTypeOK'
  BY <1>1, <1>2 DEF PagesInv, PagingTypeOK
<1>4. CallShape' /\ Books'
  BY <1>1, <1>2 DEF PagesInv, CallShape, Books
<1>5. PICK T, R : Owned(T, R)
  BY DEF PagesInv
<1>6. Owned(T, R)'
  BY <1>1, <1>5, QuietOwned DEF Walking
<1> QED
  BY <1>3, <1>4, <1>6 DEF PagesInv

(* A call that ends leaves the tables as they are. *)
LEMMA ReturnsKeep == PagesInv /\ (PagesMapped \/ OutOfFrames) => PagesInv'
<1> SUFFICES ASSUME PagesInv, PagesMapped \/ OutOfFrames PROVE PagesInv'
  OBVIOUS
<1>1. /\ at \in {"page", "next"} /\ at' = "idle" /\ level' = 0 /\ result' \in BOOLEAN
      /\ \/ i' = 0 /\ call' = NoCall
         \/ i' = i /\ call' = call
      /\ UNCHANGED <<memory, free, used, wanted>>
  BY DEF PagesMapped, OutOfFrames, Return
<1>2. PagingTypeOK'
  BY <1>1, Sizes DEF PagesInv, PagingTypeOK, NoCall
<1>3. CallShape' /\ Books'
  <2>1. /\ call'.va \in Nat /\ call'.pa \in Nat /\ call'.count \in Nat
        /\ call'.present \in BOOLEAN /\ call'.write \in BOOLEAN
        /\ call'.pa + call'.count <= HHDM_Offset
    <3>1. CASE call' = NoCall
      BY <3>1, Sizes DEF NoCall
    <3>2. CASE call' = call
      BY <3>2 DEF PagesInv, CallShape
    <3> QED
      BY <1>1, <3>1, <3>2
  <2> QED
    BY <1>1, <2>1 DEF PagesInv, CallShape, Books
<1>4. PICK T, R : Owned(T, R)
  BY DEF PagesInv
<1>5. Owned(T, R)'
  BY <1>1, <1>4, QuietOwned DEF Walking
<1> QED
  BY <1>2, <1>3, <1>5 DEF PagesInv

(* The root is the table of the whole space. *)
LEMMA StartPageKeeps == PagesInv /\ StartPage => PagesInv'
<1> SUFFICES ASSUME PagesInv, StartPage PROVE PagesInv'
  OBVIOUS
<1>1. /\ at = "page" /\ at' = "next" /\ i < call.count /\ table' = Root /\ level' = Levels
      /\ UNCHANGED <<memory, free, used, call, i, next, result, wanted>>
  BY DEF StartPage, books
<1>2. PagingTypeOK'
  BY <1>1, Sizes DEF PagesInv, PagingTypeOK
<1>3. CallShape' /\ Books'
  BY <1>1, Sizes DEF PagesInv, CallShape, Books
<1>4. PICK T, R : Owned(T, R)
  BY DEF PagesInv
<1>5. FrameAt(Root) = Root /\ Root \in T[Levels] /\ R[Root] = 0
  BY <1>4, FramesReached, Sizes DEF Owned, Tree, Labelled
<1>6. Region(Virtual, Levels) = 0
  BY <1>1, PageInSpace, RegionEnds DEF PagesInv
<1>7. FrameAt(table)' = FrameAt(Root) /\ Virtual' = Virtual
  BY <1>1 DEF FrameAt, IsPhysical, PhysicalToVirtual, Virtual
<1>8. Region(Virtual, level)' = Region(Virtual, Levels)
  BY <1>1, <1>7 DEF Region
<1>9. Walking(T, R)'
  BY <1>1, <1>5, <1>6, <1>7, <1>8 DEF Walking
<1>10. Owned(T, R)'
  BY <1>1, <1>4, <1>9, QuietOwned
<1> QED
  BY <1>2, <1>3, <1>10 DEF PagesInv

(* The next page, if there is one. *)
LEMMA FlushPageKeeps == PagesInv /\ FlushPage => PagesInv'
<1> SUFFICES ASSUME PagesInv, FlushPage PROVE PagesInv'
  OBVIOUS
<1>1. /\ at = "flush" /\ at' = "page" /\ i' = i + 1
      /\ UNCHANGED <<memory, free, used, call, level, table, next, result, wanted>>
  BY DEF FlushPage, walk, books
<1>2. i' \in 0 .. call.count
  BY <1>1 DEF PagesInv, PagingTypeOK, CallShape
<1>3. PagingTypeOK'
  BY <1>1, <1>2 DEF PagesInv, PagingTypeOK
<1>4. CallShape' /\ Books'
  BY <1>1 DEF PagesInv, CallShape, Books
<1>5. PICK T, R : Owned(T, R)
  BY DEF PagesInv
<1>6. Owned(T, R)'
  BY <1>1, <1>5, QuietOwned DEF Walking
<1> QED
  BY <1>3, <1>4, <1>6 DEF PagesInv

(* The processor, and steps that are none, do not touch the tables. *)
LEMMA MmuKeeps ==
  ASSUME PagesInv, UNCHANGED <<memory, free, used, at, call, i, walk, result, wanted>>
  PROVE  PagesInv'
<1>1. PagingTypeOK' /\ Books'
  BY DEF PagesInv, PagingTypeOK, Books, walk
<1>2. /\ Here' = Here /\ FrameAt(next)' = FrameAt(next) /\ FrameAt(table)' = FrameAt(table)
      /\ Virtual' = Virtual /\ Region(Virtual, level)' = Region(Virtual, level)
  BY DEF Here, FrameAt, IsPhysical, PhysicalToVirtual, Index, Virtual, Region, walk
<1>3. Linked' = Linked
  BY <1>2 DEF Linked, WriteHere, Index, Virtual, walk
<1>4. CallShape'
  BY <1>2 DEF PagesInv, CallShape, walk
<1>5. PICK T, R : Owned(T, R)
  BY DEF PagesInv
<1>6. Owned(T, R)'
  BY <1>2, <1>3, <1>5 DEF Owned, Walking, AllRight, walk
<1> QED
  BY <1>1, <1>4, <1>6 DEF PagesInv
(* The rest of the kernel takes the frame, which is no table. *)
LEMMA TakeFrameKeeps == PagesInv /\ TakeFrame => PagesInv'
<1> SUFFICES ASSUME PagesInv, TakeFrame PROVE PagesInv'
  OBVIOUS
<1>1. /\ at = "idle" /\ free # {}
      /\ used' = used \cup {Min(free)} /\ free' = free \ {Min(free)}
      /\ UNCHANGED <<memory, at, call, i, level, table, next, result, wanted>>
  BY DEF TakeFrame, walk, books
<1>2. Min(free) \in free
  BY <1>1, LeastElement, Sizes DEF PagesInv, PagingTypeOK
<1>3. free' \cup used' = free \cup used
  BY <1>1, <1>2
<1>4. PagingTypeOK'
  BY <1>1, <1>2 DEF PagesInv, PagingTypeOK
<1>5. CallShape' /\ Books'
  BY <1>1, <1>2, <1>3 DEF PagesInv, CallShape, Books
<1>6. PICK T, R : Owned(T, R)
  BY DEF PagesInv
<1>7. Linked' = memory /\ Linked = memory
  BY <1>1 DEF Linked
<1>8. Owned(T, R)'
  BY <1>1, <1>3, <1>6, <1>7 DEF Owned, Walking, AllRight
<1> QED
  BY <1>4, <1>5, <1>8 DEF PagesInv

(* A frame that is given back is no table. *)
LEMMA GiveFrameKeeps == ASSUME PagesInv, NEW f \in used, GiveFrame(f) PROVE PagesInv'
<1>1. /\ at = "idle" /\ used' = used \ {f} /\ free' = free \cup {f}
      /\ memory' = [memory EXCEPT ![f] = Garbage]
      /\ UNCHANGED <<at, call, i, level, table, next, result, wanted>>
  BY DEF GiveFrame, walk, books
<1>2. memory \in [Frames -> TableT] /\ f \in Frames \ {0, Root} /\ free \cup used \subseteq Frames
  BY DEF PagesInv, PagingTypeOK, Books, TableT, EntryT
<1>3. memory' \in [Frames -> TableT] /\ \A g \in Frames \ {f} : memory'[g] = memory[g]
  BY <1>1, <1>2, TablesHold
<1>4. free' \cup used' = free \cup used
  BY <1>1
<1>5. PagingTypeOK'
  BY <1>1, <1>2, <1>3 DEF PagesInv, PagingTypeOK, TableT, EntryT
<1>6. CallShape' /\ Books'
  BY <1>1, <1>4 DEF PagesInv, CallShape, Books
<1>7. PICK T, R : Owned(T, R)
  BY DEF PagesInv
<1>8. Linked' = memory' /\ Linked = memory
  BY <1>1 DEF Linked
<1>9. ASSUME NEW l \in 1 .. Levels, NEW g \in T[l] PROVE memory'[g] = memory[g]
  BY <1>3, <1>7, TablesOwn DEF PagesInv
<1>10. Tree(memory', T) /\ Labelled(memory', T, R)
  <2>1. ASSUME NEW l \in 2 .. Levels, NEW g \in T[l] PROVE memory'[g] = memory[g]
    <3>1. l \in 1 .. Levels
      BY Sizes
    <3> QED
      BY <1>9, <3>1
  <2>2. Tree(memory, T) /\ Labelled(memory, T, R)
    BY <1>7, <1>8 DEF Owned
  <2> QED
    BY <2>1, <2>2, TreeOnlyTables
<1>11. AllRight(T, R)'
  <2> SUFFICES ASSUME NEW v \in AllPages PROVE Right(memory', T, R, v, wanted[v])
    BY <1>1, <1>8 DEF AllRight
  <2>1. Right(memory, T, R, v, wanted[v])
    BY <1>1, <1>7, <1>8 DEF Owned, AllRight
  <2>2. \A g \in T[1] : memory'[g] = memory[g]
    BY <1>9, Sizes
  <2> QED
    BY <2>1, <2>2, RightStays
<1>12. Owned(T, R)'
  BY <1>1, <1>4, <1>7, <1>8, <1>10, <1>11 DEF Owned, Walking
<1> QED
  BY <1>5, <1>6, <1>12 DEF PagesInv
-----------------------------------------------------------------------------
(* e is the entry that v has in its table of level l. *)
EntryOf(m, T, R, v, l, e) == \E t \in T[l] : R[t] = Region(v, l) /\ e = m[t][Index(v, l)]

(* Every present entry leads to the table of its page one level below. *)
Leads(m, T, R) ==
  \A v \in Nat, l \in 2 .. Levels : \A e : EntryOf(m, T, R, v, l, e) /\ e.present =>
    e.write = TRUE /\ e.address \in T[l - 1] /\ R[e.address] = Region(v, l - 1)

(* The entries of a tree with its regions do. *)
LEMMA TargetBelow ==
  ASSUME NEW m, NEW T, NEW R, Tree(m, T), Labelled(m, T, R)
  PROVE  Leads(m, T, R)
<1> SUFFICES ASSUME NEW v \in Nat, NEW l \in 2 .. Levels, NEW e,
                    EntryOf(m, T, R, v, l, e), e.present
             PROVE  e.write = TRUE /\ e.address \in T[l - 1] /\ R[e.address] = Region(v, l - 1)
  BY DEF Leads
<1>1. l \in 1 .. Levels
  BY Sizes
<1> PICK t \in T[l] : R[t] = Region(v, l) /\ e = m[t][Index(v, l)]
  BY DEF EntryOf
<1>2. PICK x \in Indices : x = Index(v, l) /\ Region(v, l - 1) = Radix * R[t] + x
  BY <1>1, RegionBelow
<1>3. <<t, x>> \in Present(m, T[l])
  BY <1>2 DEF Present
<1>4. /\ m[<<t, x>>[1]][<<t, x>>[2]].write = TRUE
      /\ R[m[<<t, x>>[1]][<<t, x>>[2]].address] = Radix * R[<<t, x>>[1]] + <<t, x>>[2]
  BY <1>3 DEF Labelled
<1>5. m[<<t, x>>[1]][<<t, x>>[2]].address \in Targets(m, T[l])
  BY <1>3 DEF Targets
<1>6. Targets(m, T[l]) = T[l - 1]
  BY DEF Tree
<1> QED
  BY <1>2, <1>4, <1>5, <1>6

(* The next table is there: it is the target of a present entry. *)
LEMMA NextLevelKeeps == PagesInv /\ NextLevel => PagesInv'
<1> SUFFICES ASSUME PagesInv, NextLevel PROVE PagesInv'
  OBVIOUS
<1>1. /\ at = "next" /\ at' = "next" /\ level > 1 /\ Here.present
      /\ table' = Here.address /\ level' = level - 1
      /\ UNCHANGED <<memory, free, used, call, i, next, result, wanted>>
  BY DEF NextLevel, books
<1>2. PICK T, R : Owned(T, R)
  BY DEF PagesInv
<1>3. /\ Levels \in Nat /\ level \in 1 .. Levels /\ T \in [1 .. Levels -> SUBSET Frames]
      /\ FrameAt(table) \in T[level] /\ R[FrameAt(table)] = Region(Virtual, level)
      /\ Virtual \in Nat
  BY <1>1, <1>2, EntryThere
<1>4. level \in 2 .. Levels /\ level - 1 \in 1 .. Levels
  BY <1>1, <1>3, Sizes
<1>5. Here.address \in T[level - 1] /\ R[Here.address] = Region(Virtual, level - 1)
  <2>1. Leads(memory, T, R)
    BY <1>1, <1>2, TargetBelow DEF Owned, Linked
  <2>2. EntryOf(memory, T, R, Virtual, level, Here)
    BY <1>3 DEF EntryOf, Here
  <2>3. Virtual \in Nat /\ level \in 2 .. Levels /\ Here.present
    BY <1>1, <1>3, <1>4
  <2> QED
    BY <2>1, <2>2, <2>3 DEF Leads
<1>6. FrameAt(Here.address) = Here.address
  BY <1>3, <1>4, <1>5, FramesReached
<1>7. PagingTypeOK'
  BY <1>1, <1>3, <1>4 DEF PagesInv, PagingTypeOK
<1>8. CallShape' /\ Books'
  BY <1>1, <1>3, <1>4 DEF PagesInv, CallShape, Books
<1>9. Walking(T, R)'
  <2>1. FrameAt(table)' = FrameAt(Here.address) /\ Virtual' = Virtual
    BY <1>1 DEF FrameAt, IsPhysical, PhysicalToVirtual, Virtual
  <2>2. Region(Virtual, level)' = Region(Virtual, level - 1)
    BY <1>1, <2>1 DEF Region
  <2> QED
    BY <1>1, <1>5, <1>6, <2>1, <2>2 DEF Walking
<1> QED
  BY <1>1, <1>2, <1>7, <1>8, <1>9, QuietOwned DEF PagesInv

(* A frame that was free becomes a clear table of the next level. *)
LEMMA CreateKeeps == PagesInv /\ Create => PagesInv'
<1> SUFFICES ASSUME PagesInv, Create PROVE PagesInv'
  OBVIOUS
<1> DEFINE g == Min(free)
           t == FrameAt(table)
           x == Index(Virtual, level)
<1>1. /\ at = "next" /\ at' = "link" /\ level > 1 /\ ~Here.present /\ free # {}
      /\ free' = free \ {g} /\ next' = PhysicalToVirtual(g)
      /\ memory' = [WriteHere(Entry(TRUE, TRUE, 0)) EXCEPT ![g] = ZeroTable]
      /\ UNCHANGED <<used, call, i, level, table, result, wanted>>
  BY DEF Create, books, Cleared
<1>2. PICK T, R : Owned(T, R)
  BY DEF PagesInv
<1>3. /\ Levels \in Nat /\ level \in 1 .. Levels /\ T \in [1 .. Levels -> SUBSET Frames]
      /\ t \in T[level] /\ t \in Frames /\ R[t] = Region(Virtual, level)
      /\ x \in Indices /\ memory \in [Frames -> TableT]
  BY <1>1, <1>2, EntryThere
<1>4. level \in 2 .. Levels /\ level - 1 \in 1 .. Levels
  BY <1>1, <1>3, Sizes
<1>5. g \in free /\ g \in Frames \ {0, Root}
  <2>1. g \in free
    BY <1>1, LeastElement, Sizes DEF PagesInv, PagingTypeOK
  <2> QED
    BY <2>1 DEF PagesInv, Books
<1>6. (\A n \in 1 .. Levels : g \notin T[n]) /\ g # t
  BY <1>2, <1>3, <1>5, TablesOwn DEF PagesInv
<1>7. /\ memory' \in [Frames -> TableT] /\ memory'[g] = ZeroTable
      /\ memory'[t][x] = Entry(TRUE, TRUE, 0)
      /\ \A y \in Indices \ {x} : memory'[t][y] = memory[t][y]
      /\ \A f \in Frames \ {t, g} : memory'[f] = memory[f]
  <2> PICK e : e = Entry(TRUE, TRUE, 0)
    OBVIOUS
  <2> PICK m : m = [memory EXCEPT ![t][x] = e]
    OBVIOUS
  <2>1. e \in EntryT
    BY Sizes DEF Entry, EntryT
  <2>2. memory' = [m EXCEPT ![g] = ZeroTable]
    BY <1>1 DEF WriteHere
  <2> HIDE DEF t, x, g
  <2>3. /\ m \in [Frames -> TableT] /\ m[t][x] = e
        /\ \A y \in Indices \ {x} : m[t][y] = memory[t][y]
        /\ \A f \in Frames \ {t} : m[f] = memory[f]
    BY <1>3, <2>1 DEF TableT
  <2> QED
    BY <1>3, <1>5, <1>6, <2>2, <2>3, TablesHold
<1>8. FrameAt(next)' = g /\ Here' = Entry(TRUE, TRUE, 0) /\ FrameAt(table)' = t
      /\ Index(Virtual, level)' = x /\ Virtual' = Virtual
  <2>1. FrameAt(next)' = FrameAt(PhysicalToVirtual(g))
    BY <1>1 DEF FrameAt, IsPhysical, PhysicalToVirtual
  <2>2. FrameAt(table)' = t /\ Index(Virtual, level)' = x /\ Virtual' = Virtual
    BY <1>1 DEF FrameAt, IsPhysical, PhysicalToVirtual, Index, Virtual
  <2>3. Here' = memory'[t][x]
    BY <2>2 DEF Here
  <2> QED
    BY <1>5, <1>7, <2>1, <2>2, <2>3, FramesReached
<1>9. PagingTypeOK'
  BY <1>1, <1>5, <1>7 DEF PagesInv, PagingTypeOK, TableT, EntryT
<1>10. CallShape'
  BY <1>1, <1>4, <1>5, <1>7, <1>8 DEF PagesInv, CallShape, Entry
<1>11. Books'
  BY <1>1 DEF PagesInv, Books
<1> PICK U : U = [T EXCEPT ![level - 1] = T[level - 1] \cup {g}]
  OBVIOUS
<1> PICK Q : NewLabel(R, Q, t, x, g)
  BY DEF NewLabel
<1>12. Tree(memory, T) /\ Labelled(memory, T, R)
  BY <1>1, <1>2 DEF Owned, Linked
<1>13. Grown(memory, Linked', t, x, g)
  <2> PICK e : e = [Here' EXCEPT !.address = g]
    OBVIOUS
  <2>1. Linked' = [memory' EXCEPT ![t][x] = e]
    <3>1. Linked' = WriteHere([Here EXCEPT !.address = FrameAt(next)])'
      BY <1>1 DEF Linked
    <3>2. WriteHere([Here EXCEPT !.address = FrameAt(next)])'
            = [memory' EXCEPT ![FrameAt(table)'][Index(Virtual, level)'] =
                 [Here' EXCEPT !.address = FrameAt(next)']]
      BY DEF WriteHere
    <3> QED
      BY <1>8, <3>1, <3>2
  <2>2. e \in EntryT /\ e.present /\ e.write = TRUE /\ e.address = g
    <3>1. Here' \in EntryT /\ Here'.present /\ Here'.write = TRUE
      BY <1>8, Sizes DEF Entry, EntryT
    <3> QED
      BY <1>5, <3>1, Sizes DEF EntryT
  <2> HIDE DEF t, x, g
  <2>3. /\ Linked'[t][x] = e
        /\ \A y \in Indices \ {x} : Linked'[t][y] = memory'[t][y]
        /\ \A f \in Frames \ {t} : Linked'[f] = memory'[f]
    BY <1>3, <1>7, <2>1, <2>2 DEF TableT
  <2>4. ~memory[t][x].present
    BY <1>1 DEF Here, t, x
  <2> QED
    BY <1>5, <1>6, <1>7, <2>2, <2>3, <2>4 DEF Grown
<1>14. Added(T, U, level, t, x, g)
  BY <1>3, <1>4, <1>5, <1>6 DEF Added
<1>15. Tree(Linked', U) /\ Labelled(Linked', U, Q)
  <2> HIDE DEF t, x, g
  <2>1. Tree(Linked', U)
    BY <1>12, <1>13, <1>14, Grow
  <2>2. Labelled(Linked', U, Q)
    BY <1>12, <1>13, <1>14, GrowLabelled
  <2> QED
    BY <2>1, <2>2
<1>16. ASSUME NEW v \in AllPages PROVE Right(Linked', U, Q, v, wanted'[v])
  <2>1. v \in Nat
    BY RegionEnds
  <2>2. Right(memory, T, R, v, wanted'[v])
    BY <1>1, <1>2 DEF Owned, AllRight, Linked
  <2> HIDE DEF t, x, g
  <2> QED
    BY <1>12, <1>13, <1>14, <2>1, <2>2, GrowRight
<1>17. /\ U[level - 1] = T[level - 1] \cup {g}
       /\ \A n \in 1 .. Levels : n # level - 1 => U[n] = T[n]
  BY <1>3, <1>4
<1>18. Tables(U) = Tables(T) \cup {g}
  <2>1. level - 1 \in 1 .. Levels - 1 /\ \A n \in 1 .. Levels - 1 : n \in 1 .. Levels
    BY <1>3, <1>4
  <2> QED
    BY <1>17, <2>1 DEF Tables
<1>19. Owned(U, Q)'
  <2>1. Tables(U) = Frames \ ({0, Root} \cup free' \cup used')
    BY <1>1, <1>2, <1>5, <1>18 DEF Owned, PagesInv, Books
  <2>2. FrameAt(table)' \in U[level'] /\ Q[FrameAt(table)'] = Region(Virtual, level)'
    <3>1. level # level - 1
      BY <1>3
    <3>2. Q[t] = R[t]
      BY <1>3, <1>6, <1>12 DEF Labelled, NewLabel
    <3>3. Region(Virtual, level)' = Region(Virtual, level)
      BY <1>1, <1>8 DEF Region
    <3> QED
      BY <1>1, <1>3, <1>8, <1>17, <3>1, <3>2, <3>3
  <2>3. Walking(U, Q)' /\ AllRight(U, Q)'
    BY <1>16, <2>2 DEF Walking, AllRight
  <2> QED
    BY <1>15, <2>1, <2>3 DEF Owned
<1> QED
  BY <1>9, <1>10, <1>11, <1>19 DEF PagesInv

(* The entry gets the address it had in Linked all along. *)
LEMMA LinkKeeps == PagesInv /\ Link => PagesInv'
<1> SUFFICES ASSUME PagesInv, Link PROVE PagesInv'
  OBVIOUS
<1> DEFINE g == FrameAt(next)
           t == FrameAt(table)
           x == Index(Virtual, level)
           e == [Here EXCEPT !.address = g]
<1>1. /\ at = "link" /\ at' = "next" /\ table' = next /\ level' = level - 1
      /\ memory' = WriteHere(e)
      /\ UNCHANGED <<free, used, call, i, next, result, wanted>>
  BY DEF Link, books
<1>2. PICK T, R : Owned(T, R)
  BY DEF PagesInv
<1>3. /\ Levels \in Nat /\ level \in 1 .. Levels /\ T \in [1 .. Levels -> SUBSET Frames]
      /\ t \in T[level] /\ t \in Frames /\ R[t] = Region(Virtual, level)
      /\ x \in Indices /\ memory \in [Frames -> TableT]
      /\ Here \in EntryT /\ Virtual \in Nat
  BY <1>1, <1>2, EntryThere
<1>4. /\ level \in 2 .. Levels /\ level - 1 \in 1 .. Levels
      /\ Here.present /\ g \in Frames
  BY <1>1, <1>3 DEF PagesInv, CallShape
<1>5. e \in EntryT /\ e.present /\ e.address = g
  BY <1>3, <1>4, Sizes DEF EntryT
<1>6. memory' \in [Frames -> TableT] /\ memory'[t][x] = e
  <2>1. memory' = [memory EXCEPT ![t][x] = e]
    BY <1>1 DEF WriteHere
  <2> HIDE DEF e, t, x
  <2> QED
    BY <1>3, <1>5, <2>1 DEF TableT
<1>7. Linked = memory' /\ Linked' = memory'
  BY <1>1 DEF Linked
<1>8. g \in T[level - 1] /\ R[g] = Region(Virtual, level - 1)
  <2> HIDE DEF e, g
  <2>1. Leads(memory', T, R)
    BY <1>2, <1>7, TargetBelow DEF Owned
  <2>2. EntryOf(memory', T, R, Virtual, level, e)
    BY <1>3, <1>6 DEF EntryOf
  <2> QED
    BY <1>3, <1>4, <1>5, <2>1, <2>2 DEF Leads
<1>9. PagingTypeOK'
  <2>1. at' = "next" /\ level' \in 0 .. Levels
    BY <1>1, <1>3, <1>4
  <2> HIDE DEF e, t, x, g
  <2> QED
    BY <1>1, <1>6, <2>1 DEF PagesInv, PagingTypeOK, TableT, EntryT
<1>10. CallShape' /\ Books'
  BY <1>1, <1>4 DEF PagesInv, CallShape, Books
<1>11. Walking(T, R)'
  <2>1. FrameAt(table)' = g /\ Virtual' = Virtual
    BY <1>1 DEF FrameAt, IsPhysical, PhysicalToVirtual, Virtual
  <2>2. Region(Virtual, level)' = Region(Virtual, level - 1)
    BY <1>1, <2>1 DEF Region
  <2> QED
    BY <1>1, <1>8, <2>1, <2>2 DEF Walking
<1>12. AllRight(T, R)'
  BY <1>1, <1>2, <1>7 DEF Owned, AllRight
<1>13. Owned(T, R)'
  BY <1>1, <1>2, <1>7, <1>11, <1>12 DEF Owned
<1> QED
  BY <1>9, <1>10, <1>13 DEF PagesInv
-----------------------------------------------------------------------------
(* A write to a table of the last level changes one page. *)
LEMMA LastLevel ==
  ASSUME PagesInv, NEW T, NEW R, Owned(T, R), at \in {"next", "address"}, level = 1,
         NEW e \in EntryT, memory' = WriteHere(e)
  PROVE  /\ memory' \in [Frames -> TableT]
         /\ memory'[FrameAt(table)][Index(Virtual, 1)] = e
         /\ Tree(memory', T) /\ Labelled(memory', T, R)
         /\ \A v \in AllPages : v # Virtual /\ Right(memory, T, R, v, wanted[v]) =>
              Right(memory', T, R, v, wanted[v])
<1> DEFINE t == FrameAt(table)
           x == Index(Virtual, 1)
<1>1. /\ Levels \in Nat /\ T \in [1 .. Levels -> SUBSET Frames]
      /\ t \in T[1] /\ t \in Frames /\ R[t] = Region(Virtual, 1)
      /\ x \in Indices /\ memory \in [Frames -> TableT] /\ Virtual \in Nat
  BY EntryThere
<1>2. memory' = [memory EXCEPT ![t][x] = e]
  BY DEF WriteHere
<1> HIDE DEF t, x
<1>3. /\ memory' \in [Frames -> TableT] /\ memory'[t][x] = e
      /\ \A f \in Frames \ {t} : memory'[f] = memory[f]
      /\ \A y \in Indices \ {x} : memory'[t][y] = memory[t][y]
  BY <1>1, <1>2 DEF TableT
<1>4. Tree(memory, T) /\ Labelled(memory, T, R)
  BY DEF Owned, Linked
<1>5. ASSUME NEW l \in 2 .. Levels, NEW f \in T[l] PROVE memory'[f] = memory[f]
  <2>1. l \in 1 .. Levels /\ 1 \in 1 .. Levels /\ l # 1
    BY <1>1, Sizes
  <2>2. f \in Frames /\ f # t
    BY <1>1, <1>4, <2>1 DEF Tree
  <2> QED
    BY <1>3, <2>2
<1>6. Tree(memory', T) /\ Labelled(memory', T, R)
  BY <1>4, <1>5, TreeOnlyTables
<1>7. ASSUME NEW v \in AllPages, v # Virtual, Right(memory, T, R, v, wanted[v])
      PROVE  Right(memory', T, R, v, wanted[v])
  <2>1. v \in Nat /\ 1 \in 1 .. Levels
    BY RegionEnds, Sizes
  <2>2. ASSUME NEW f \in T[1], R[f] = Region(v, 1)
        PROVE  memory'[f][Index(v, 1)] = memory[f][Index(v, 1)]
    <3>1. f \in Frames /\ Index(v, 1) \in Indices
      BY <1>1, <2>1, RegionBelow
    <3>2. f = t => Index(v, 1) # x
      BY <1>1, <1>7, <2>1, <2>2, OnePage DEF x
    <3> QED
      BY <1>3, <3>1, <3>2
  <2> QED
    BY <1>7, <2>2, RightStays
<1> QED
  BY <1>3, <1>6, <1>7 DEF t, x

(* Between the two writes of its entry, the page is neither what it was nor *)
(* what it will be.                                                         *)
LEMMA WriteFlagsKeeps == PagesInv /\ WriteFlags => PagesInv'
<1> SUFFICES ASSUME PagesInv, WriteFlags PROVE PagesInv'
  OBVIOUS
<1> DEFINE e == Entry(call.present, call.write, 0)
<1>1. /\ at = "next" /\ at' = "address" /\ level = 1 /\ memory' = WriteHere(e)
      /\ UNCHANGED <<free, used, call, i, level, table, next, result, wanted>>
  BY DEF WriteFlags, walk, books
<1>2. e \in EntryT
  BY Sizes DEF PagesInv, CallShape, Entry, EntryT
<1>3. PICK T, R : Owned(T, R)
  BY DEF PagesInv
<1>4. /\ memory' \in [Frames -> TableT]
      /\ memory'[FrameAt(table)][Index(Virtual, 1)] = e
      /\ Tree(memory', T) /\ Labelled(memory', T, R)
      /\ \A v \in AllPages : v # Virtual /\ Right(memory, T, R, v, wanted[v]) =>
           Right(memory', T, R, v, wanted[v])
  <2> HIDE DEF e
  <2> QED
    BY <1>1, <1>2, <1>3, LastLevel
<1>5. /\ FrameAt(table)' = FrameAt(table) /\ Virtual' = Virtual
      /\ Region(Virtual, level)' = Region(Virtual, level)
      /\ Here' = memory'[FrameAt(table)][Index(Virtual, 1)]
  BY <1>1 DEF FrameAt, IsPhysical, PhysicalToVirtual, Virtual, Index, Region, Here
<1>6. PagingTypeOK'
  BY <1>1, <1>4 DEF PagesInv, PagingTypeOK, TableT, EntryT
<1>7. CallShape' /\ Books'
  BY <1>1, <1>4, <1>5 DEF PagesInv, CallShape, Books
<1>8. Linked = memory /\ Linked' = memory'
  BY <1>1 DEF Linked
<1>9. Walking(T, R)'
  BY <1>1, <1>3, <1>5 DEF Owned, Walking
<1>10. AllRight(T, R)'
  BY <1>1, <1>3, <1>4, <1>5, <1>8 DEF Owned, AllRight
<1>11. Owned(T, R)'
  BY <1>1, <1>3, <1>4, <1>8, <1>9, <1>10 DEF Owned
<1> QED
  BY <1>6, <1>7, <1>11 DEF PagesInv

(* The page is what was asked for. *)
LEMMA WriteAddressKeeps == PagesInv /\ WriteAddress => PagesInv'
<1> SUFFICES ASSUME PagesInv, WriteAddress PROVE PagesInv'
  OBVIOUS
<1> PICK e : e = Entry(call.present, call.write, Physical)
  OBVIOUS
<1> PICK w : w = IF call.present THEN Entry(TRUE, call.write, Physical) ELSE NoPage
  OBVIOUS
<1>1. /\ at = "address" /\ at' = "flush" /\ level = 1
      /\ i < call.count /\ Here = Entry(call.present, call.write, 0)
      /\ UNCHANGED <<free, used, call, i, level, table, next, result>>
  BY DEF WriteAddress, walk, PagesInv, CallShape
<1>2. memory' = WriteHere(e) /\ wanted' = [wanted EXCEPT ![Virtual] = w]
  <2>1. Here.present = call.present /\ Here.write = call.write
    BY <1>1 DEF Entry
  <2> QED
    BY <2>1 DEF WriteAddress
<1>3. PICK T, R : Owned(T, R)
  BY DEF PagesInv
<1>4. call.present \in BOOLEAN /\ call.write \in BOOLEAN /\ Physical \in 0 .. HHDM_Offset - 1
  BY <1>1, Sizes DEF PagesInv, CallShape, PagingTypeOK, Physical
<1>5. e \in EntryT /\ w \in EntryT /\ e.present = call.present
  BY <1>4, TablesHold DEF Entry, EntryT
<1>6. e.present => w = e
  <2>1. e.present => call.present = TRUE
    BY <1>4, <1>5
  <2> QED
    BY <2>1
<1>7. ~e.present => w = NoPage
  BY <1>5
<1>8. /\ memory' \in [Frames -> TableT]
      /\ memory'[FrameAt(table)][Index(Virtual, 1)] = e
      /\ Tree(memory', T) /\ Labelled(memory', T, R)
      /\ \A v \in AllPages : v # Virtual /\ Right(memory, T, R, v, wanted[v]) =>
           Right(memory', T, R, v, wanted[v])
  BY <1>1, <1>2, <1>3, <1>5, LastLevel
<1>9. /\ FrameAt(table) \in T[1] /\ R[FrameAt(table)] = Region(Virtual, 1)
      /\ Virtual \in AllPages
  BY <1>1, <1>3, EntryThere
<1>10. Right(memory', T, R, Virtual, w)
  <2>1. \A f \in T[1] : R[f] = Region(Virtual, 1) => f = FrameAt(table)
    BY <1>8, <1>9, Sizes DEF Labelled
  <2> QED
    BY <1>6, <1>7, <1>8, <1>9, <2>1 DEF Right
<1>11. /\ wanted' \in [AllPages -> EntryT] /\ wanted'[Virtual] = w
       /\ \A v \in AllPages : v # Virtual => wanted'[v] = wanted[v]
  BY <1>2, <1>5, <1>9 DEF PagesInv, Books
<1>12. PagingTypeOK'
  BY <1>1, <1>8 DEF PagesInv, PagingTypeOK, TableT, EntryT
<1>13. CallShape' /\ Books'
  BY <1>1, <1>11 DEF PagesInv, CallShape, Books
<1>14. Linked = memory /\ Linked' = memory'
  BY <1>1 DEF Linked
<1>15. AllRight(T, R)'
  <2> SUFFICES ASSUME NEW v \in AllPages PROVE Right(memory', T, R, v, wanted'[v])
    BY <1>14 DEF AllRight
  <2>1. CASE v = Virtual
    BY <1>10, <1>11, <2>1
  <2>2. CASE v # Virtual
    <3>1. Right(memory, T, R, v, wanted[v])
      BY <1>3, <1>14, <2>2 DEF Owned, AllRight
    <3> QED
      BY <1>8, <1>11, <2>2, <3>1
  <2> QED
    BY <2>1, <2>2
<1>16. Owned(T, R)'
  BY <1>1, <1>3, <1>8, <1>14, <1>15 DEF Owned, Walking
<1> QED
  BY <1>12, <1>13, <1>16 DEF PagesInv

(* Every step keeps the invariant. *)
LEMMA NextPagesInv == PagesInv /\ [Next]_vars => PagesInv'
<1> SUFFICES ASSUME PagesInv, [Next]_vars PROVE PagesInv'
  OBVIOUS
<1>1. CASE (\E v \in Watched : MmuWalk(v)) \/ (\E t \in tlb : MmuEvict(t)) \/ UNCHANGED vars
  <2>1. UNCHANGED <<memory, free, used, at, call, i, walk, result, wanted>>
    BY <1>1 DEF MmuWalk, MmuEvict, vars, books
  <2> QED
    BY <2>1, MmuKeeps
<1> QED
  BY <1>1, CallKeeps, ReturnsKeep, StartPageKeeps, FlushPageKeeps, TakeFrameKeeps, GiveFrameKeeps,
     NextLevelKeeps, CreateKeeps, LinkKeeps, WriteFlagsKeeps, WriteAddressKeeps DEF Next, MapPages
-----------------------------------------------------------------------------
(* Links is what its definition says. *)
LinksFrom(f, l) ==
  {link \in (IF l = Levels THEN {Root} ELSE {Target(k) : k \in f[l + 1]}) \X Indices :
     memory[link[1]][link[2]].present}

(* A step of the recursion has the present entries of its level. *)
LEMMA LinksBelow ==
  ASSUME NEW T, Tree(memory, T), NEW f, NEW l \in 2 .. Levels,
         l # Levels => f[l + 1] = Present(memory, T[l + 1])
  PROVE  LinksFrom(f, l) = Present(memory, T[l])
<1>1. CASE l = Levels
  BY <1>1 DEF LinksFrom, Present, Tree
<1>2. CASE l # Levels
  <2>1. l + 1 \in 2 .. Levels /\ (l + 1) - 1 = l
    BY <1>2, Sizes
  <2>2. T[l] = Targets(memory, T[l + 1])
    BY <2>1 DEF Tree
  <2>3. {Target(k) : k \in f[l + 1]} = T[l]
    BY <1>2, <2>2 DEF Targets, Target
  <2> QED
    BY <1>2, <2>3 DEF LinksFrom, Present
<1> QED
  BY <1>1, <1>2

(* The links of a level are the present entries of its tables: there is one *)
(* function that satisfies the recursion.                                   *)
LEMMA LinksAre ==
  ASSUME NEW T, Tree(memory, T)
  PROVE  Links = [l \in 2 .. Levels |-> Present(memory, T[l])]
<1> DEFINE P == [l \in 2 .. Levels |-> Present(memory, T[l])]
<1>1. P = [l \in 2 .. Levels |-> LinksFrom(P, l)]
  <2>1. ASSUME NEW l \in 2 .. Levels PROVE LinksFrom(P, l) = Present(memory, T[l])
    <3>1. l # Levels => l + 1 \in 2 .. Levels
      BY Sizes
    <3> QED
      BY <3>1, LinksBelow
  <2> QED
    BY <2>1
<1>2. Links = [l \in 2 .. Levels |-> LinksFrom(Links, l)]
  <2>1. Links = CHOOSE f : f = [l \in 2 .. Levels |-> LinksFrom(f, l)]
    BY DEF Links, LinksFrom
  <2> HIDE DEF P
  <2> QED
    BY <1>1, <2>1
<1>3. \A l \in 2 .. Levels : Links[l] = Present(memory, T[l])
  <2> PICK S : S = {l \in 1 .. Levels : l = 1 \/ Links[l] = Present(memory, T[l])}
    OBVIOUS
  <2>1. ASSUME NEW l \in 1 .. Levels, l = Levels \/ l + 1 \in S PROVE l \in S
    <3>1. CASE l = 1
      BY <3>1
    <3>2. CASE l # 1
      <4>1. l \in 2 .. Levels /\ (l # Levels => Links[l + 1] = Present(memory, T[l + 1]))
        BY <2>1, <3>2, Sizes
      <4>2. Links[l] = LinksFrom(Links, l)
        BY <1>2, <4>1
      <4> QED
        BY <4>1, <4>2, LinksBelow
    <3> QED
      BY <3>1, <3>2
  <2>2. \A l \in 1 .. Levels : l \in S
    BY <2>1, Descend
  <2> QED
    BY <2>2, Sizes
<1> QED
  BY <1>2, <1>3

(* Nobody writes an address yet: memory is the tree. *)
LEMMA OwnedApart ==
  ASSUME PagesInv, at # "link"
  PROVE  /\ \A k, l \in AllLinks : k # l => Target(k) # Target(l)
         /\ {Target(l) : l \in AllLinks} = Frames \ ({0, Root} \cup free \cup used)
<1>1. PICK T, R : Owned(T, R)
  BY DEF PagesInv
<1>2. Tree(memory, T)
  BY <1>1 DEF Owned, Linked
<1>3. \A l \in 2 .. Levels : Links[l] = Present(memory, T[l])
  BY <1>2, LinksAre
<1>4. ASSUME NEW j \in AllLinks, NEW k \in AllLinks, Target(j) = Target(k) PROVE j = k
  <2>1. PICK l \in 2 .. Levels, n \in 2 .. Levels :
          j \in Present(memory, T[l]) /\ k \in Present(memory, T[n])
    BY <1>3 DEF AllLinks
  <2>2. Target(j) \in T[l - 1] /\ Target(k) \in T[n - 1]
    BY <1>2, <2>1 DEF Tree, Targets, Target
  <2>3. l = n
    <3>1. l - 1 \in 1 .. Levels /\ n - 1 \in 1 .. Levels
      BY Sizes
    <3>2. l - 1 = n - 1
      BY <1>2, <1>4, <2>2, <3>1 DEF Tree
    <3> QED
      BY <3>2
  <2> QED
    BY <1>2, <1>4, <2>1, <2>3 DEF Tree, Target
<1>5. {Target(k) : k \in AllLinks} = Tables(T)
  <2>1. ASSUME NEW k \in AllLinks PROVE Target(k) \in Tables(T)
    <3>1. PICK l \in 2 .. Levels : k \in Present(memory, T[l])
      BY <1>3 DEF AllLinks
    <3>2. l - 1 \in 1 .. Levels - 1 /\ Target(k) \in T[l - 1]
      BY <1>2, <3>1, Sizes DEF Tree, Targets, Target
    <3> QED
      BY <3>2 DEF Tables
  <2>2. ASSUME NEW f \in Tables(T) PROVE \E k \in AllLinks : f = Target(k)
    <3>1. PICK l \in 1 .. Levels - 1 : f \in T[l]
      BY DEF Tables
    <3>2. l + 1 \in 2 .. Levels /\ (l + 1) - 1 = l
      BY Sizes
    <3>3. f \in Targets(memory, T[l + 1])
      BY <1>2, <3>1, <3>2 DEF Tree
    <3> QED
      BY <1>3, <3>2, <3>3 DEF AllLinks, Targets, Target
  <2> QED
    BY <2>1, <2>2
<1> QED
  BY <1>1, <1>4, <1>5 DEF Owned
-----------------------------------------------------------------------------
(* The inductive invariant of MapPage: the tables are a tree at every step,  *)
(* also between the two writes of an entry (paging.cpp:59-177), and they say *)
(* of every page what was asked for it.                                      *)
THEOREM PagingInvariance == Spec => []PagesInv
<1> QED
  BY InitPagesInv, NextPagesInv, PTL DEF Spec

(* The tables own their frames and no frame is lost, for any number of       *)
(* levels, any calls and any frames (paging.cpp:137-177).                    *)
THEOREM TablesStayApart == Spec => []TablesApart
<1>1. PagesInv => TablesApart
  BY OwnedApart DEF PagesInv, TablesApart
<1> QED
  BY <1>1, PagingInvariance, PTL
-----------------------------------------------------------------------------
(* Translate is what its definition says. *)
WalkStep(f, v, l) ==
  IF l = Levels THEN memory[Root][Index(v, l)]
  ELSE LET up == f[l + 1] IN
       IF ~up.present THEN NoPage
       ELSE LET e == memory[up.address][Index(v, l)] IN
            IF e.present THEN Entry(TRUE, e.write /\ up.write, e.address) ELSE NoPage

Walk(v) == CHOOSE f : f = [l \in 1 .. Levels |-> WalkStep(f, v, l)]

(* The translation is the last entry of the walk, if it is present. *)
LEMMA TranslateIs ==
  ASSUME NEW v
  PROVE  Translate(v) = IF Walk(v)[1].present THEN Walk(v)[1] ELSE NoPage
BY DEF Translate, Walk, WalkStep

(* What the walk has at level l if m are the tables: the entry that the page *)
(* has there.                                                                *)
Found(m, T, R, v, l) ==
  IF l = Levels THEN m[Root][Index(v, l)]
  ELSE IF \E e : EntryOf(m, T, R, v, l, e) /\ e.present
       THEN CHOOSE e : EntryOf(m, T, R, v, l, e)
       ELSE NoPage

(* A page has one entry at a level. *)
LEMMA OneEntry ==
  ASSUME NEW m, NEW T, NEW R, Labelled(m, T, R), NEW v, NEW l \in 1 .. Levels,
         NEW d, NEW e, EntryOf(m, T, R, v, l, d), EntryOf(m, T, R, v, l, e)
  PROVE  d = e
BY DEF EntryOf, Labelled

(* What is found is the entry of the page, if one is present. *)
LEMMA FoundIs ==
  ASSUME NEW m, NEW T, NEW R, Tree(m, T), Labelled(m, T, R), NEW v \in AllPages,
         NEW l \in 1 .. Levels
  PROVE  /\ Found(m, T, R, v, l).present => EntryOf(m, T, R, v, l, Found(m, T, R, v, l))
         /\ \A e : EntryOf(m, T, R, v, l, e) /\ e.present => e = Found(m, T, R, v, l)
<1>1. CASE l = Levels
  <2>1. T[l] = {Root} /\ R[Root] = Region(v, l)
    BY <1>1, RegionEnds DEF Tree, Labelled
  <2> QED
    BY <1>1, <2>1 DEF Found, EntryOf
<1>2. CASE l # Levels
  <2>1. CASE \E e : EntryOf(m, T, R, v, l, e) /\ e.present
    <3>1. EntryOf(m, T, R, v, l, Found(m, T, R, v, l))
      BY <1>2, <2>1 DEF Found
    <3> QED
      BY <3>1, OneEntry
  <2>2. CASE ~\E e : EntryOf(m, T, R, v, l, e) /\ e.present
    BY <1>2, <2>2, TablesHold DEF Found
  <2> QED
    BY <2>1, <2>2
<1> QED
  BY <1>1, <1>2

(* The table of a page below the root has a present entry above it. *)
LEMMA EntryAbove ==
  ASSUME NEW m, NEW T, NEW R, Tree(m, T), Labelled(m, T, R), NEW v \in AllPages,
         NEW l \in 1 .. Levels, l # Levels, NEW g \in T[l], R[g] = Region(v, l)
  PROVE  \E u : EntryOf(m, T, R, v, l + 1, u) /\ u.present /\ u.address = g
<1>1. l + 1 \in 2 .. Levels /\ l + 1 \in 1 .. Levels /\ (l + 1) - 1 = l /\ v \in Nat
  BY Sizes, RegionEnds
<1>2. T[l] = Targets(m, T[l + 1])
  BY <1>1 DEF Tree
<1>3. PICK k \in Present(m, T[l + 1]) : g = m[k[1]][k[2]].address
  BY <1>2 DEF Targets
<1>4. R[g] = Radix * R[k[1]] + k[2]
  BY <1>1, <1>3 DEF Labelled
<1>5. k[1] \in T[l + 1] /\ k[1] \in Frames /\ k[2] \in Indices /\ m[k[1]][k[2]].present
  BY <1>1 DEF Present, Tree
<1>6. /\ Region(v, l + 1) \in Nat /\ Index(v, l + 1) \in Indices
      /\ Region(v, l) = Radix * Region(v, l + 1) + Index(v, l + 1)
  BY <1>1, RegionBelow
<1>7. R[k[1]] = Region(v, l + 1) /\ k[2] = Index(v, l + 1)
  <2>1. R[k[1]] \in Nat
    BY <1>5 DEF Labelled
  <2>2. Radix * R[k[1]] + k[2] = Radix * Region(v, l + 1) + Index(v, l + 1)
    BY <1>4, <1>6
  <2> QED
    BY <1>5, <1>6, <2>1, <2>2, OneLabel
<1> QED
  BY <1>3, <1>5, <1>7 DEF EntryOf

(* Memory is m where the page looks. *)
Agree(m, T, R, v) ==
  \A l \in 1 .. Levels : \A f \in T[l] :
    R[f] = Region(v, l) => memory[f][Index(v, l)] = m[f][Index(v, l)]

(* The step of the walk finds the entry, if the steps above it did. *)
LEMMA WalkBelow ==
  ASSUME NEW m \in [Frames -> TableT], NEW T, NEW R, Tree(m, T), Labelled(m, T, R),
         NEW v \in AllPages, Agree(m, T, R, v), NEW f, NEW l \in 1 .. Levels,
         l # Levels => f[l + 1] = Found(m, T, R, v, l + 1)
  PROVE  WalkStep(f, v, l) = Found(m, T, R, v, l)
<1>1. CASE l = Levels
  <2>1. Root \in T[l] /\ R[Root] = Region(v, l)
    BY <1>1, RegionEnds DEF Tree, Labelled
  <2>2. memory[Root][Index(v, l)] = m[Root][Index(v, l)]
    BY <2>1 DEF Agree
  <2> QED
    BY <1>1, <2>2 DEF WalkStep, Found
<1>2. CASE l # Levels
  <2>1. l + 1 \in 2 .. Levels /\ l + 1 \in 1 .. Levels /\ (l + 1) - 1 = l /\ v \in Nat
    BY <1>2, Sizes, RegionEnds
  <2> PICK up : up = f[l + 1]
    OBVIOUS
  <2>2. up = Found(m, T, R, v, l + 1)
    BY <1>2
  <2>3. CASE ~up.present
    <3>1. WalkStep(f, v, l) = NoPage
      BY <1>2, <2>3 DEF WalkStep
    <3>2. \A e : ~EntryOf(m, T, R, v, l, e)
      <4> SUFFICES ASSUME NEW g \in T[l], R[g] = Region(v, l) PROVE FALSE
        BY DEF EntryOf
      <4>1. PICK u : EntryOf(m, T, R, v, l + 1, u) /\ u.present
        BY <1>2, EntryAbove
      <4>2. u = up
        BY <2>1, <2>2, <4>1, FoundIs
      <4> QED
        BY <2>3, <4>1, <4>2
    <3> QED
      BY <1>2, <3>1, <3>2 DEF Found
  <2>4. CASE up.present
    <3>1. EntryOf(m, T, R, v, l + 1, up)
      BY <2>1, <2>2, <2>4, FoundIs
    <3>2. up.write = TRUE /\ up.address \in T[l] /\ R[up.address] = Region(v, l)
      <4>1. Leads(m, T, R)
        BY TargetBelow
      <4> QED
        BY <2>1, <2>4, <3>1, <4>1 DEF Leads
    <3> PICK e : e = m[up.address][Index(v, l)]
      OBVIOUS
    <3>8. e = memory[up.address][Index(v, l)]
      BY <3>2 DEF Agree
    <3>3. EntryOf(m, T, R, v, l, e)
      BY <3>2 DEF EntryOf
    <3>4. e \in EntryT
      <4>1. up.address \in Frames /\ Index(v, l) \in Indices
        BY <2>1, <3>2, RegionBelow DEF Tree
      <4> QED
        BY <4>1 DEF TableT
    <3>5. WalkStep(f, v, l) =
            IF e.present THEN Entry(TRUE, e.write /\ up.write, e.address) ELSE NoPage
      BY <1>2, <2>4, <3>8 DEF WalkStep
    <3>6. CASE e.present
      <4>1. e = Found(m, T, R, v, l)
        BY <3>3, <3>6, FoundIs
      <4>2. e = Entry(TRUE, e.write /\ up.write, e.address)
        <5>1. e.present = TRUE /\ (e.write /\ up.write) = e.write
          BY <3>2, <3>4, <3>6 DEF EntryT
        <5> QED
          BY <3>4, <5>1 DEF Entry, EntryT
      <4> QED
        BY <3>5, <3>6, <4>1, <4>2
    <3>7. CASE ~e.present
      <4>1. ~\E d : EntryOf(m, T, R, v, l, d) /\ d.present
        BY <3>3, <3>7, OneEntry
      <4> QED
        BY <1>2, <3>5, <3>7, <4>1 DEF Found
    <3> QED
      BY <3>6, <3>7
  <2> QED
    BY <2>3, <2>4
<1> QED
  BY <1>1, <1>2

(* There is one function that satisfies the recursion of the walk. *)
LEMMA WalkIs ==
  ASSUME NEW m \in [Frames -> TableT], NEW T, NEW R, Tree(m, T), Labelled(m, T, R),
         NEW v \in AllPages, Agree(m, T, R, v)
  PROVE  \A l \in 1 .. Levels : Walk(v)[l] = Found(m, T, R, v, l)
<1> DEFINE F == [l \in 1 .. Levels |-> Found(m, T, R, v, l)]
<1>1. F = [l \in 1 .. Levels |-> WalkStep(F, v, l)]
  <2>1. ASSUME NEW l \in 1 .. Levels PROVE WalkStep(F, v, l) = Found(m, T, R, v, l)
    <3>1. l # Levels => F[l + 1] = Found(m, T, R, v, l + 1)
      BY Sizes
    <3> HIDE DEF F
    <3> QED
      BY <3>1, WalkBelow
  <2> QED
    BY <2>1
<1> HIDE DEF F
<1>2. Walk(v) = [l \in 1 .. Levels |-> WalkStep(Walk(v), v, l)]
  BY <1>1 DEF Walk
<1> PICK f : f = Walk(v)
  OBVIOUS
<1> PICK S : S = {l \in 1 .. Levels : f[l] = Found(m, T, R, v, l)}
  OBVIOUS
<1>3. ASSUME NEW l \in 1 .. Levels, l = Levels \/ l + 1 \in S PROVE l \in S
  <2>1. l # Levels => f[l + 1] = Found(m, T, R, v, l + 1)
    BY <1>3
  <2>2. WalkStep(f, v, l) = Found(m, T, R, v, l)
    BY <2>1, WalkBelow
  <2>3. f[l] = WalkStep(f, v, l)
    BY <1>2
  <2> QED
    BY <2>2, <2>3
<1>4. \A l \in 1 .. Levels : l \in S
  BY <1>3, Descend
<1> QED
  BY <1>4

(* A page translates to what its entry of the last level says. *)
LEMMA RightTranslates ==
  ASSUME NEW m \in [Frames -> TableT], NEW T, NEW R, Tree(m, T), Labelled(m, T, R),
         NEW v \in AllPages, Agree(m, T, R, v), NEW w, Right(m, T, R, v, w)
  PROVE  Translate(v) = w
<1>1. 1 \in 1 .. Levels
  BY Sizes
<1> PICK e : e = Found(m, T, R, v, 1)
  OBVIOUS
<1>2. Translate(v) = IF e.present THEN e ELSE NoPage
  BY <1>1, WalkIs, TranslateIs
<1>3. /\ e.present => EntryOf(m, T, R, v, 1, e)
      /\ \A d : EntryOf(m, T, R, v, 1, d) /\ d.present => d = e
  BY <1>1, FoundIs
<1>4. CASE e.present
  <2>1. w = e
    BY <1>3, <1>4 DEF Right, EntryOf
  <2> QED
    BY <1>2, <1>4, <2>1
<1>5. CASE ~e.present
  <2>1. w = NoPage
    BY <1>3, <1>5 DEF Right, EntryOf
  <2> QED
    BY <1>2, <1>5, <2>1
<1> QED
  BY <1>4, <1>5

(* A page that is not being written translates to what was asked for it. *)
LEMMA MapsNow == PagesInv => MapsExactly
<1> SUFFICES ASSUME PagesInv, at # "link", NEW v \in AllPages
             PROVE  Translate(v) = wanted[v] \/ (at = "address" /\ v = Virtual)
  BY DEF MapsExactly
<1>1. memory \in [Frames -> TableT]
  BY DEF PagesInv, PagingTypeOK, TableT, EntryT
<1>2. PICK T, R : Owned(T, R)
  BY DEF PagesInv
<1>3. /\ Tree(memory, T) /\ Labelled(memory, T, R)
      /\ Right(memory, T, R, v, wanted[v]) \/ (at = "address" /\ v = Virtual)
  BY <1>2 DEF Owned, Linked, AllRight
<1>4. Agree(memory, T, R, v)
  BY DEF Agree
<1> QED
  BY <1>1, <1>3, <1>4, RightTranslates

(* Every address of the space translates to what was last asked for it, and  *)
(* an address nobody mapped does not translate, for any number of levels,    *)
(* any calls and any frames (paging.cpp:59-135).                             *)
THEOREM MapsAreExact == Spec => []MapsExactly
<1> QED
  BY MapsNow, PagingInvariance, PTL
-----------------------------------------------------------------------------
(* A page with a present entry in a last table has one at every level. *)
LEMMA Climb ==
  ASSUME NEW m, NEW T, NEW R, Tree(m, T), Labelled(m, T, R), NEW v \in AllPages,
         \E e : EntryOf(m, T, R, v, 1, e) /\ e.present
  PROVE  \A l \in 1 .. Levels : \E e : EntryOf(m, T, R, v, l, e) /\ e.present
<1> PICK D : D = {l \in 1 .. Levels : ~\E e : EntryOf(m, T, R, v, l, e) /\ e.present}
  OBVIOUS
<1>1. SUFFICES ASSUME D # {} PROVE FALSE
  BY <1>1
<1>2. PICK l \in D : \A k \in D : l <= k
  <2>1. D \subseteq Nat
    OBVIOUS
  <2>2. Min(D) \in D /\ \A k \in D : Min(D) <= k
    BY <1>1, <2>1, LeastElement
  <2> QED
    BY <2>2
<1>3. l \in 1 .. Levels /\ l # 1 /\ l - 1 \notin D
  BY <1>2
<1>4. l - 1 \in 1 .. Levels /\ l - 1 # Levels /\ (l - 1) + 1 = l
  BY <1>3, Sizes
<1>5. PICK g \in T[l - 1] : R[g] = Region(v, l - 1)
  BY <1>3, <1>4 DEF EntryOf
<1>6. \E u : EntryOf(m, T, R, v, (l - 1) + 1, u) /\ u.present /\ u.address = g
  BY <1>4, <1>5, EntryAbove
<1> QED
  BY <1>2, <1>3, <1>4, <1>6

(* While an entry is present and has no address yet, a page that translates  *)
(* does not pass it: the new table is clear.                                 *)
LEMMA LinkWindow ==
  ASSUME PagesInv, at = "link", NEW T, NEW R, Owned(T, R), NEW v \in AllPages,
         NEW w, w.present, Right(Linked, T, R, v, w)
  PROVE  Linked \in [Frames -> TableT] /\ Agree(Linked, T, R, v)
<1> PICK m : m = Linked
  OBVIOUS
<1> PICK t : t = FrameAt(table)
  OBVIOUS
<1> PICK x : x = Index(Virtual, level)
  OBVIOUS
<1> PICK g : g = FrameAt(next)
  OBVIOUS
<1> PICK e : e = [Here EXCEPT !.address = g]
  OBVIOUS
<1>1. /\ Levels \in Nat /\ level \in 2 .. Levels /\ level - 1 \in 1 .. Levels
      /\ T \in [1 .. Levels -> SUBSET Frames] /\ t \in T[level] /\ t \in Frames
      /\ x \in Indices /\ memory \in [Frames -> TableT] /\ level \in 1 .. Levels
  <2>1. /\ Levels \in Nat /\ level \in 1 .. Levels /\ T \in [1 .. Levels -> SUBSET Frames]
        /\ FrameAt(table) \in T[level] /\ FrameAt(table) \in Frames
        /\ Index(Virtual, level) \in Indices /\ memory \in [Frames -> TableT]
    BY EntryThere
  <2>2. level >= 2
    BY DEF PagesInv, CallShape
  <2>3. level \in 2 .. Levels /\ level - 1 \in 1 .. Levels
    BY <2>1, <2>2
  <2> QED
    BY <2>1, <2>3
<1>2. e \in EntryT /\ e.present /\ e.address = g /\ g \in Frames
  <2>1. Here \in EntryT /\ Here.present /\ g \in Frames
    BY EntryThere DEF PagesInv, CallShape
  <2> QED
    BY <2>1, Sizes DEF EntryT
<1>3. m = [memory EXCEPT ![t][x] = e]
  BY DEF Linked, WriteHere
<1>4. /\ m \in [Frames -> TableT] /\ m[t][x] = e
      /\ \A f \in Frames, y \in Indices : f # t \/ y # x => m[f][y] = memory[f][y]
  BY <1>1, <1>2, <1>3 DEF TableT
<1>5. Tree(m, T) /\ Labelled(m, T, R) /\ v \in Nat
  BY RegionEnds DEF Owned
<1>6. m[g] = ZeroTable
  <2>1. memory[g] = ZeroTable /\ memory[t][x].present
    BY DEF PagesInv, CallShape, Here
  <2>2. g # t
    BY <1>1, <2>1 DEF ZeroTable, Entry
  <2> QED
    BY <1>2, <1>3, <2>1, <2>2
<1>7. \A l \in 1 .. Levels : \E d : EntryOf(m, T, R, v, l, d) /\ d.present
  <2>1. Right(m, T, R, v, w)
    OBVIOUS
  <2>2. \E d : EntryOf(m, T, R, v, 1, d) /\ d.present
    BY <2>1, TablesHold DEF Right, EntryOf
  <2> QED
    BY <1>5, <2>2, Climb
<1>8. ~(R[t] = Region(v, level) /\ x = Index(v, level))
  <2> SUFFICES ASSUME R[t] = Region(v, level), x = Index(v, level) PROVE FALSE
    OBVIOUS
  <2>1. EntryOf(m, T, R, v, level, e)
    BY <1>1, <1>4 DEF EntryOf
  <2>2. Leads(m, T, R)
    BY <1>5, TargetBelow
  <2>3. g \in T[level - 1] /\ R[g] = Region(v, level - 1)
    <3>1. level \in 2 .. Levels /\ v \in Nat /\ e.present /\ e.address = g
      BY <1>1, <1>2, <1>5
    <3> QED
      BY <2>1, <2>2, <3>1, Zenon DEF Leads
  <2>4. EntryOf(m, T, R, v, level - 1, m[g][Index(v, level - 1)])
    BY <2>3 DEF EntryOf
  <2>5. m[g][Index(v, level - 1)].present
    BY <1>1, <1>5, <1>7, <2>4, OneEntry
  <2>6. Index(v, level - 1) \in Indices
    BY <1>1, <1>5, RegionBelow
  <2> QED
    BY <1>6, <2>5, <2>6 DEF ZeroTable, Entry
<1>9. ASSUME NEW l \in 1 .. Levels, NEW f \in T[l], R[f] = Region(v, l)
      PROVE  memory[f][Index(v, l)] = m[f][Index(v, l)]
  <2>1. Index(v, l) \in Indices /\ f \in Frames
    BY <1>1, <1>5, RegionBelow
  <2>2. f = t => l = level
    BY <1>1, <1>5 DEF Tree
  <2>3. f # t \/ Index(v, l) # x
    BY <1>8, <1>9, <2>2
  <2> QED
    BY <1>4, <2>1, <2>3
<1>10. Agree(m, T, R, v)
  BY <1>9 DEF Agree
<1> QED
  BY <1>4, <1>10

(* A page that translates does so with or without the address that Link is   *)
(* about to write.                                                           *)
LEMMA KeptNow ==
  ASSUME PagesInv, at # "address", NEW v \in AllPages, wanted[v].present
  PROVE  Translate(v) = wanted[v]
<1>1. CASE at # "link"
  BY <1>1, MapsNow DEF MapsExactly
<1>2. CASE at = "link"
  <2>1. PICK T, R : Owned(T, R)
    BY DEF PagesInv
  <2>2. Tree(Linked, T) /\ Labelled(Linked, T, R) /\ Right(Linked, T, R, v, wanted[v])
    BY <2>1 DEF Owned, AllRight
  <2>3. Linked \in [Frames -> TableT] /\ Agree(Linked, T, R, v)
    BY <1>2, <2>1, <2>2, LinkWindow
  <2> QED
    BY <2>2, <2>3, RightTranslates
<1> QED
  BY <1>1, <1>2
-----------------------------------------------------------------------------
(* What the processor remembers was asked for, but for what it found in the  *)
(* window of Link and for the page that is being written.                    *)
TlbInv ==
  \A t \in tlb :
    \/ t.torn
    \/ t.va \in AllPages /\ t.page.present /\ t.page = wanted[t.va]
    \/ at \in {"address", "flush"} /\ t.va = Virtual

(* The processor looks up an address. *)
LEMMA MmuWalkTlb ==
  ASSUME PagesInv, TlbInv, NEW v \in Watched, MmuWalk(v)
  PROVE  TlbInv'
<1>1. /\ Translate(v).present /\ UNCHANGED <<at, call, i, wanted>>
      /\ tlb' = tlb \cup {[va |-> v, page |-> Translate(v), torn |-> at = "link"]}
  BY DEF MmuWalk, books
<1>2. v \in AllPages /\ Virtual' = Virtual
  BY <1>1, PagingAssumption DEF AllPages, Virtual
<1> PICK n : n = [va |-> v, page |-> Translate(v), torn |-> at = "link"]
  OBVIOUS
<1>3. n.va = v /\ n.page = Translate(v) /\ (at = "link" => n.torn)
  OBVIOUS
<1>4. at # "link" => Translate(v) = wanted[v] \/ (at = "address" /\ v = Virtual)
  BY <1>2, MapsNow DEF MapsExactly
<1>5. \/ n.torn
      \/ n.va \in AllPages /\ n.page.present /\ n.page = wanted[n.va]
      \/ at \in {"address", "flush"} /\ n.va = Virtual
  BY <1>1, <1>2, <1>3, <1>4
<1>6. tlb' = tlb \cup {n}
  BY <1>1
<1> QED
  BY <1>1, <1>2, <1>5, <1>6 DEF TlbInv

(* Every step keeps that. *)
LEMMA NextTlb == PagesInv /\ TlbInv /\ [Next]_vars => TlbInv'
<1> SUFFICES ASSUME PagesInv, TlbInv, [Next]_vars PROVE TlbInv'
  OBVIOUS
<1>1. CASE (\E t \in tlb : MmuEvict(t)) \/ UNCHANGED vars
  <2>1. tlb' \subseteq tlb /\ UNCHANGED <<at, call, i, wanted>>
    BY <1>1 DEF MmuEvict, vars, books
  <2>2. Virtual' = Virtual
    BY <2>1 DEF Virtual
  <2> QED
    BY <2>1, <2>2 DEF TlbInv
<1>2. CASE Call \/ PagesMapped \/ StartPage \/ NextLevel \/ Create \/ Link \/ OutOfFrames
           \/ TakeFrame \/ (\E f \in used : GiveFrame(f))
  <2>1. at \notin {"address", "flush"} /\ UNCHANGED <<tlb, wanted>>
    BY <1>2 DEF Call, CallMapPages, PagesMapped, OutOfFrames, Return, StartPage, NextLevel, Create,
         Link, TakeFrame, GiveFrame, books
  <2> QED
    BY <2>1 DEF TlbInv
<1>3. CASE WriteFlags
  <2>1. at = "next" /\ UNCHANGED <<tlb, wanted>>
    BY <1>3 DEF WriteFlags, books
  <2> QED
    BY <2>1 DEF TlbInv
<1>4. CASE WriteAddress
  <2>1. at = "address" /\ at' = "flush" /\ UNCHANGED <<tlb, call, i>>
    BY <1>4 DEF WriteAddress
  <2>2. \A v \in AllPages : v # Virtual => wanted'[v] = wanted[v]
    BY <1>4 DEF WriteAddress, PagesInv, Books
  <2>3. Virtual' = Virtual
    BY <2>1 DEF Virtual
  <2> QED
    BY <2>1, <2>2, <2>3 DEF TlbInv
<1>5. CASE FlushPage
  <2>1. at = "flush" /\ at' = "page" /\ tlb' = {t \in tlb : t.va # Virtual} /\ wanted' = wanted
    BY <1>5 DEF FlushPage, books
  <2> QED
    BY <2>1 DEF TlbInv
<1> QED
  BY <1>1, <1>2, <1>3, <1>4, <1>5, MmuWalkTlb DEF Next, MapPages

(* The processor uses no stale translation but one it found in the window    *)
(* of Link, for any number of levels, any calls and any watched addresses    *)
(* (paging.cpp:111, 172-174).                                                *)
THEOREM StaleMeansTorn == Spec => []StaleOnlyIfTorn
<1>1. Init => TlbInv
  BY DEF Init, TlbInv
<1>2. PagesInv /\ TlbInv => StaleOnlyIfTorn
  BY KeptNow DEF TlbInv, StaleOnlyIfTorn
<1>3. Spec => []TlbInv
  BY <1>1, NextTlb, PagingInvariance, PTL DEF Spec
<1> QED
  BY <1>2, <1>3, PagingInvariance, PTL
-----------------------------------------------------------------------------
(* Frames a call may have made into tables for the page it is at: one for   *)
(* every level it has left behind.                                          *)
MadeHere ==
  CASE at = "next" -> Levels - level
    [] at = "link" -> Levels - level + 1
    [] at \in {"address", "flush"} -> Levels - 1
    [] OTHER -> 0

(* What the call asked for its k-th page. *)
Asked(k) == IF call.present THEN Entry(TRUE, call.write, call.pa + k) ELSE NoPage

(* The pages before the one the call is at are mapped as it asked, and it    *)
(* has made no more tables than it has left levels behind.  A call that      *)
(* failed leaves that as it was.                                             *)
PrefixInv ==
  /\ at # "idle" \/ ~result =>
       /\ call.va + call.count <= Radix ^ Levels
       /\ \A k \in 0 .. i - 1 : wanted[call.va + k] = Asked(k)
  /\ at = "flush" => wanted[Virtual] = Asked(i)
  /\ at # "idle" => call.room \in Nat /\ call.room <= Cardinality(free) + (Levels - 1) * i + MadeHere
  /\ at = "idle" /\ ~result => i < call.count /\ call.room < (Levels - 1) * (i + 1)

(* Frames can be counted. *)
LEMMA Countable ==
  ASSUME NEW S, S \subseteq Frames
  PROVE  /\ Cardinality(S) \in Nat
         /\ S = {} => Cardinality(S) = 0
         /\ S # {} => Min(S) \in S /\ Cardinality(S \ {Min(S)}) = Cardinality(S) - 1
<1>1. \A f \in S : f \in Nat /\ f <= HHDM_Offset
  BY Sizes
<1>2. IsFiniteSet(S)
  <2>1. S \in SUBSET Nat /\ HHDM_Offset \in Nat /\ \A f \in S : f <= HHDM_Offset
    BY <1>1, Sizes
  <2> QED
    BY <2>1, FS_BoundedSetOfNaturals
<1>3. S # {} => Min(S) \in S
  BY <1>1, LeastElement
<1> QED
  BY <1>2, <1>3, FS_CardinalityType, FS_EmptySet, FS_RemoveElement

(* A page takes at most a table for each level but the root. *)
LEMMA OneMorePage ==
  ASSUME NEW k \in Nat
  PROVE  /\ Levels \in Nat \ {0} /\ (Levels - 1) * k \in Nat
         /\ (Levels - 1) * (k + 1) = (Levels - 1) * k + (Levels - 1)
<1>1. Levels - 1 \in Nat /\ Levels \in Nat \ {0}
  BY Sizes
<1> QED
  BY <1>1

(* The first page of a call. *)
LEMMA CallPrefix == PagesInv /\ Call => PrefixInv'
<1> SUFFICES ASSUME PagesInv, NEW v \in VAs, NEW p \in PAs, NEW n \in Counts, NEW f \in Flags,
                    CallMapPages(v, p, n, f[1], f[2])
             PROVE  PrefixInv'
  BY DEF Call
<1>1. /\ at' = "page" /\ i' = 0 /\ UNCHANGED free
      /\ call'.va = v /\ call'.count = n /\ call'.room = Cardinality(free)
  BY DEF CallMapPages
<1>2. v + n <= Radix ^ Levels
  BY PagingAssumption
<1>3. Cardinality(free) \in Nat
  BY Countable DEF PagesInv, PagingTypeOK
<1>4. (Levels - 1) * i' = 0
  <2>1. \A x \in Nat : x * 0 = 0
    OBVIOUS
  <2>2. Levels - 1 \in Nat
    BY Sizes
  <2> QED
    BY <1>1, <2>1, <2>2
<1>5. MadeHere' = 0
  BY <1>1 DEF MadeHere
<1> QED
  BY <1>1, <1>2, <1>3, <1>4, <1>5 DEF PrefixInv

(* The steps that return. *)
LEMMA ReturnsPrefix == PagesInv /\ PrefixInv /\ (PagesMapped \/ OutOfFrames) => PrefixInv'
<1> SUFFICES ASSUME PagesInv, PrefixInv, PagesMapped \/ OutOfFrames PROVE PrefixInv'
  OBVIOUS
<1>1. CASE PagesMapped
  <2>1. at' = "idle" /\ result' = TRUE
    BY <1>1 DEF PagesMapped, Return
  <2> QED
    BY <2>1 DEF PrefixInv
<1>2. CASE OutOfFrames
  <2>1. /\ at = "next" /\ at' = "idle" /\ level > 1 /\ free = {}
        /\ UNCHANGED <<call, i, wanted>>
    BY <1>2 DEF OutOfFrames, Return
  <2>2. i \in Nat /\ level \in Nat /\ i < call.count /\ free \subseteq Frames
    BY <2>1, Sizes DEF PagesInv, PagingTypeOK, CallShape
  <2>3. call.room \in Nat /\ call.room <= 0 + (Levels - 1) * i + (Levels - level)
    BY <2>1, <2>2, Countable DEF PrefixInv, MadeHere
  <2>4. call.room < (Levels - 1) * (i + 1)
    <3>1. /\ (Levels - 1) * (i + 1) = (Levels - 1) * i + (Levels - 1) /\ (Levels - 1) * i \in Nat
           /\ Levels \in Nat \ {0}
      BY <2>2, OneMorePage
    <3> PICK spent \in Nat, more \in Nat : spent = (Levels - 1) * i /\ more = (Levels - 1) * (i + 1)
      BY <3>1
    <3>2. more = spent + (Levels - 1) /\ call.room \in Nat /\ call.room <= 0 + spent + (Levels - level)
      BY <2>3, <3>1
    <3>3. call.room < more
      BY <2>1, <2>2, <3>1, <3>2
    <3> QED
      BY <3>3
  <2> QED
    BY <2>1, <2>2, <2>4 DEF PrefixInv, Asked
<1> QED
  BY <1>1, <1>2

(* What a step of the walk spends is a level left behind. *)
LEMMA WalkPrefix ==
  PagesInv /\ PrefixInv /\ (StartPage \/ NextLevel \/ Create \/ Link \/ WriteFlags) => PrefixInv'
<1> SUFFICES ASSUME PagesInv, PrefixInv, StartPage \/ NextLevel \/ Create \/ Link \/ WriteFlags
             PROVE  PrefixInv'
  OBVIOUS
<1>1. UNCHANGED <<call, i, wanted>> /\ at # "idle" /\ at' \notin {"idle", "flush"}
  BY DEF StartPage, NextLevel, Create, Link, WriteFlags, books
<1>2. /\ i \in Nat /\ level \in 0 .. Levels /\ Levels \in Nat \ {0} /\ free \subseteq Frames
      /\ (Levels - 1) * i \in Nat /\ Cardinality(free) \in Nat
      /\ at \in {"next", "link", "address"} => level >= 1
      /\ at = "link" => level >= 2
  <2>1. /\ i \in Nat /\ level \in 0 .. Levels /\ Levels \in Nat \ {0} /\ free \subseteq Frames
        /\ at \in {"next", "link", "address"} => level >= 1
        /\ at = "link" => level >= 2
    BY Sizes DEF PagesInv, PagingTypeOK, CallShape
  <2>2. (Levels - 1) * i \in Nat
    BY <2>1, OneMorePage
  <2>3. Cardinality(free) \in Nat
    BY <2>1, Countable
  <2> QED
    BY <2>1, <2>2, <2>3
<1>3. \/ Cardinality(free') + MadeHere' = Cardinality(free) + MadeHere
      \/ UNCHANGED free /\ MadeHere <= MadeHere'
  <2>1. CASE StartPage
    <3>1. at = "page" /\ at' = "next" /\ level' = Levels /\ UNCHANGED free
      BY <2>1 DEF StartPage
    <3> QED
      BY <1>2, <3>1 DEF MadeHere
  <2>2. CASE NextLevel
    <3>1. at = "next" /\ at' = "next" /\ level' = level - 1 /\ UNCHANGED free
      BY <2>2 DEF NextLevel
    <3> QED
      BY <1>2, <3>1 DEF MadeHere
  <2>3. CASE Create
    <3>1. at = "next" /\ at' = "link" /\ level' = level /\ free # {} /\ free' = free \ {Min(free)}
      BY <2>3 DEF Create
    <3>2. Cardinality(free') = Cardinality(free) - 1
      BY <1>2, <3>1, Countable
    <3>3. MadeHere = Levels - level /\ MadeHere' = Levels - level + 1
      BY <3>1 DEF MadeHere
    <3> QED
      BY <1>2, <3>2, <3>3
  <2>4. CASE Link
    <3>1. at = "link" /\ at' = "next" /\ level' = level - 1 /\ UNCHANGED free
      BY <2>4 DEF Link
    <3> QED
      BY <1>2, <3>1 DEF MadeHere
  <2>5. CASE WriteFlags
    <3>1. at = "next" /\ at' = "address" /\ level = 1 /\ UNCHANGED free
      BY <2>5 DEF WriteFlags
    <3> QED
      BY <1>2, <3>1 DEF MadeHere
  <2> QED
    BY <2>1, <2>2, <2>3, <2>4, <2>5
<1>4. MadeHere \in Int /\ MadeHere' \in Int /\ Cardinality(free') \in Nat
  <2>3. level' = level \/ level' = level - 1 \/ level' = Levels
    BY DEF StartPage, NextLevel, Create, Link, WriteFlags, walk
  <2>1. level' \in Int
    BY <1>2, <2>3
  <2>2. free' \subseteq Frames
    BY <1>2 DEF StartPage, NextLevel, Create, Link, WriteFlags
  <2> QED
    <3>1. Cardinality(free') \in Nat
      BY <2>2, Countable
    <3> QED
      BY <1>2, <2>1, <3>1 DEF MadeHere
<1>5. call.room \in Nat /\ call.room <= Cardinality(free) + (Levels - 1) * i + MadeHere
  BY <1>1 DEF PrefixInv
<1>6. call.room <= Cardinality(free') + (Levels - 1) * i + MadeHere'
  <2> PICK spent \in Nat : spent = (Levels - 1) * i
    BY <1>2
  <2> QED
    BY <1>2, <1>3, <1>4, <1>5
<1> QED
  BY <1>1, <1>5, <1>6 DEF PrefixInv, Asked

(* The page is mapped as it was asked for, and no page before it is the     *)
(* same.                                                                    *)
LEMMA WritePrefix == PagesInv /\ PrefixInv /\ WriteAddress => PrefixInv'
<1> SUFFICES ASSUME PagesInv, PrefixInv, WriteAddress PROVE PrefixInv'
  OBVIOUS
<1>1. /\ at = "address" /\ at' = "flush" /\ UNCHANGED <<free, call, i, level>>
      /\ wanted' = [wanted EXCEPT ![Virtual] = Asked(i)]
  BY DEF WriteAddress, walk, Asked, Physical
<1>2. /\ i \in Nat /\ call.va \in Nat /\ call.count \in Nat /\ i < call.count
      /\ call.va + call.count <= Radix ^ Levels /\ wanted \in [AllPages -> EntryT]
      /\ level = 1 /\ Levels \in Nat /\ Radix ^ Levels \in Nat
  BY <1>1, Sizes DEF PagesInv, PagingTypeOK, CallShape, Books
<1>3. Virtual = call.va + i /\ Virtual' = Virtual /\ Virtual \in AllPages
  BY <1>1, <1>2 DEF Virtual, AllPages
<1>4. wanted'[Virtual'] = Asked(i)
  BY <1>1, <1>2, <1>3
<1>5. ASSUME NEW k \in 0 .. i - 1 PROVE wanted'[call.va + k] = Asked(k)
  <2>1. call.va + k # Virtual /\ call.va + k \in AllPages
    <3>1. k \in Nat /\ k < i
      BY <1>2
    <3>2. call.va + k # call.va + i /\ call.va + k \in 0 .. Radix ^ Levels - 1
      BY <1>2, <3>1
    <3> QED
      BY <1>3, <3>2 DEF AllPages
  <2>2. wanted'[call.va + k] = wanted[call.va + k]
    BY <1>1, <1>2, <2>1
  <2> QED
    BY <1>1, <2>2 DEF PrefixInv
<1>6. \A k : Asked(k)' = Asked(k)
  BY <1>1 DEF Asked
<1>7. MadeHere' = MadeHere
  BY <1>1, <1>2 DEF MadeHere
<1> QED
  BY <1>1, <1>2, <1>4, <1>5, <1>6, <1>7 DEF PrefixInv

(* The next page of the call. *)
LEMMA FlushPrefix == PagesInv /\ PrefixInv /\ FlushPage => PrefixInv'
<1> SUFFICES ASSUME PagesInv, PrefixInv, FlushPage PROVE PrefixInv'
  OBVIOUS
<1>1. at = "flush" /\ at' = "page" /\ i' = i + 1 /\ UNCHANGED <<free, call, wanted>>
  BY DEF FlushPage, books
<1>2. i \in Nat /\ call.va \in Nat /\ Levels \in Nat \ {0} /\ free \subseteq Frames
  BY Sizes DEF PagesInv, PagingTypeOK, CallShape
<1>3. \A k \in 0 .. i' - 1 : wanted'[call'.va + k] = Asked(k)'
  <2>1. \A k : Asked(k)' = Asked(k)
    BY <1>1 DEF Asked
  <2>2. \A k \in 0 .. i' - 1 : k \in 0 .. i - 1 \/ k = i
    BY <1>1, <1>2
  <2>3. wanted[call.va + i] = Asked(i)
    BY <1>1 DEF PrefixInv, Virtual
  <2> QED
    BY <1>1, <2>1, <2>2, <2>3 DEF PrefixInv
<1>4. MadeHere = Levels - 1 /\ MadeHere' = 0
  BY <1>1 DEF MadeHere
<1>5. call'.room \in Nat /\ call'.room <= Cardinality(free') + (Levels - 1) * i' + MadeHere'
  <2>1. /\ (Levels - 1) * (i + 1) = (Levels - 1) * i + (Levels - 1) /\ (Levels - 1) * i \in Nat
        /\ Cardinality(free) \in Nat
    BY <1>2, OneMorePage, Countable
  <2>2. call.room \in Nat /\ call.room <= Cardinality(free) + (Levels - 1) * i + (Levels - 1)
    BY <1>1, <1>4 DEF PrefixInv
  <2> PICK spent \in Nat, more \in Nat : spent = (Levels - 1) * i /\ more = (Levels - 1) * (i + 1)
    BY <1>2, <2>1
  <2>3. call.room <= Cardinality(free) + more + 0
    BY <1>2, <2>1, <2>2
  <2> QED
    BY <1>1, <1>4, <2>2, <2>3
<1> QED
  BY <1>1, <1>3, <1>5 DEF PrefixInv

(* Every step keeps it. *)
LEMMA NextPrefix == PagesInv /\ PrefixInv /\ [Next]_vars => PrefixInv'
<1> SUFFICES ASSUME PagesInv, PrefixInv, [Next]_vars PROVE PrefixInv'
  OBVIOUS
<1>1. CASE TakeFrame \/ (\E f \in used : GiveFrame(f))
  <2>1. at = "idle" /\ UNCHANGED <<at, call, i, result, wanted>>
    BY <1>1 DEF TakeFrame, GiveFrame, books
  <2> QED
    BY <2>1 DEF PrefixInv, Asked
<1>2. CASE (\E v \in Watched : MmuWalk(v)) \/ (\E t \in tlb : MmuEvict(t)) \/ UNCHANGED vars
  <2>1. UNCHANGED <<free, at, call, i, level, result, wanted>>
    BY <1>2 DEF MmuWalk, MmuEvict, vars, walk, books
  <2>2. MadeHere' = MadeHere /\ Virtual' = Virtual /\ \A k : Asked(k)' = Asked(k)
    BY <2>1 DEF MadeHere, Virtual, Asked
  <2> QED
    BY <2>1, <2>2 DEF PrefixInv
<1> QED
  BY <1>1, <1>2, CallPrefix, ReturnsPrefix, WalkPrefix, WritePrefix, FlushPrefix DEF Next, MapPages

(* A call that fails has mapped the pages before the one it stopped at, and  *)
(* fails only for lack of frames: fewer were free than one for every level   *)
(* and page, for any number of levels, any calls and any frames              *)
(* (paging.cpp:126-134, 157-161).                                            *)
THEOREM FailuresMapPrefix == Spec => []FailureIsPrefix
<1>1. Init => PrefixInv
  BY DEF Init, PrefixInv
<1>2. PagesInv /\ PrefixInv => FailureIsPrefix
  <2> SUFFICES ASSUME PagesInv, PrefixInv, at = "idle", ~result PROVE FailureIsPrefix
    BY DEF FailureIsPrefix
  <2>1. /\ i \in Nat /\ call.va \in Nat /\ call.count \in Nat /\ i < call.count
        /\ call.va + call.count <= Radix ^ Levels /\ Radix ^ Levels \in Nat
    BY Sizes DEF PagesInv, PagingTypeOK, CallShape, PrefixInv
  <2>2. ASSUME NEW k \in 0 .. i - 1
        PROVE  GetMapping(call.va + k) = IF call.present THEN call.pa + k ELSE nullptr
    <3>1. call.va + k \in AllPages
      BY <2>1 DEF AllPages
    <3>2. Translate(call.va + k) = Asked(k)
      BY <3>1, MapsNow DEF MapsExactly, PrefixInv
    <3> QED
      BY <3>2 DEF GetMapping, Asked, NoPage, Entry, nullptr
  <2> QED
    BY <2>1, <2>2 DEF FailureIsPrefix, PrefixInv
<1>3. PagesInv /\ PrefixInv /\ [Next]_vars => (PagesInv /\ PrefixInv)'
  BY NextPagesInv, NextPrefix
<1> QED
  BY <1>1, <1>2, <1>3, InitPagesInv, PTL DEF Spec
=============================================================================
