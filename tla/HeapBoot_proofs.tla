--------------------------- MODULE HeapBoot_proofs ---------------------------
(***************************************************************************)
(* Proofs about HeapBoot, for any sizes of headers, pages, the first        *)
(* region, the back buffer and the renderer, and any memory behind the      *)
(* page frame allocator.                                                    *)
(***************************************************************************)
EXTENDS HeapBoot, Numbers_proofs, FiniteSetTheorems

(* A list of headers at the addresses D: what one says of its neighbours    *)
(* they say of it, none is its own neighbour, and one is the end.           *)
HeaderAmong(D) ==
  [free : BOOLEAN, size : 0 .. UsizeRange - 1, left : D \cup {nullptr}, right : D \cup {nullptr}]

Chained(hs, D) ==
  /\ nullptr \notin D
  /\ \A a \in D : hs[a].right # a
  /\ \A a \in D : hs[a].right # nullptr => hs[a].right \in D /\ hs[hs[a].right].left = a
  /\ \A a \in D : hs[a].left # nullptr => hs[a].left \in D /\ hs[hs[a].left].right = a
  /\ \E e \in D : \A a \in D : hs[a].right = nullptr <=> a = e

Links(hs) == hs \in [DOMAIN hs -> HeaderAmong(DOMAIN hs)] /\ Chained(hs, DOMAIN hs)

(* The fields of a header in a list.                                        *)
LEMMA Fields ==
  ASSUME NEW D, NEW h \in HeaderAmong(D)
  PROVE  /\ h.free \in BOOLEAN /\ h.size \in 0 .. UsizeRange - 1
         /\ h.left \in D \cup {nullptr} /\ h.right \in D \cup {nullptr}
         /\ h = Header(h.free, h.size, h.left, h.right)
BY DEF HeaderAmong, Header

(* Whether a header is free.                                                *)
LEMMA HeaderFree ==
  ASSUME NEW s, NEW l, NEW r
  PROVE  Header(TRUE, s, l, r).free /\ ~Header(FALSE, s, l, r).free
<1>1. Header(TRUE, s, l, r).free
  BY Zenon DEF Header
<1>2. ~Header(FALSE, s, l, r).free
  BY Zenon DEF Header
<1> QED
  BY <1>1, <1>2, Zenon

(* What an operation leaves of the blocks of the other headers.             *)
SameBlocks(before, after, D) ==
  \A a \in D : after[a].free = before[a].free /\ after[a].size = before[a].size

(* Taking a block whole.                                                    *)
LEMMA Taking ==
  ASSUME Links(headers), NEW a \in InList
  PROVE  /\ Links(Take(a)) /\ DOMAIN Take(a) = InList
         /\ ~Take(a)[a].free /\ Take(a)[a].size = headers[a].size
         /\ SameBlocks(headers, Take(a), InList \ {a})
<1>1. DOMAIN Take(a) = InList /\ Take(a) = [x \in InList |-> Take(a)[x]]
  BY Zenon DEF Take, InList
<1>2. \A x \in InList : headers[x] \in HeaderAmong(InList)
  BY DEF Links, InList
<1>3. Take(a)[a] = Header(FALSE, headers[a].size, headers[a].left, headers[a].right)
  <2>1. Take(a)[a] = [headers[a] EXCEPT !.free = FALSE]
    BY Zenon DEF Take, InList
  <2> QED
    BY <1>2, <2>1 DEF HeaderAmong, Header
<1>4. \A x \in InList \ {a} : Take(a)[x] = headers[x]
  BY DEF Take, InList
<1>5. /\ Take(a)[a] \in HeaderAmong(InList) /\ ~Take(a)[a].free /\ Take(a)[a].size = headers[a].size
      /\ Take(a)[a].left = headers[a].left /\ Take(a)[a].right = headers[a].right
  <2>1. /\ headers[a].size \in 0 .. UsizeRange - 1
        /\ headers[a].left \in InList \cup {nullptr} /\ headers[a].right \in InList \cup {nullptr}
    BY <1>2, Fields
  <2>2. /\ Take(a)[a] \in HeaderAmong(InList) /\ Take(a)[a].size = headers[a].size
        /\ Take(a)[a].left = headers[a].left /\ Take(a)[a].right = headers[a].right
    BY <1>3, <2>1 DEF HeaderAmong, Header
  <2>3. ~Header(FALSE, headers[a].size, headers[a].left, headers[a].right).free
    BY HeaderFree
  <2> QED
    BY <1>3, <2>2, <2>3, Zenon
<1>6. \A x \in InList : /\ Take(a)[x] \in HeaderAmong(InList)
                       /\ Take(a)[x].left = headers[x].left /\ Take(a)[x].right = headers[x].right
  BY <1>2, <1>4, <1>5
<1>7. Chained(headers, InList)
  BY DEF Links, InList
<1>8. Chained(Take(a), InList)
  BY <1>6, <1>7 DEF Chained
<1>9. Take(a) \in [InList -> HeaderAmong(InList)]
  BY <1>1, <1>6
<1> QED
  BY <1>1, <1>4, <1>5, <1>8, <1>9, Zenon DEF Links, SameBlocks

(* Linking a new header in behind another.                                  *)
LEMMA Inserting ==
  ASSUME NEW hs, NEW D, Chained(hs, D), NEW a \in D, NEW n, n \notin D, n # nullptr, NEW new,
         new[a].left = hs[a].left, new[a].right = n,
         new[n].left = a, new[n].right = hs[a].right,
         \A x \in D \ {a} : /\ new[x].right = hs[x].right
                            /\ new[x].left = IF x = hs[a].right THEN n ELSE hs[x].left
  PROVE  Chained(new, D \cup {n})
<1>1. /\ nullptr \notin D
      /\ \A x \in D : hs[x].right # x
      /\ \A x \in D : hs[x].right # nullptr => hs[x].right \in D /\ hs[hs[x].right].left = x
      /\ \A x \in D : hs[x].left # nullptr => hs[x].left \in D /\ hs[hs[x].left].right = x
  BY DEF Chained
<1>2. nullptr \notin D \cup {n} /\ \A x \in D \cup {n} : new[x].right # x
  BY <1>1
<1>3. ASSUME NEW x \in D \cup {n}, new[x].right # nullptr
      PROVE  new[x].right \in D \cup {n} /\ new[new[x].right].left = x
  BY <1>1, <1>3
<1>4. ASSUME NEW x \in D \cup {n}, new[x].left # nullptr
      PROVE  new[x].left \in D \cup {n} /\ new[new[x].left].right = x
  BY <1>1, <1>4
<1>5. \E e \in D \cup {n} : \A x \in D \cup {n} : new[x].right = nullptr <=> x = e
  <2>1. PICK e \in D : \A x \in D : hs[x].right = nullptr <=> x = e
    BY DEF Chained
  <2>2. CASE e = a
    BY <1>1, <2>1, <2>2
  <2>3. CASE e # a
    BY <1>1, <2>1, <2>3
  <2> QED
    BY <2>2, <2>3
<1> QED
  BY <1>2, <1>3, <1>4, <1>5 DEF Chained

(* Splitting a block: a header of what is left behind it, where none is.    *)
LEMMA Splitting ==
  ASSUME Links(headers), NEW a \in InList, NEW n, n = a + HeaderSize + count,
         n \notin InList, n # nullptr,
         count \in 0 .. UsizeRange - 1, Remainder(headers[a].size) \in 0 .. UsizeRange - 1
  PROVE  /\ Links(Split(a)) /\ DOMAIN Split(a) = InList \cup {n}
         /\ ~Split(a)[a].free /\ Split(a)[a].size = count
         /\ Split(a)[n].free /\ Split(a)[n].size = Remainder(headers[a].size)
         /\ SameBlocks(headers, Split(a), InList \ {a})
<1> DEFINE D == InList \cup {n}
           r == headers[a].right
           s == Remainder(headers[a].size)
           cut == Put(headers, n, Header(TRUE, s, a, r))
           linked == Link(cut, r, "left", n)
           taken == Header(FALSE, count, headers[a].left, n)
<1>1. Split(a) = Put(linked, a, taken)
  <2>1. cut[n].right = r
    <3>1. cut[n] = Header(TRUE, s, a, r)
      BY Zenon DEF Put
    <3> QED
      BY <3>1 DEF Header
  <2> QED
    BY <2>1, Zenon DEF Split
<1>2. /\ \A x \in InList : headers[x] \in HeaderAmong(InList) /\ headers[x] \in HeaderAmong(D)
      /\ Chained(headers, InList)
      /\ r \in InList \cup {nullptr} /\ r # a /\ nullptr \notin InList
  <2>1. \A x \in InList : headers[x] \in HeaderAmong(InList)
    BY DEF Links, InList
  <2>2. \A x \in InList : headers[x] \in HeaderAmong(D)
    BY <2>1 DEF HeaderAmong
  <2>3. Chained(headers, InList)
    BY DEF Links, InList
  <2> QED
    BY <2>1, <2>2, <2>3, Fields DEF Chained
<1>3. DOMAIN cut = D /\ cut[n] = Header(TRUE, s, a, r) /\ \A x \in InList : cut[x] = headers[x]
  BY Zenon DEF Put, InList
<1>4. /\ DOMAIN linked = D
      /\ \A x \in D : linked[x] = IF x = r THEN [cut[x] EXCEPT !.left = n] ELSE cut[x]
  <2>1. CASE r = nullptr
    BY <1>2, <1>3, <2>1, Zenon DEF Link
  <2>2. CASE r # nullptr
    <3>1. linked = [cut EXCEPT ![r]["left"] = n]
      BY <2>2, Zenon DEF Link
    <3> QED
      BY <1>3, <3>1
  <2> QED
    BY <2>1, <2>2
<1>5. /\ DOMAIN Split(a) = D /\ Split(a) = [x \in D |-> Split(a)[x]]
      /\ Split(a)[a] = taken
      /\ \A x \in D \ {a} : Split(a)[x] = linked[x]
  <2>1. DOMAIN linked \cup {a} = D
    BY <1>4
  <2> HIDE DEF linked, taken, D
  <2>2. Split(a) = [x \in D |-> IF x = a THEN taken ELSE linked[x]]
    BY <1>1, <2>1, Zenon DEF Put
  <2>3. a \in D
    BY DEF D
  <2> QED
    BY <2>2, <2>3
<1> HIDE DEF linked, cut
<1>6. Split(a)[n] = Header(TRUE, s, a, r)
  <2>1. n \in D \ {a} /\ n # r
    BY <1>2
  <2> QED
    BY <1>3, <1>4, <1>5, <2>1
<1>7. ASSUME NEW x \in InList \ {a}
      PROVE  /\ Split(a)[x] \in HeaderAmong(D)
             /\ Split(a)[x].free = headers[x].free /\ Split(a)[x].size = headers[x].size
             /\ Split(a)[x].right = headers[x].right
             /\ Split(a)[x].left = IF x = r THEN n ELSE headers[x].left
  <2>1. Split(a)[x] = IF x = r THEN [headers[x] EXCEPT !.left = n] ELSE headers[x]
    BY <1>3, <1>4, <1>5, <1>7
  <2>2. headers[x] \in HeaderAmong(D)
    BY <1>2, <1>7
  <2> QED
    BY <2>1, <2>2 DEF HeaderAmong
<1>8. /\ headers[a].left \in D \cup {nullptr} /\ r \in D \cup {nullptr}
      /\ a \in D \cup {nullptr} /\ n \in D \cup {nullptr}
  BY <1>2, Fields
<1> HIDE DEF D, r, s
<1>9. /\ /\ Split(a)[a] \in HeaderAmong(D) /\ ~Split(a)[a].free /\ Split(a)[a].size = count
         /\ Split(a)[a].left = headers[a].left /\ Split(a)[a].right = n
      /\ /\ Split(a)[n] \in HeaderAmong(D) /\ Split(a)[n].free /\ Split(a)[n].size = s
         /\ Split(a)[n].left = a /\ Split(a)[n].right = r
  <2>1. s \in 0 .. UsizeRange - 1
    BY DEF s
  <2>2. /\ Split(a)[n] \in HeaderAmong(D) /\ Split(a)[n].free /\ Split(a)[n].size = s
        /\ Split(a)[n].left = a /\ Split(a)[n].right = r
    <3>1. /\ Split(a)[n] \in HeaderAmong(D) /\ Split(a)[n].size = s
          /\ Split(a)[n].left = a /\ Split(a)[n].right = r
      BY <1>6, <1>8, <2>1 DEF HeaderAmong, Header
    <3>2. Header(TRUE, s, a, r).free
      BY HeaderFree
    <3> QED
      BY <1>6, <3>1, <3>2, Zenon
  <2>3. /\ Split(a)[a] \in HeaderAmong(D) /\ ~Split(a)[a].free /\ Split(a)[a].size = count
        /\ Split(a)[a].left = headers[a].left /\ Split(a)[a].right = n
    <3>1. /\ Split(a)[a] \in HeaderAmong(D) /\ Split(a)[a].size = count
          /\ Split(a)[a].left = headers[a].left /\ Split(a)[a].right = n
      <4>1. Split(a)[a] = Header(FALSE, count, headers[a].left, n)
        BY <1>5
      <4> HIDE DEF taken
      <4> QED
        BY <1>8, <4>1 DEF HeaderAmong, Header
    <3>2. ~Header(FALSE, count, headers[a].left, n).free
      BY HeaderFree
    <3>3. Split(a)[a] = Header(FALSE, count, headers[a].left, n)
      BY <1>5
    <3> QED
      BY <3>1, <3>2, <3>3, Zenon
  <2> QED
    BY <2>2, <2>3, Zenon
<1>10. Chained(Split(a), D)
  <2>1. \A x \in InList \ {a} :
          /\ Split(a)[x].right = headers[x].right
          /\ Split(a)[x].left = IF x = headers[a].right THEN n ELSE headers[x].left
    BY <1>7 DEF r
  <2> QED
    BY <1>2, <1>9, <2>1, Inserting DEF D, r
<1>11. Split(a) \in [D -> HeaderAmong(D)]
  BY <1>5, <1>7, <1>9 DEF D
<1> QED
  BY <1>5, <1>7, <1>9, <1>10, <1>11, Zenon DEF Links, SameBlocks, D, s

(* An extension that does not follow the last block in memory is linked in  *)
(* behind it.                                                               *)
LEMMA Extending ==
  ASSUME Links(headers), NEW n, n \notin InList, n # nullptr, heapSize \in 0 .. UsizeRange - 1,
         \A a \in InList : headers[a].free => BlockEnd(headers, a) # n
  PROVE  /\ Links(Extended(n)) /\ DOMAIN Extended(n) = InList \cup {n}
         /\ Extended(n)[n].free /\ Extended(n)[n].size = heapSize
         /\ SameBlocks(headers, Extended(n), InList)
<1> DEFINE D == InList \cup {n}
           e == HeapEnd
           new == Header(TRUE, heapSize, e, nullptr)
           linked == Put(Link(headers, e, "right", n), n, new)
<1>1. e \in InList /\ headers[e].right = nullptr
  <2>1. \E a \in InList : headers[a].right = nullptr
    BY DEF Links, Chained, InList
  <2> QED
    BY <2>1, Zenon DEF HeapEnd, IsEnd
<1>2. /\ \A x \in InList : headers[x] \in HeaderAmong(InList) /\ headers[x] \in HeaderAmong(D)
      /\ Chained(headers, InList) /\ nullptr \notin InList
  <2>1. \A x \in InList : headers[x] \in HeaderAmong(InList)
    BY DEF Links, InList
  <2>2. \A x \in InList : headers[x] \in HeaderAmong(D)
    BY <2>1 DEF HeaderAmong
  <2>3. Chained(headers, InList)
    BY DEF Links, InList
  <2> QED
    BY <2>1, <2>2, <2>3 DEF Chained
<1> HIDE DEF e
<1>3. /\ DOMAIN linked = D /\ linked = [x \in D |-> linked[x]]
      /\ linked[n] = new
      /\ \A x \in InList : linked[x] = IF x = e THEN [headers[x] EXCEPT !.right = n] ELSE headers[x]
  <2>1. Link(headers, e, "right", n) = [headers EXCEPT ![e]["right"] = n]
    BY <1>1, <1>2, Zenon DEF Link
  <2> DEFINE old_ == Link(headers, e, "right", n)
  <2>2. /\ DOMAIN old_ = InList
        /\ \A x \in InList : old_[x] = IF x = e THEN [headers[x] EXCEPT !.right = n] ELSE headers[x]
    BY <2>1 DEF InList
  <2> HIDE DEF old_
  <2>3. linked = [x \in D |-> IF x = n THEN new ELSE old_[x]]
    BY <2>2, Zenon DEF Put, old_
  <2> QED
    BY <2>2, <2>3
<1> HIDE DEF linked, new
<1>4. ASSUME NEW x \in InList
      PROVE  /\ linked[x] \in HeaderAmong(D)
             /\ linked[x].free = headers[x].free /\ linked[x].size = headers[x].size
             /\ linked[x].right = IF x = e THEN n ELSE headers[x].right
             /\ linked[x].left = headers[x].left
  <2>1. headers[x] \in HeaderAmong(D) /\ linked[x] = IF x = e THEN [headers[x] EXCEPT !.right = n] ELSE headers[x]
    BY <1>2, <1>3
  <2> QED
    BY <2>1 DEF HeaderAmong
<1>5. Extended(n) = linked
  <2>1. linked[e].free => BlockEnd(linked, e) # n
    BY <1>1, <1>4, Zenon DEF BlockEnd
  <2>2. Extended(n) = Merge(linked, e, n)
    BY Zenon DEF Extended, linked, new, e
  <2> QED
    BY <2>1, <2>2, Zenon DEF Merge
<1>6. /\ linked[n] \in HeaderAmong(D) /\ linked[n].free /\ linked[n].size = heapSize
      /\ linked[n].left = e /\ linked[n].right = nullptr
  <2>1. linked[n] = Header(TRUE, heapSize, e, nullptr) /\ e \in D
    BY <1>1, <1>3 DEF new
  <2>2. /\ linked[n] \in HeaderAmong(D) /\ linked[n].size = heapSize
        /\ linked[n].left = e /\ linked[n].right = nullptr
    <3> HIDE DEF D
    <3> QED
      BY <2>1 DEF HeaderAmong, Header
  <2>3. Header(TRUE, heapSize, e, nullptr).free
    BY HeaderFree
  <2> QED
    BY <2>1, <2>2, <2>3, Zenon
<1>7. Chained(linked, D)
  <2>1. /\ linked[e].left = headers[e].left /\ linked[e].right = n
        /\ linked[n].left = e /\ linked[n].right = headers[e].right
    BY <1>1, <1>4, <1>6
  <2>2. \A x \in InList \ {e} : /\ linked[x].right = headers[x].right
                                /\ linked[x].left = IF x = headers[e].right THEN n ELSE headers[x].left
    BY <1>1, <1>2, <1>4
  <2>3. Chained(headers, InList) /\ e \in InList
    BY <1>1, <1>2
  <2> QED
    BY <2>1, <2>2, <2>3, Inserting
<1>8. linked \in [D -> HeaderAmong(D)]
  BY <1>3, <1>4, <1>6
<1> QED
  BY <1>3, <1>4, <1>5, <1>6, <1>7, <1>8, Zenon DEF Links, SameBlocks
-----------------------------------------------------------------------------
(* What the calls of the kernel keep.  A region holds one block that is     *)
(* free, of the size the search believes it has, until the back buffer is   *)
(* put into one of them; what is left of that region is behind the buffer,  *)
(* and too large by the buffer.  The renderer is small enough for that to   *)
(* matter to nobody, and nothing is allocated after it.                     *)
Starts == {r.base : r \in regions}

Room(first, r) == r.length - PageSize - (IF r.base = first THEN HeaderSize ELSE 0)

Vacant(hs, first, r) == hs[r.base].free /\ hs[r.base].size = Room(first, r)

RegionsApart ==
  /\ \A r \in regions :
       /\ r.base \in Bases /\ r.length \in Nat /\ r.length >= PageSize
       /\ Room(heapBegin, r) \in 0 .. UsizeRange - 1
       /\ Room(heapBegin, r) = 0 \/ Room(heapBegin, r) >= HeaderSize
  /\ \A r, q \in regions : r # q => r.base + r.length <= q.base \/ q.base + q.length <= r.base
  /\ \E r \in regions : r.base = heapBegin

Common ==
  /\ heapSize \in 0 .. UsizeRange - 1 /\ heapSize % PageSize = 0
  /\ pc \in {"idle", "search"}
  /\ old = nullptr
  /\ RegionsApart
  /\ Links(headers)

NoBlock ==
  /\ live = {}
  /\ pc = "search" => count \in Nat \ {0}
  /\ InList = Starts
  /\ \A r \in regions : Vacant(headers, heapBegin, r)

(* The back buffer b is at the start of the region r, with or without a     *)
(* header behind it.                                                        *)
Holds(b, r) ==
  /\ b.address = r.base + HeaderSize
  /\ b.count \in Nat \ {0} /\ b.count <= Room(heapBegin, r)
  /\ ~headers[r.base].free /\ headers[r.base].size >= b.count
  /\ \A q \in regions \ {r} : Vacant(headers, heapBegin, q)
  /\ \/ InList = Starts
     \/ LET rest == b.address + b.count IN
        /\ HeaderSize + b.count < Room(heapBegin, r)
        /\ InList = Starts \cup {rest}
        /\ headers[rest].free /\ headers[rest].size = Room(heapBegin, r) - HeaderSize

OneBlock ==
  /\ pc = "search" => count = RendererSize
  /\ \E b \in live : live = {b} /\ \E r \in regions : Holds(b, r)

(* The header of a block is in the list and taken, and no header is inside  *)
(* it.                                                                      *)
Owned(hs, b) ==
  /\ b.address - HeaderSize \in DOMAIN hs
  /\ ~hs[b.address - HeaderSize].free /\ hs[b.address - HeaderSize].size >= b.count
  /\ \A a \in DOMAIN hs : ~Overlap(b.address, b.count, a, HeaderSize)

TwoBlocks ==
  /\ pc = "idle"
  /\ Cardinality(live) = 2
  /\ BlocksApart /\ InsideRegions
  /\ \A b \in live : Owned(headers, b)

BootInv == Common /\ (NoBlock \/ OneBlock \/ TwoBlocks)
-----------------------------------------------------------------------------
(* A region is as long as what was asked for and a page.                    *)
LEMMA Lengths ==
  ASSUME NEW s \in Nat, s % PageSize = 0
  PROVE  RegionLength(s) = s + PageSize
<1>1. PageSize \in Nat \ {0}
  BY HeapAssumption
<1>2. PICK q \in Nat : q = s \div PageSize /\ s = PageSize * q
  BY <1>1, Multiple
<1>3. PageSize * (q + 1) = PageSize * q + PageSize
  BY <1>1
<1> QED
  BY <1>2, <1>3 DEF RegionLength

(* A number of pages that is not 0 has room for a header.                   *)
LEMMA AtLeastPage ==
  ASSUME NEW s \in 0 .. UsizeRange - 1, s % PageSize = 0
  PROVE  s = 0 \/ (s >= PageSize /\ s >= HeaderSize)
<1>1. PageSize \in Nat \ {0} /\ HeaderSize \in Nat /\ HeaderSize < PageSize /\ s \in Nat
  BY HeapAssumption
<1>2. PICK q \in Nat : s = PageSize * q
  BY <1>1, Multiple
<1>3. CASE q = 0
  BY <1>1, <1>2, <1>3
<1>4. CASE q # 0
  <2>1. PageSize * 0 + PageSize <= PageSize * q
    BY <1>1, <1>4, NextMultiple
  <2> QED
    BY <1>1, <1>2, <2>1
<1> QED
  BY <1>3, <1>4

(* Doubling keeps the size of the heap a number of pages, also when it      *)
(* wraps.                                                                   *)
LEMMA Doubling ==
  ASSUME NEW s \in 0 .. UsizeRange - 1, s % PageSize = 0
  PROVE  Usize(2 * s) \in 0 .. UsizeRange - 1 /\ Usize(2 * s) % PageSize = 0
<1>1. /\ PageSize \in Nat \ {0} /\ UsizeRange \in Nat \ {0} /\ UsizeRange % PageSize = 0
      /\ s \in Nat
  BY HeapAssumption
<1>2. PICK q \in Nat, u \in Nat : s = PageSize * q /\ UsizeRange = PageSize * u
  BY <1>1, Multiple
<1>3. PICK t \in Nat : t = Usize(2 * s) /\ t \in 0 .. UsizeRange - 1 /\ (t = 2 * s \/ t = 2 * s - UsizeRange)
  <2>1. CASE 2 * s < UsizeRange
    <3>1. 2 * s = UsizeRange * 0 + 2 * s /\ 2 * s \in 0 .. UsizeRange - 1
      BY <1>1, <2>1
    <3>2. (UsizeRange * 0 + 2 * s) % UsizeRange = 2 * s
      BY <1>1, <3>1, RemainderIs
    <3> QED
      BY <1>1, <3>1, <3>2 DEF Usize
  <2>2. CASE ~(2 * s < UsizeRange)
    <3>1. PICK r \in 0 .. UsizeRange - 1 : r = 2 * s - UsizeRange /\ 2 * s = UsizeRange * 1 + r
      <4>1. 2 * s - UsizeRange \in 0 .. UsizeRange - 1
        BY <1>1, <2>2
      <4>2. 2 * s = UsizeRange * 1 + (2 * s - UsizeRange)
        BY <1>1
      <4> QED
        BY <4>1, <4>2
    <3>2. (UsizeRange * 1 + r) % UsizeRange = r
      BY <1>1, RemainderIs
    <3> QED
      BY <1>1, <3>1, <3>2 DEF Usize
  <2> QED
    BY <2>1, <2>2
<1>4. \E p \in Nat : t = PageSize * p
  <2>1. CASE t = 2 * s
    <3>1. t = PageSize * (2 * q) /\ 2 * q \in Nat
      BY <1>1, <1>2, <2>1
    <3> QED
      BY <3>1
  <2>2. CASE t = 2 * s - UsizeRange
    <3>1. t = PageSize * (2 * q - u)
      BY <1>1, <1>2, <2>2
    <3>2. 2 * q - u >= 0
      <4>1. SUFFICES ASSUME 2 * q < u PROVE FALSE
        OBVIOUS
      <4>2. PageSize * (2 * q) < PageSize * u
        <5>1. 2 * q \in Nat
          OBVIOUS
        <5>2. PageSize * (2 * q) + PageSize <= PageSize * u
          BY <1>1, <4>1, <5>1, NextMultiple
        <5> QED
          BY <1>1, <1>2, <5>2
      <4>3. PageSize * (2 * q) = 2 * s
        BY <1>1, <1>2
      <4> QED
        BY <1>1, <1>2, <1>3, <2>2, <4>2, <4>3
    <3> QED
      BY <3>1, <3>2
  <2> QED
    BY <1>3, <2>1, <2>2
<1>5. t % PageSize = 0
  <2>1. PICK p \in Nat : t = PageSize * p
    BY <1>4
  <2>2. t = PageSize * p + 0 /\ 0 \in 0 .. PageSize - 1
    BY <1>1, <2>1
  <2>3. (PageSize * p + 0) % PageSize = 0
    BY <1>1, <2>2, RemainderIs
  <2> QED
    BY <2>2, <2>3
<1> QED
  BY <1>3, <1>5

(* Where regions, headers and blocks can be.                                *)
LEMMA RegionNumbers ==
  ASSUME RegionsApart
  PROVE  /\ \A r \in regions : /\ r.base \in Nat \ {0} /\ r.length \in Nat /\ Room(heapBegin, r) \in Nat
                               /\ r.base \in Starts
                               /\ Room(heapBegin, r) + PageSize <= r.length
                               /\ r.base = heapBegin => Room(heapBegin, r) + PageSize + HeaderSize = r.length
                               /\ r.base # heapBegin => Room(heapBegin, r) + PageSize = r.length
         /\ \A r, q \in regions : r.base = q.base => r = q
         /\ \A a \in Starts : \E r \in regions : a = r.base
<1>1. HeaderSize \in Nat /\ PageSize \in Nat \ {0} /\ UsizeRange \in Nat /\ Bases \subseteq Nat \ {0}
  BY HeapAssumption
<1>2. ASSUME NEW r \in regions
      PROVE  /\ r.base \in Nat \ {0} /\ r.length \in Nat /\ r.length >= PageSize
             /\ Room(heapBegin, r) \in Nat
             /\ Room(heapBegin, r) = r.length - PageSize - (IF r.base = heapBegin THEN HeaderSize ELSE 0)
  <2>1. r.base \in Bases /\ r.length \in Nat /\ r.length >= PageSize /\ Room(heapBegin, r) \in 0 .. UsizeRange - 1
    BY DEF RegionsApart
  <2>2. Room(heapBegin, r) \in Nat
    BY <1>1, <2>1
  <2>3. Room(heapBegin, r) = r.length - PageSize - (IF r.base = heapBegin THEN HeaderSize ELSE 0)
    BY DEF Room
  <2> QED
    BY <1>1, <2>1, <2>2, <2>3
<1>3. ASSUME NEW r \in regions, NEW q \in regions, r.base = q.base PROVE r = q
  <2>1. r # q => r.base + r.length <= q.base \/ q.base + q.length <= r.base
    BY DEF RegionsApart
  <2> QED
    BY <1>1, <1>2, <1>3, <2>1
<1> QED
  BY <1>1, <1>2, <1>3 DEF Starts

(* What the page frame allocator gives lies apart from what it gave.        *)
LEMMA FreshApart ==
  ASSUME RegionsApart, heapSize \in 0 .. UsizeRange - 1, heapSize % PageSize = 0,
         NEW b \in Fresh(heapSize)
  PROVE  \A r \in regions : b + heapSize + PageSize <= r.base \/ r.base + r.length <= b
<1>1. heapSize \in Nat /\ PageSize \in Nat /\ b \in Nat
  BY HeapAssumption DEF Fresh
<1>2. RegionLength(heapSize) = heapSize + PageSize
  BY <1>1, Lengths
<1>3. ASSUME NEW r \in regions PROVE b + heapSize + PageSize <= r.base \/ r.base + r.length <= b
  <2>1. b + RegionLength(heapSize) <= r.base \/ r.base + r.length <= b
    BY DEF Fresh
  <2>2. b + RegionLength(heapSize) = b + heapSize + PageSize
    BY <1>1, <1>2
  <2> QED
    BY <2>1, <2>2
<1> QED
  BY <1>3

(* The regions with another one.                                            *)
LEMMA MoreRegions ==
  ASSUME RegionsApart, heapSize \in 0 .. UsizeRange - 1, heapSize % PageSize = 0,
         NEW b \in Fresh(heapSize), NEW s, s = [base |-> b, length |-> RegionLength(heapSize)],
         regions' = regions \cup {s}, heapBegin' = heapBegin
  PROVE  /\ RegionsApart' /\ b \notin Starts /\ Starts' = Starts \cup {b}
         /\ Room(heapBegin', s) = heapSize /\ \A r \in regions : Room(heapBegin', r) = Room(heapBegin, r)
<1>1. /\ HeaderSize \in Nat /\ PageSize \in Nat \ {0} /\ UsizeRange \in Nat
      /\ b \in Bases /\ Bases \subseteq Nat \ {0} /\ heapSize \in Nat
  BY HeapAssumption DEF Fresh
<1>2. s.base = b /\ s.length = heapSize + PageSize
  BY <1>1, Lengths
<1>3. \A r \in regions : b + heapSize + PageSize <= r.base \/ r.base + r.length <= b
  BY FreshApart
<1>4. \A r \in regions : /\ r.base \in Nat \ {0} /\ r.length \in Nat /\ r.length >= PageSize
                         /\ r.base \in Bases /\ Room(heapBegin, r) \in 0 .. UsizeRange - 1
  BY RegionNumbers DEF RegionsApart
<1>5. \A r \in regions : r.base # b
  BY <1>1, <1>3, <1>4
<1>6. b # heapBegin
  BY <1>5 DEF RegionsApart
<1>7. Room(heapBegin', s) = heapSize
  BY <1>1, <1>2, <1>6 DEF Room
<1>8. \A r \in regions : Room(heapBegin', r) = Room(heapBegin, r)
  BY DEF Room
<1>9. \A r \in regions \cup {s} : /\ r.base \in Bases /\ r.length \in Nat /\ r.length >= PageSize
                                  /\ Room(heapBegin', r) \in 0 .. UsizeRange - 1
                                  /\ Room(heapBegin', r) = 0 \/ Room(heapBegin', r) >= HeaderSize
  <2>1. heapSize = 0 \/ heapSize >= HeaderSize
    BY AtLeastPage
  <2>2. \A r \in regions : Room(heapBegin, r) = 0 \/ Room(heapBegin, r) >= HeaderSize
    BY DEF RegionsApart
  <2> QED
    BY <1>1, <1>2, <1>4, <1>7, <1>8, <2>1, <2>2
<1>10. \A r, q \in regions \cup {s} : r # q => r.base + r.length <= q.base \/ q.base + q.length <= r.base
  <2>1. \A r, q \in regions : r # q => r.base + r.length <= q.base \/ q.base + q.length <= r.base
    BY DEF RegionsApart
  <2>2. \A r \in regions : s.base + s.length <= r.base \/ r.base + r.length <= s.base
    BY <1>1, <1>2, <1>3
  <2> QED
    BY <2>1, <2>2
<1>11. RegionsApart'
  <2>1. \E r \in regions \cup {s} : r.base = heapBegin
    BY DEF RegionsApart
  <2> QED
    BY <1>9, <1>10, <2>1 DEF RegionsApart
<1> QED
  BY <1>2, <1>5, <1>7, <1>8, <1>11 DEF Starts
-----------------------------------------------------------------------------
(* The first region is vacant.                                              *)
LEMMA InitBoot == HeapInit => BootInv
<1> SUFFICES ASSUME HeapInit PROVE BootInv
  OBVIOUS
<1> DEFINE s == [base |-> heapBegin, length |-> RegionLength(InitialSize)]
           h == Header(TRUE, InitialSize - HeaderSize, nullptr, nullptr)
<1>1. /\ HeaderSize \in Nat \ {0} /\ PageSize \in Nat \ {0} /\ UsizeRange \in Nat
      /\ HeaderSize < PageSize /\ InitialSize \in Nat /\ InitialSize > HeaderSize
      /\ InitialSize % PageSize = 0 /\ 2 * InitialSize < UsizeRange
      /\ Bases \subseteq Nat \ {0}
  BY HeapAssumption
<1>2. /\ heapBegin \in Bases /\ regions = {s} /\ headers = [a \in {heapBegin} |-> h]
      /\ heapSize = InitialSize /\ pc = "idle" /\ old = nullptr /\ live = {}
  BY DEF HeapInit
<1>3. s.base = heapBegin /\ s.length = InitialSize + PageSize
  BY <1>1, Lengths
<1>4. Room(heapBegin, s) = InitialSize - HeaderSize
  BY <1>1, <1>3 DEF Room
<1> HIDE DEF s
<1>5. RegionsApart
  <2>1. InitialSize \in 0 .. UsizeRange - 1
    BY <1>1
  <2>2. InitialSize >= PageSize
    BY <1>1, <2>1, AtLeastPage
  <2>3. InitialSize - HeaderSize >= HeaderSize
    BY <1>1, <2>2, HeapBootAssumption
  <2> QED
    BY <1>1, <1>2, <1>3, <1>4, <2>3 DEF RegionsApart
<1>6. /\ DOMAIN headers = {heapBegin} /\ headers[heapBegin] = h
      /\ h \in HeaderAmong({heapBegin}) /\ h.size = InitialSize - HeaderSize
      /\ h.left = nullptr /\ h.right = nullptr
  <2>1. InitialSize - HeaderSize \in 0 .. UsizeRange - 1
    BY <1>1
  <2>2. DOMAIN headers = {heapBegin} /\ headers[heapBegin] = h
    BY <1>2
  <2> QED
    BY <2>1, <2>2 DEF HeaderAmong, Header
<1>7. h.free
  BY HeaderFree
<1> HIDE DEF h
<1>8. Links(headers)
  <2>1. heapBegin # nullptr
    BY <1>1, <1>2 DEF nullptr
  <2>2. Chained(headers, {heapBegin})
    BY <1>6, <2>1 DEF Chained
  <2> QED
    BY <1>2, <1>6, <2>2 DEF Links
<1>9. Starts = {heapBegin}
  BY <1>2, <1>3 DEF Starts
<1>10. Vacant(headers, heapBegin, s)
  BY <1>3, <1>4, <1>6, <1>7, Zenon DEF Vacant
<1>11. NoBlock
  BY <1>2, <1>6, <1>9, <1>10 DEF NoBlock, InList
<1>12. heapSize \in 0 .. UsizeRange - 1
  BY <1>1, <1>2
<1> QED
  BY <1>1, <1>2, <1>5, <1>8, <1>11, <1>12 DEF BootInv, Common

(* A block that did not change is what it was.                              *)
LEMMA VacantStays ==
  ASSUME NEW before, NEW after, NEW D, SameBlocks(before, after, D), NEW r, r.base \in D, NEW first,
         Vacant(before, first, r)
  PROVE  Vacant(after, first, r)
BY Zenon DEF SameBlocks, Vacant

(* While no block is large enough, the last byte of every free one is       *)
(* inside its region: the next region cannot follow it.                     *)
LEMMA EndsInside ==
  ASSUME Common, NoBlock \/ OneBlock, pc = "search", NoFit,
         NEW a \in InList, headers[a].free
  PROVE  \E r \in regions : r.base < BlockEnd(headers, a) /\ BlockEnd(headers, a) < r.base + r.length
<1>1. /\ HeaderSize \in Nat \ {0} /\ PageSize \in Nat /\ HeaderSize < PageSize
      /\ RendererSize \in Nat /\ HeaderSize + RendererSize <= PageSize
  BY HeapAssumption, HeapBootAssumption
<1>2. \A r \in regions : /\ r.base \in Nat /\ r.length \in Nat /\ Room(heapBegin, r) \in Nat
                         /\ Room(heapBegin, r) + PageSize <= r.length
                         /\ r.base = heapBegin => Room(heapBegin, r) + PageSize + HeaderSize = r.length
  BY RegionNumbers DEF Common
<1>3. ASSUME NEW r \in regions, a = r.base, Vacant(headers, heapBegin, r)
      PROVE  r.base < BlockEnd(headers, a) /\ BlockEnd(headers, a) < r.base + r.length
  <2>1. BlockEnd(headers, a) = r.base + HeaderSize + Room(heapBegin, r)
    BY <1>3 DEF BlockEnd, Vacant
  <2> QED
    BY <1>1, <1>2, <2>1
<1>4. \A x \in Starts : \E r \in regions : x = r.base
  BY RegionNumbers DEF Common
<1>5. CASE NoBlock
  BY <1>3, <1>4, <1>5 DEF NoBlock
<1>6. CASE OneBlock
  <2>1. PICK b \in live, r \in regions : Holds(b, r) /\ count = RendererSize
    BY <1>6 DEF OneBlock
  <2>2. CASE a \in Starts
    <3>1. PICK q \in regions : a = q.base
      BY <1>4, <2>2
    <3>2. q # r
      BY <2>1, <3>1 DEF Holds
    <3> QED
      BY <1>3, <2>1, <3>1, <3>2 DEF Holds
  <2>3. CASE a \notin Starts
    <3>1. /\ b.address = r.base + HeaderSize /\ b.count \in Nat /\ a = b.address + b.count
          /\ HeaderSize + b.count < Room(heapBegin, r)
          /\ headers[a].size = Room(heapBegin, r) - HeaderSize
      BY <2>1, <2>3 DEF Holds
    <3>2. ~(headers[a].size >= RendererSize)
      BY <2>1 DEF NoFit, Fits
    <3>3. Room(heapBegin, r) < RendererSize + HeaderSize /\ b.count < RendererSize
      BY <1>1, <1>2, <3>1, <3>2
    <3>4. BlockEnd(headers, a) = r.base + HeaderSize + b.count + Room(heapBegin, r)
      BY <1>1, <1>2, <3>1 DEF BlockEnd
    <3> QED
      BY <1>1, <1>2, <3>1, <3>3, <3>4
  <2> QED
    BY <2>2, <2>3
<1> QED
  BY <1>5, <1>6

(* A header is at the start of a region, or inside the one that holds the   *)
(* back buffer.                                                             *)
LEMMA HeadersInside ==
  ASSUME RegionsApart, NoBlock \/ OneBlock, NEW a \in InList
  PROVE  \E r \in regions : r.base <= a /\ a < r.base + r.length
<1>1. /\ HeaderSize \in Nat \ {0} /\ PageSize \in Nat \ {0}
      /\ \A r \in regions : /\ r.base \in Nat /\ r.length \in Nat /\ Room(heapBegin, r) \in Nat
                            /\ Room(heapBegin, r) + PageSize <= r.length
      /\ \A x \in Starts : \E r \in regions : x = r.base
  BY RegionNumbers, HeapAssumption
<1>2. CASE a \in Starts
  BY <1>1, <1>2
<1>3. CASE a \notin Starts
  <2>1. PICK b \in live, r \in regions : Holds(b, r)
    BY <1>3 DEF NoBlock, OneBlock
  <2>2. /\ b.address = r.base + HeaderSize /\ b.count \in Nat /\ a = b.address + b.count
        /\ HeaderSize + b.count < Room(heapBegin, r)
    BY <1>3, <2>1 DEF Holds
  <2> QED
    BY <1>1, <2>2
<1> QED
  BY <1>2, <1>3

(* A new region is vacant, and the others stay what they are.               *)
LEMMA PoolKeeps ==
  ASSUME Common, NoBlock \/ OneBlock, ExtendFromPool
  PROVE  Common' /\ (NoBlock \/ OneBlock)'
<1>1. PICK b \in Fresh(heapSize) : Extend(b)
  BY DEF ExtendFromPool
<1> DEFINE s == [base |-> b, length |-> RegionLength(heapSize)]
<1>2. /\ pc = "search" /\ NoFit /\ headers' = Extended(b) /\ heapSize' = Usize(2 * heapSize)
      /\ heapBegin' = heapBegin /\ pc' = pc /\ count' = count /\ old' = old /\ live' = live
      /\ b \in Nat \ {0} /\ b # nullptr /\ regions' = regions \cup {s}
  <2>1. b \in Nat \ {0} /\ b # nullptr
    BY HeapAssumption DEF Fresh, nullptr
  <2> QED
    BY <1>1, <2>1 DEF Extend
<1>3. /\ RegionsApart /\ Links(headers) /\ heapSize \in 0 .. UsizeRange - 1
      /\ heapSize % PageSize = 0
  BY DEF Common
<1>4. /\ RegionsApart' /\ b \notin Starts /\ Starts' = Starts \cup {b}
      /\ Room(heapBegin', s) = heapSize /\ \A r \in regions : Room(heapBegin', r) = Room(heapBegin, r)
  BY <1>2, <1>3, MoreRegions
<1>5. /\ HeaderSize \in Nat \ {0} /\ PageSize \in Nat \ {0} /\ heapSize \in Nat
      /\ \A r \in regions : r.base \in Nat /\ r.length \in Nat /\ r.base \in Starts
      /\ \A r \in regions : b + heapSize + PageSize <= r.base \/ r.base + r.length <= b
  BY <1>3, RegionNumbers, FreshApart, HeapAssumption
<1>6. b \notin InList
  <2>1. SUFFICES ASSUME b \in InList PROVE FALSE
    OBVIOUS
  <2>2. PICK r \in regions : r.base <= b /\ b < r.base + r.length
    BY <1>3, <2>1, HeadersInside
  <2> QED
    BY <1>2, <1>5, <2>2
<1>7. \A a \in InList : headers[a].free => BlockEnd(headers, a) # b
  <2>1. SUFFICES ASSUME NEW a \in InList, headers[a].free, BlockEnd(headers, a) = b PROVE FALSE
    OBVIOUS
  <2>2. PICK r \in regions : r.base < b /\ b < r.base + r.length
    BY <1>2, <2>1, EndsInside
  <2> QED
    BY <1>2, <1>5, <2>2
<1>8. /\ Links(headers') /\ InList' = InList \cup {b}
      /\ headers'[b].free /\ headers'[b].size = heapSize
      /\ SameBlocks(headers, headers', InList)
  <2>1. /\ Links(Extended(b)) /\ DOMAIN Extended(b) = InList \cup {b}
        /\ Extended(b)[b].free /\ Extended(b)[b].size = heapSize
        /\ SameBlocks(headers, Extended(b), InList)
    BY <1>2, <1>3, <1>6, <1>7, Extending
  <2> QED
    BY <1>2, <2>1, Zenon DEF InList
<1>9. Common'
  <2>1. heapSize' \in 0 .. UsizeRange - 1 /\ heapSize' % PageSize = 0
    BY <1>2, <1>3, Doubling
  <2>2. Links(headers)' /\ pc' \in {"idle", "search"} /\ old' = nullptr
    BY <1>2, <1>8, Zenon DEF Common, Links, Chained, HeaderAmong
  <2> QED
    BY <1>4, <2>1, <2>2 DEF Common
<1>10. Vacant(headers', heapBegin', s)
  <2>1. s.base = b
    OBVIOUS
  <2> QED
    BY <1>2, <1>4, <1>8, <2>1, Zenon DEF Vacant
<1>11. ASSUME NEW r \in regions, Vacant(headers, heapBegin, r), r.base \in InList PROVE Vacant(headers', heapBegin', r)
  <2>1. Vacant(headers', heapBegin, r)
    BY <1>8, <1>11, VacantStays
  <2> QED
    BY <1>2, <2>1
<1>12. CASE NoBlock
  <2>1. \A r \in regions \cup {s} : Vacant(headers', heapBegin', r)
    BY <1>5, <1>10, <1>11, <1>12 DEF NoBlock
  <2> QED
    BY <1>2, <1>4, <1>8, <1>9, <1>12, <2>1 DEF NoBlock
<1>13. CASE OneBlock
  <2>1. PICK c \in live, r \in regions : live = {c} /\ Holds(c, r)
    BY <1>13 DEF OneBlock
  <2>2. r.base \in InList /\ Starts \subseteq InList
    BY <1>5, <2>1 DEF Holds
  <2>3. /\ c.address = r.base + HeaderSize
        /\ c.count \in Nat \ {0} /\ c.count <= Room(heapBegin', r)
    BY <1>4, <2>1 DEF Holds
  <2>4. /\ ~headers[r.base].free /\ headers'[r.base].free = headers[r.base].free
        /\ headers[r.base].size >= c.count /\ headers'[r.base].size = headers[r.base].size
    BY <1>8, <2>1, <2>2, Zenon DEF Holds, SameBlocks
  <2>5. ~headers'[r.base].free /\ headers'[r.base].size >= c.count
    BY <2>4, Zenon
  <2>6. \A q \in (regions \cup {s}) \ {r} : Vacant(headers', heapBegin', q)
    <3>1. \A q \in regions \ {r} : Vacant(headers, heapBegin, q) /\ q.base \in InList
      BY <1>5, <2>1, <2>2 DEF Holds
    <3> HIDE DEF s
    <3> QED
      BY <1>10, <1>11, <3>1
  <2>7. InList' = Starts' \/ LET rest == c.address + c.count IN
          /\ HeaderSize + c.count < Room(heapBegin', r)
          /\ InList' = Starts' \cup {rest}
          /\ headers'[rest].free /\ headers'[rest].size = Room(heapBegin', r) - HeaderSize
    <3>1. CASE InList = Starts
      BY <1>4, <1>8, <3>1
    <3>2. CASE InList # Starts
      <4> DEFINE rest == c.address + c.count
      <4>1. /\ HeaderSize + c.count < Room(heapBegin, r) /\ InList = Starts \cup {rest}
            /\ headers[rest].free /\ headers[rest].size = Room(heapBegin, r) - HeaderSize
        BY <2>1, <3>2, Zenon DEF Holds
      <4>2. rest \in InList
        BY <4>1
      <4>3. headers'[rest].free /\ headers'[rest].size = Room(heapBegin, r) - HeaderSize
        BY <1>8, <4>1, <4>2, Zenon DEF SameBlocks
      <4>4. InList' = Starts' \cup {rest}
        BY <1>4, <1>8, <4>1
      <4> QED
        BY <1>4, <4>1, <4>3, <4>4, Zenon
    <3> QED
      BY <3>1, <3>2
  <2>8. Holds(c, r)'
    BY <1>2, <2>3, <2>5, <2>6, <2>7, Zenon DEF Holds
  <2>9. (pc = "search" => count = RendererSize)'
    BY <1>2, <1>13 DEF OneBlock
  <2> QED
    BY <1>2, <1>9, <2>1, <2>8, <2>9 DEF OneBlock
<1> QED
  BY <1>12, <1>13
-----------------------------------------------------------------------------
(* Where nothing is linked and nothing allocated, a region that is vacant   *)
(* stays so.                                                                *)
LEMMA BlocksStay ==
  ASSUME Common, NoBlock \/ OneBlock, UNCHANGED <<headers, heapBegin, old, live, regions>>,
         heapSize' \in 0 .. UsizeRange - 1, heapSize' % PageSize = 0, pc' \in {"idle", "search"},
         NoBlock => (pc' = "search" => count' \in Nat \ {0}),
         OneBlock => (pc' = "search" => count' = RendererSize)
  PROVE  Common' /\ (NoBlock \/ OneBlock)'
<1>1. Common'
  <2>1. RegionsApart'
    BY DEF Common, RegionsApart
  <2>2. Links(headers')
    BY DEF Common
  <2> QED
    BY <2>1, <2>2 DEF Common
<1>2. Starts' = Starts
  BY DEF Starts
<1>3. NoBlock => NoBlock'
  BY <1>2 DEF NoBlock, InList
<1>4. OneBlock => OneBlock'
  <2> SUFFICES ASSUME OneBlock PROVE OneBlock'
    OBVIOUS
  <2>1. PICK b \in live, r \in regions : live = {b} /\ Holds(b, r)
    BY DEF OneBlock
  <2>2. Holds(b, r)'
    BY <1>2, <2>1, Zenon DEF Holds, InList
  <2> QED
    BY <2>1, <2>2 DEF OneBlock
<1> QED
  BY <1>1, <1>3, <1>4

(* The kernel asks for the back buffer first, and for the renderer then.    *)
LEMMA CallKeeps ==
  ASSUME BootInv, AllocateBackBuffer \/ AllocateRenderer
  PROVE  Common' /\ (NoBlock \/ OneBlock)'
<1>1. /\ Common /\ (NoBlock \/ OneBlock \/ TwoBlocks)
  BY DEF BootInv
<1>2. /\ UNCHANGED <<headers, heapBegin, live, regions>> /\ old' = old
      /\ heapSize' = heapSize /\ pc' = "search"
  BY <1>1 DEF AllocateBackBuffer, AllocateRenderer, CallAllocate, Common
<1>3. /\ NoBlock => live = {} /\ Cardinality(live) = 0
      /\ OneBlock => live # {}
      /\ TwoBlocks => live # {} /\ Cardinality(live) = 2
  BY FS_EmptySet DEF NoBlock, OneBlock, TwoBlocks
<1>4. CASE AllocateBackBuffer
  <2>1. NoBlock /\ ~OneBlock /\ count' \in Nat \ {0}
    BY <1>1, <1>3, <1>4, HeapBootAssumption DEF AllocateBackBuffer, CallAllocate
  <2> QED
    BY <1>1, <1>2, <2>1, BlocksStay DEF Common
<1>5. CASE AllocateRenderer
  <2>1. OneBlock /\ ~NoBlock /\ count' = RendererSize
    BY <1>1, <1>3, <1>5 DEF AllocateRenderer, CallAllocate
  <2> QED
    BY <1>1, <1>2, <2>1, BlocksStay DEF Common
<1> QED
  BY <1>4, <1>5

(* Without memory an extension changes the size of the heap only.           *)
LEMMA OutOfMemoryKeeps ==
  ASSUME Common, NoBlock \/ OneBlock, ExtendOutOfMemory
  PROVE  Common' /\ (NoBlock \/ OneBlock)'
<1>1. /\ UNCHANGED <<headers, heapBegin, old, live, regions>> /\ pc' = pc /\ count' = count
      /\ heapSize' = Usize(2 * heapSize)
  BY Zenon DEF ExtendOutOfMemory, Extend, Extended
<1>2. heapSize' \in 0 .. UsizeRange - 1 /\ heapSize' % PageSize = 0
  BY <1>1, Doubling DEF Common
<1> QED
  BY <1>1, <1>2, BlocksStay DEF Common, NoBlock, OneBlock

(* A block is cut only where a header has room, and the size of what is     *)
(* left is the block's without one header.                                  *)
LEMMA Cut ==
  ASSUME NEW a \in InList, headers[a].size \in HeaderSize .. UsizeRange - 1, count \in Nat
  PROVE  /\ ~TakeWhole(a) => HeaderSize + count < headers[a].size
         /\ Remainder(headers[a].size) = headers[a].size - HeaderSize
<1>1. HeaderSize \in Nat /\ UsizeRange \in Nat \ {0}
  BY HeapAssumption
<1>2. PICK n \in 0 .. UsizeRange - 1 : n = headers[a].size - HeaderSize
  BY <1>1
<1>3. UsizeRange * 0 + n = n
  BY <1>1
<1>4. (UsizeRange * 0 + n) % UsizeRange = n
  BY <1>1, RemainderIs
<1>5. Usize(n) = n
  BY <1>3, <1>4 DEF Usize
<1> QED
  BY <1>1, <1>2, <1>5 DEF TakeWhole, Remainder

(* No region starts inside another.                                         *)
LEMMA StartsOutside ==
  ASSUME RegionsApart, NEW r \in regions, NEW n \in Nat, r.base < n, n < r.base + r.length
  PROVE  n \notin Starts
<1>1. SUFFICES ASSUME NEW q \in regions, n = q.base PROVE FALSE
  BY RegionNumbers
<1>2. q # r
  BY <1>1, RegionNumbers
<1>3. r.base + r.length <= q.base \/ q.base + q.length <= r.base
  BY <1>2 DEF RegionsApart
<1>4. r.base \in Nat /\ q.base \in Nat /\ r.length \in Nat /\ q.length \in Nat
  BY RegionNumbers
<1> QED
  BY <1>1, <1>3, <1>4

(* What Allocate returns while nothing is moved.                            *)
LEMMA Returned ==
  ASSUME old = nullptr, NEW a, NEW hs, ReturnBlock(a, hs),
         \A b \in live : b.address # nullptr
  PROVE  /\ headers' = hs /\ pc' = "idle" /\ old' = nullptr
         /\ UNCHANGED <<heapBegin, heapSize, regions>>
         /\ Own(a + HeaderSize).address = a + HeaderSize /\ Own(a + HeaderSize).count = count
         /\ live' = live \cup {Own(a + HeaderSize)}
<1>1. {b \in live : b.address # old} = live
  OBVIOUS
<1>2. live' = {b \in live : b.address # old} \cup {Own(a + HeaderSize)}
  BY DEF ReturnBlock
<1>3. Own(a + HeaderSize).address = a + HeaderSize /\ Own(a + HeaderSize).count = count
  BY DEF Own
<1> QED
  BY <1>1, <1>2, <1>3, Zenon DEF ReturnBlock

(* What Allocate does to the list, whole block or not.                      *)
LEMMA Allocated ==
  ASSUME Common, pc = "search", count \in Nat \ {0}, \A b \in live : b.address # nullptr,
         NEW a \in InList, Fits(a), a \in Nat, headers[a].size \in HeaderSize .. UsizeRange - 1,
         NEW n, n = a + HeaderSize + count,
         \/ TakeWhole(a) /\ ReturnBlock(a, Take(a))
         \/ n \notin InList /\ ~TakeWhole(a) /\ ReturnBlock(a, Split(a))
  PROVE  /\ Common' /\ pc' = "idle" /\ regions' = regions /\ heapBegin' = heapBegin
         /\ Own(a + HeaderSize).address = a + HeaderSize /\ Own(a + HeaderSize).count = count
         /\ live' = live \cup {Own(a + HeaderSize)}
         /\ ~headers'[a].free /\ headers'[a].size >= count
         /\ SameBlocks(headers, headers', InList \ {a})
         /\ \/ InList' = InList
            \/ /\ HeaderSize + count < headers[a].size
               /\ InList' = InList \cup {n}
               /\ headers'[n].free /\ headers'[n].size = headers[a].size - HeaderSize
<1>1. /\ Links(headers) /\ old = nullptr /\ HeaderSize \in Nat \ {0} /\ UsizeRange \in Nat
      /\ headers[a].size >= count
  BY HeapAssumption DEF Common, Fits
<1>2. CASE TakeWhole(a) /\ ReturnBlock(a, Take(a))
  <2>1. /\ headers' = Take(a) /\ pc' = "idle" /\ old' = nullptr
        /\ UNCHANGED <<heapBegin, heapSize, regions>>
        /\ Own(a + HeaderSize).address = a + HeaderSize /\ Own(a + HeaderSize).count = count
        /\ live' = live \cup {Own(a + HeaderSize)}
    BY <1>1, <1>2, Returned
  <2>2. /\ Links(Take(a)) /\ DOMAIN Take(a) = InList /\ ~Take(a)[a].free
        /\ Take(a)[a].size = headers[a].size /\ SameBlocks(headers, Take(a), InList \ {a})
    BY <1>1, Taking
  <2>3. Common'
    <3>1. RegionsApart'
      BY <2>1 DEF Common, RegionsApart
    <3>2. Links(headers')
      BY <2>1, <2>2
    <3> QED
      BY <2>1, <3>1, <3>2 DEF Common
  <2> QED
    BY <1>1, <2>1, <2>2, <2>3, Zenon DEF InList
<1>3. CASE n \notin InList /\ ~TakeWhole(a) /\ ReturnBlock(a, Split(a))
  <2>1. /\ headers' = Split(a) /\ pc' = "idle" /\ old' = nullptr
        /\ UNCHANGED <<heapBegin, heapSize, regions>>
        /\ Own(a + HeaderSize).address = a + HeaderSize /\ Own(a + HeaderSize).count = count
        /\ live' = live \cup {Own(a + HeaderSize)}
    BY <1>1, <1>3, Returned
  <2>2. /\ HeaderSize + count < headers[a].size
        /\ Remainder(headers[a].size) = headers[a].size - HeaderSize
    BY <1>3, Cut
  <2>3. n # nullptr /\ count \in 0 .. UsizeRange - 1 /\ Remainder(headers[a].size) \in 0 .. UsizeRange - 1
    BY <1>1, <2>2 DEF nullptr
  <2>4. /\ Links(Split(a)) /\ DOMAIN Split(a) = InList \cup {n}
        /\ ~Split(a)[a].free /\ Split(a)[a].size = count
        /\ Split(a)[n].free /\ Split(a)[n].size = Remainder(headers[a].size)
        /\ SameBlocks(headers, Split(a), InList \ {a})
    BY <1>1, <1>3, <2>3, Splitting
  <2>5. Common'
    <3>1. RegionsApart'
      BY <2>1 DEF Common, RegionsApart
    <3>2. Links(headers')
      BY <2>1, <2>4
    <3> QED
      BY <2>1, <3>1, <3>2 DEF Common
  <2>6. count >= count
    OBVIOUS
  <2> QED
    BY <1>1, <2>1, <2>2, <2>4, <2>5, <2>6, Zenon DEF InList
<1> QED
  BY <1>2, <1>3

(* The back buffer comes to the start of a region.                          *)
LEMMA FirstBlock ==
  ASSUME Common, NoBlock, AllocateWhole \/ AllocateSplit
  PROVE  Common' /\ OneBlock'
<1>1. PICK a \in InList :
        /\ pc = "search" /\ Fits(a)
        /\ \/ TakeWhole(a) /\ ReturnBlock(a, Take(a))
           \/ ~TakeWhole(a) /\ ReturnBlock(a, Split(a))
  BY Zenon DEF AllocateWhole, AllocateSplit, IsFirstFit
<1>2. PICK r \in regions : a = r.base
  BY RegionNumbers DEF Common, NoBlock
<1>3. /\ HeaderSize \in Nat \ {0} /\ PageSize \in Nat /\ HeaderSize < PageSize /\ count \in Nat \ {0}
      /\ r.base \in Nat \ {0} /\ r.length \in Nat /\ Room(heapBegin, r) \in 0 .. UsizeRange - 1
      /\ Room(heapBegin, r) + PageSize <= r.length
      /\ Room(heapBegin, r) = 0 \/ Room(heapBegin, r) >= HeaderSize
  BY <1>1, RegionNumbers, HeapAssumption DEF Common, RegionsApart, NoBlock
<1>4. headers[a].size = Room(heapBegin, r) /\ Room(heapBegin, r) >= count
  BY <1>1, <1>2 DEF NoBlock, Vacant, Fits
<1>b. PICK b : b = Own(a + HeaderSize)
  OBVIOUS
<1> DEFINE n == a + HeaderSize + count
<1>5. ~TakeWhole(a) => n \notin InList
  <2>1. SUFFICES ASSUME ~TakeWhole(a) PROVE n \notin InList
    OBVIOUS
  <2>2. HeaderSize + count < Room(heapBegin, r)
    BY <1>3, <1>4, <2>1, Cut
  <2>3. n \in Nat /\ r.base < n /\ n < r.base + r.length
    BY <1>2, <1>3, <2>2
  <2> QED
    BY <2>3, StartsOutside DEF Common, NoBlock
<1>6. /\ Common' /\ pc' = "idle" /\ regions' = regions /\ heapBegin' = heapBegin
      /\ b.address = a + HeaderSize /\ b.count = count
      /\ live' = live \cup {b}
      /\ ~headers'[a].free /\ headers'[a].size >= count
      /\ SameBlocks(headers, headers', InList \ {a})
      /\ \/ InList' = InList
         \/ /\ HeaderSize + count < headers[a].size
            /\ InList' = InList \cup {n}
            /\ headers'[n].free /\ headers'[n].size = headers[a].size - HeaderSize
  <2>1. headers[a].size \in HeaderSize .. UsizeRange - 1 /\ a \in Nat
    BY <1>2, <1>3, <1>4
  <2>2. \A c \in live : c.address # nullptr
    BY DEF NoBlock
  <2>3. \/ TakeWhole(a) /\ ReturnBlock(a, Take(a))
        \/ n \notin InList /\ ~TakeWhole(a) /\ ReturnBlock(a, Split(a))
    BY <1>1, <1>5
  <2> QED
    BY <1>b, <1>1, <1>3, <2>1, <2>2, <2>3, Allocated
<1>7. live' = {b}
  BY <1>6 DEF NoBlock
<1>8. \A q \in regions \ {r} : Vacant(headers', heapBegin, q)
  <2>1. SUFFICES ASSUME NEW q \in regions \ {r} PROVE Vacant(headers', heapBegin, q)
    OBVIOUS
  <2>2. q.base \in InList \ {a} /\ Vacant(headers, heapBegin, q)
    BY <1>2, RegionNumbers DEF Common, NoBlock
  <2> QED
    BY <1>6, <2>2, VacantStays
<1>9. InList = Starts /\ Starts' = Starts
  BY <1>6 DEF NoBlock, Starts
<1>10. r \in regions' /\ Holds(b, r)'
  <2>1. /\ b.address = r.base + HeaderSize /\ b.count \in Nat \ {0} /\ b.count <= Room(heapBegin, r)
        /\ ~headers'[r.base].free /\ headers'[r.base].size >= b.count
    BY <1>2, <1>3, <1>4, <1>6, Zenon
  <2>2. n = b.address + b.count
    BY <1>6
  <2> QED
    BY <1>4, <1>6, <1>8, <1>9, <2>1, <2>2, Zenon DEF Holds
<1>11. b \in live' /\ live' = {b} /\ pc' # "search"
  BY <1>6, <1>7
<1> QED
  BY <1>6, <1>10, <1>11 DEF OneBlock
-----------------------------------------------------------------------------
(* What lies in a region behind its header overlaps no header at the start  *)
(* of a region.                                                             *)
LEMMA StartsApart ==
  ASSUME RegionsApart, NEW r \in regions, NEW n \in Nat, NEW k \in Nat,
         r.base + HeaderSize <= n, n + k <= r.base + r.length
  PROVE  \A a \in Starts : ~Overlap(n, k, a, HeaderSize)
<1>1. SUFFICES ASSUME NEW q \in regions PROVE ~Overlap(n, k, q.base, HeaderSize)
  BY RegionNumbers
<1>2. /\ HeaderSize \in Nat /\ PageSize \in Nat /\ HeaderSize < PageSize
      /\ r.base \in Nat /\ q.base \in Nat /\ r.length \in Nat /\ q.length \in Nat
      /\ q.length >= PageSize
  BY RegionNumbers, HeapAssumption DEF RegionsApart
<1>3. q = r \/ r.base + r.length <= q.base \/ q.base + q.length <= r.base
  BY DEF RegionsApart
<1> QED
  BY <1>2, <1>3 DEF Overlap

(* The back buffer lies in its region, apart from the headers.              *)
LEMMA HeldBlock ==
  ASSUME RegionsApart, NEW b, NEW r \in regions, Holds(b, r)
  PROVE  /\ b.address = r.base + HeaderSize /\ b.count \in Nat \ {0}
         /\ b.address + b.count <= r.base + r.length
         /\ r.base \in InList /\ ~headers[r.base].free
         /\ Starts \subseteq InList
         /\ \A a \in InList \ Starts :
              /\ a = b.address + b.count /\ a + HeaderSize <= r.base + r.length
              /\ HeaderSize + b.count < Room(heapBegin, r)
              /\ headers[a].size = Room(heapBegin, r) - HeaderSize
         /\ Owned(headers, b)
<1>1. /\ HeaderSize \in Nat \ {0} /\ PageSize \in Nat /\ HeaderSize < PageSize
      /\ r.base \in Nat /\ r.length \in Nat /\ Room(heapBegin, r) \in Nat
      /\ Room(heapBegin, r) + PageSize <= r.length /\ r.base \in Starts
  BY RegionNumbers, HeapAssumption
<1>2. /\ b.address = r.base + HeaderSize /\ b.count \in Nat \ {0} /\ b.count <= Room(heapBegin, r)
      /\ Starts \subseteq InList
  BY DEF Holds
<1>3. ~headers[r.base].free /\ headers[r.base].size >= b.count
  BY DEF Holds
<1>4. b.address + b.count <= r.base + r.length
  BY <1>1, <1>2
<1>5. ASSUME NEW a \in InList \ Starts
      PROVE  /\ a = b.address + b.count /\ a + HeaderSize <= r.base + r.length
             /\ HeaderSize + b.count < Room(heapBegin, r)
             /\ headers[a].size = Room(heapBegin, r) - HeaderSize
  <2>1. /\ a = b.address + b.count /\ HeaderSize + b.count < Room(heapBegin, r)
        /\ headers[a].size = Room(heapBegin, r) - HeaderSize
    BY <1>5 DEF Holds
  <2> QED
    BY <1>1, <1>2, <2>1
<1>6. ASSUME NEW a \in InList PROVE ~Overlap(b.address, b.count, a, HeaderSize)
  <2>1. CASE a \in Starts
    <3>1. b.address \in Nat /\ b.count \in Nat /\ r.base + HeaderSize <= b.address
      BY <1>1, <1>2
    <3> QED
      BY <1>4, <2>1, <3>1, StartsApart
  <2>2. CASE a \notin Starts
    BY <1>1, <1>2, <1>5, <2>2 DEF Overlap
  <2> QED
    BY <2>1, <2>2
<1>7. b.address - HeaderSize = r.base
  BY <1>1, <1>2
<1>8. Owned(headers, b)
  BY <1>1, <1>2, <1>3, <1>6, <1>7, Zenon DEF Owned, InList
<1> QED
  BY <1>1, <1>2, <1>3, <1>4, <1>5, <1>8

(* The block that is large enough for the renderer lies in a region of its  *)
(* own or behind the back buffer, and ends in that region, although its     *)
(* size says more than that: the renderer does not need all of it.          *)
LEMMA SecondFits ==
  ASSUME RegionsApart, NEW b, NEW r \in regions, Holds(b, r), count = RendererSize,
         NEW a \in InList, Fits(a)
  PROVE  /\ a \in Nat /\ headers[a].size \in HeaderSize .. UsizeRange - 1
         /\ \E q \in regions : /\ q.base <= a /\ a + HeaderSize + count < q.base + q.length
                               /\ q = r => a = b.address + b.count
<1>1. /\ HeaderSize \in Nat \ {0} /\ PageSize \in Nat /\ HeaderSize < PageSize
      /\ UsizeRange \in Nat
      /\ RendererSize \in Nat \ {0} /\ RendererSize >= HeaderSize
      /\ HeaderSize + RendererSize <= PageSize
  BY HeapAssumption, HeapBootAssumption
<1>2. headers[a].free /\ headers[a].size >= RendererSize
  BY DEF Fits
<1>3. \A q \in regions : /\ q.base \in Nat /\ q.length \in Nat
                         /\ Room(heapBegin, q) \in Nat /\ Room(heapBegin, q) \in 0 .. UsizeRange - 1
                         /\ Room(heapBegin, q) + PageSize <= q.length
  BY RegionNumbers DEF RegionsApart
<1>4. CASE a \in Starts
  <2>1. PICK q \in regions : a = q.base
    BY <1>4, RegionNumbers
  <2>2. q # r
    BY <1>2, <2>1, HeldBlock
  <2>3. headers[a].size = Room(heapBegin, q)
    BY <2>1, <2>2 DEF Holds, Vacant
  <2> QED
    BY <1>1, <1>2, <1>3, <2>1, <2>2, <2>3
<1>5. CASE a \notin Starts
  <2>1. /\ a = b.address + b.count /\ b.address = r.base + HeaderSize /\ b.count \in Nat
        /\ HeaderSize + b.count < Room(heapBegin, r)
        /\ headers[a].size = Room(heapBegin, r) - HeaderSize
    BY <1>5, HeldBlock
  <2>2. r.base <= a /\ a + HeaderSize + count < r.base + r.length
    BY <1>1, <1>3, <2>1
  <2>3. a \in Nat /\ headers[a].size \in HeaderSize .. UsizeRange - 1
    BY <1>1, <1>2, <1>3, <2>1
  <2> QED
    BY <2>1, <2>2, <2>3
<1> QED
  BY <1>4, <1>5

(* The renderer comes into a region of its own or behind the back buffer.   *)
LEMMA SecondBlock ==
  ASSUME Common, OneBlock, AllocateWhole \/ AllocateSplit
  PROVE  Common' /\ TwoBlocks'
<1>1. PICK a \in InList :
        /\ pc = "search" /\ Fits(a)
        /\ \/ TakeWhole(a) /\ ReturnBlock(a, Take(a))
           \/ ~TakeWhole(a) /\ ReturnBlock(a, Split(a))
  BY Zenon DEF AllocateWhole, AllocateSplit, IsFirstFit
<1>2. PICK b \in live, r \in regions : live = {b} /\ Holds(b, r)
  BY DEF OneBlock
<1>3. count = RendererSize /\ RegionsApart
  BY <1>1 DEF OneBlock, Common
<1>4. /\ b.address = r.base + HeaderSize /\ b.count \in Nat \ {0}
      /\ b.address + b.count <= r.base + r.length
      /\ r.base \in InList /\ ~headers[r.base].free
      /\ Starts \subseteq InList
      /\ \A x \in InList \ Starts : x = b.address + b.count /\ x + HeaderSize <= r.base + r.length
      /\ Owned(headers, b)
  BY <1>2, <1>3, HeldBlock
<1>5. a \in Nat /\ headers[a].size \in HeaderSize .. UsizeRange - 1
  BY <1>1, <1>2, <1>3, SecondFits
<1>6. PICK q \in regions : /\ q.base <= a /\ a + HeaderSize + count < q.base + q.length
                           /\ q = r => a = b.address + b.count
  BY <1>1, <1>2, <1>3, SecondFits
<1>7. /\ HeaderSize \in Nat \ {0} /\ count \in Nat \ {0}
      /\ r.base \in Nat \ {0} /\ q.base \in Nat \ {0} /\ r.length \in Nat /\ q.length \in Nat
      /\ r.base \in Starts /\ q.base \in Starts
  BY <1>3, RegionNumbers, HeapAssumption, HeapBootAssumption
<1>8. q = r \/ r.base + r.length <= q.base \/ q.base + q.length <= r.base
  BY <1>3 DEF RegionsApart
<1>9. a # r.base
  BY <1>1, <1>4 DEF Fits
<1>c. PICK c : c = Own(a + HeaderSize)
  OBVIOUS
<1>n. PICK n \in Nat : n = a + HeaderSize + count
  BY <1>5, <1>7
<1>10. n \notin InList
  <2>1. n \notin Starts
    BY <1>3, <1>6, <1>7, <1>n, <1>5, StartsOutside
  <2>2. SUFFICES ASSUME n \in InList \ Starts PROVE FALSE
    BY <2>1
  <2>3. n = b.address + b.count /\ n + HeaderSize <= r.base + r.length
    BY <1>4, <2>2
  <2> QED
    BY <1>4, <1>5, <1>6, <1>7, <1>8, <1>n, <2>3
<1>11. /\ Common' /\ pc' = "idle" /\ regions' = regions
       /\ c.address = a + HeaderSize /\ c.count = count
       /\ live' = {b, c}
       /\ ~headers'[a].free /\ headers'[a].size >= count
       /\ SameBlocks(headers, headers', InList \ {a})
       /\ InList' = InList \/ InList' = InList \cup {n}
  <2>1. \A x \in live : x.address # nullptr
    BY <1>2, <1>4, <1>7 DEF nullptr
  <2>2. \/ TakeWhole(a) /\ ReturnBlock(a, Take(a))
        \/ n \notin InList /\ ~TakeWhole(a) /\ ReturnBlock(a, Split(a))
    BY <1>1, <1>10
  <2>3. /\ Common' /\ pc' = "idle" /\ regions' = regions
        /\ c.address = a + HeaderSize /\ c.count = count
        /\ live' = live \cup {c}
        /\ ~headers'[a].free /\ headers'[a].size >= count
        /\ SameBlocks(headers, headers', InList \ {a})
        /\ InList' = InList \/ InList' = InList \cup {n}
    BY <1>c, <1>n, <1>1, <1>5, <1>7, <2>1, <2>2, Allocated
  <2>4. live' = {b, c}
    BY <1>2, <2>3
  <2> QED
    BY <2>3, <2>4, Zenon
<1>12. \A x \in InList' : x \in Starts \/ x = b.address + b.count \/ x = n
  BY <1>4, <1>11
<1>13. c.address \in Nat /\ c.count \in Nat /\ b.address \in Nat /\ c.address + c.count = n
  BY <1>4, <1>5, <1>7, <1>11, <1>n
<1>14. ~Overlap(b.address, b.count, c.address, c.count) /\ ~Overlap(c.address, c.count, b.address, b.count)
  BY <1>4, <1>5, <1>6, <1>7, <1>8, <1>11, <1>n DEF Overlap
<1>15. ASSUME NEW x \in InList'
       PROVE  ~Overlap(b.address, b.count, x, HeaderSize) /\ ~Overlap(c.address, c.count, x, HeaderSize)
  <2>1. CASE x \in Starts
    <3>1. ~Overlap(b.address, b.count, x, HeaderSize)
      BY <1>3, <1>4, <1>13, <2>1, <1>7, StartsApart
    <3>2. q.base + HeaderSize <= c.address /\ c.address + c.count <= q.base + q.length
      BY <1>5, <1>6, <1>7, <1>11, <1>13, <1>n
    <3> QED
      BY <1>3, <1>13, <2>1, <3>1, <3>2, StartsApart
  <2>2. CASE x \in InList \ Starts
    <3>1. x = b.address + b.count /\ x + HeaderSize <= r.base + r.length
      BY <1>4, <2>2
    <3> QED
      BY <1>4, <1>5, <1>6, <1>7, <1>8, <1>11, <1>13, <1>n, <3>1 DEF Overlap
  <2>3. CASE x = n
    BY <1>4, <1>5, <1>6, <1>7, <1>8, <1>11, <1>13, <1>n, <2>3 DEF Overlap
  <2> QED
    BY <1>11, <2>1, <2>2, <2>3
<1>16. b.address # c.address /\ c.address - HeaderSize = a
  BY <1>4, <1>5, <1>7, <1>9, <1>11
<1>17. Owned(headers', c)
  <2>1. c.address - HeaderSize \in InList'
    BY <1>11, <1>16
  <2> QED
    BY <1>11, <1>15, <1>16, <2>1, Zenon DEF Owned, InList
<1>18. Owned(headers', b)
  <2>1. b.address - HeaderSize = r.base
    BY <1>4, <1>7
  <2>2. /\ headers'[r.base].free = headers[r.base].free
        /\ headers'[r.base].size = headers[r.base].size
    BY <1>4, <1>9, <1>11 DEF SameBlocks
  <2>3. ~headers'[r.base].free /\ headers'[r.base].size >= b.count
    BY <1>4, <2>1, <2>2, Zenon DEF Owned
  <2>4. r.base \in InList'
    BY <1>4, <1>11
  <2> QED
    BY <1>15, <2>1, <2>3, <2>4, Zenon DEF Owned, InList
<1>19. Cardinality(live') = 2
  <2>1. c \notin {b} /\ {b, c} = {b} \cup {c}
    BY <1>16
  <2>2. IsFiniteSet({b}) /\ Cardinality({b}) = 1
    BY FS_Singleton
  <2>3. Cardinality({b} \cup {c}) = IF c \in {b} THEN 1 ELSE 1 + 1
    BY <2>2, FS_AddElement
  <2> QED
    BY <1>11, <2>1, <2>3
<1>20. BlocksApart'
  BY <1>11, <1>14 DEF BlocksApart
<1>21. InsideRegions'
  <2>1. r.base <= b.address /\ b.address + b.count <= r.base + r.length
    BY <1>4, <1>7
  <2>2. q.base <= c.address /\ c.address + c.count <= q.base + q.length
    BY <1>5, <1>6, <1>7, <1>11, <1>13, <1>n
  <2> QED
    BY <1>11, <2>1, <2>2 DEF InsideRegions
<1>22. TwoBlocks'
  <2>1. \A x \in live' : Owned(headers', x)
    BY <1>11, <1>17, <1>18
  <2> QED
    BY <1>11, <1>19, <1>20, <1>21, <2>1 DEF TwoBlocks
<1> QED
  BY <1>11, <1>22
-----------------------------------------------------------------------------
(* Every step keeps what the calls of the kernel keep.                      *)
LEMMA NextBoot == BootInv /\ [Next]_heapVars => BootInv'
<1> SUFFICES ASSUME BootInv, [Next]_heapVars PROVE BootInv'
  OBVIOUS
<1>1. CASE AllocateBackBuffer \/ AllocateRenderer
  BY <1>1, CallKeeps DEF BootInv
<1>2. CASE Allocate
  <2>1. pc = "search" /\ Common
    BY <1>2 DEF BootInv, Common, Allocate, ExtendFromPool, ExtendOutOfMemory, Extend,
                AllocateWhole, AllocateSplit
  <2>2. NoBlock \/ OneBlock
    BY <2>1 DEF BootInv, TwoBlocks
  <2>3. CASE ExtendFromPool
    BY <2>1, <2>2, <2>3, PoolKeeps DEF BootInv
  <2>4. CASE ExtendOutOfMemory
    BY <2>1, <2>2, <2>4, OutOfMemoryKeeps DEF BootInv
  <2>5. CASE AllocateWhole \/ AllocateSplit
    BY <2>1, <2>2, <2>5, FirstBlock, SecondBlock DEF BootInv
  <2> QED
    BY <1>2, <2>3, <2>4, <2>5 DEF Allocate
<1>3. CASE UNCHANGED heapVars
  <2>1. UNCHANGED <<headers, heapBegin, heapSize, pc, count, old, live, regions>>
    BY <1>3 DEF heapVars
  <2>2. Common
    BY DEF BootInv
  <2>3. CASE NoBlock \/ OneBlock
    BY <2>1, <2>2, <2>3, BlocksStay DEF BootInv, Common, NoBlock, OneBlock
  <2>4. CASE TwoBlocks
    <3>1. Common'
      <4>1. RegionsApart'
        BY <2>1, <2>2 DEF Common, RegionsApart
      <4>2. Links(headers')
        BY <2>1, <2>2 DEF Common
      <4> QED
        BY <2>1, <2>2, <4>1, <4>2 DEF Common
    <3>2. TwoBlocks'
      BY <2>1, <2>4 DEF TwoBlocks, BlocksApart, InsideRegions
    <3> QED
      BY <3>1, <3>2 DEF BootInv
  <2> QED
    BY <2>2, <2>3, <2>4 DEF BootInv
<1> QED
  BY <1>1, <1>2, <1>3 DEF Next

LEMMA BootInvHolds == Spec => []BootInv
<1>1. HeapInit => BootInv
  BY InitBoot
<1>2. BootInv /\ [Next]_heapVars => BootInv'
  BY NextBoot
<1> QED
  BY <1>1, <1>2, PTL DEF Spec

(* A list as above is sound, if its callers own what they hold.             *)
LEMMA SoundList ==
  ASSUME Common, \A b \in live : Owned(headers, b)
  PROVE  ListSound
<1>1. /\ heapSize \in 0 .. UsizeRange - 1 /\ pc \in {"idle", "search"}
      /\ headers \in [InList -> HeaderAmong(InList)] /\ Chained(headers, InList)
  BY DEF Common, Links, InList
<1>2. HeapTypeOK
  BY <1>1 DEF HeapTypeOK, HeaderAmong
<1>3. /\ \A a \in InList : headers[a].right # nullptr => headers[headers[a].right].left = a
      /\ \A a \in InList : headers[a].left # nullptr => headers[headers[a].left].right = a
  BY <1>1 DEF Chained
<1>4. Cardinality({a \in InList : IsEnd(a)}) = 1
  <2>1. PICK e \in InList : \A a \in InList : headers[a].right = nullptr <=> a = e
    BY <1>1 DEF Chained
  <2>2. {a \in InList : IsEnd(a)} = {e}
    BY <2>1 DEF IsEnd
  <2> QED
    BY <2>2, FS_Singleton
<1>5. ASSUME NEW b \in live
      PROVE  LET a == b.address - HeaderSize IN
             a \in InList /\ ~headers[a].free /\ headers[a].size >= b.count
  BY Zenon DEF Owned, InList
<1>6. ASSUME NEW b \in live, NEW a \in InList PROVE ~Overlap(b.address, b.count, a, HeaderSize)
  BY Zenon DEF Owned, InList
<1> QED
  BY <1>2, <1>3, <1>4, <1>5, <1>6, Zenon DEF ListSound

(* Blocks of the kernel own their headers, whatever is allocated.           *)
LEMMA BlocksOwned == BootInv => \A b \in live : Owned(headers, b)
<1> SUFFICES ASSUME BootInv, NEW b \in live PROVE Owned(headers, b)
  OBVIOUS
<1>1. CASE OneBlock
  <2>1. PICK r \in regions : Holds(b, r)
    BY <1>1 DEF OneBlock
  <2> QED
    BY <2>1, HeldBlock DEF BootInv, Common
<1>2. CASE NoBlock \/ TwoBlocks
  BY <1>2 DEF NoBlock, TwoBlocks
<1> QED
  BY <1>1, <1>2 DEF BootInv

(* The list of headers the kernel builds up is doubly linked and has one    *)
(* end, and the back buffer and the renderer have headers of their own that *)
(* say so and that neither of them lies over (heap.cpp:25-76, 118-140).     *)
THEOREM ListStaysSound == Spec => []ListSound
<1>1. BootInv => ListSound
  BY BlocksOwned, SoundList DEF BootInv
<1> QED
  BY <1>1, BootInvHolds, PTL

(* The back buffer and the renderer share no byte, although the header      *)
(* behind the back buffer says it has more than is left (heap.cpp:118-140). *)
THEOREM BlocksStayApart == Spec => []BlocksApart
<1>1. BootInv => BlocksApart
  <2>1. NoBlock \/ OneBlock => BlocksApart
    BY DEF NoBlock, OneBlock, BlocksApart
  <2> QED
    BY <2>1 DEF BootInv, TwoBlocks
<1> QED
  BY <1>1, BootInvHolds, PTL

(* Neither leaves the memory that the page frame allocator gave to the heap *)
(* (heap.cpp:25-83, 118-140).                                               *)
THEOREM BlocksStayInside == Spec => []InsideRegions
<1>1. BootInv => InsideRegions
  <2>1. Common /\ NoBlock => InsideRegions
    BY DEF NoBlock, InsideRegions
  <2>2. Common /\ OneBlock => InsideRegions
    <3> SUFFICES ASSUME Common, OneBlock, NEW b \in live
                 PROVE  \E r \in regions :
                          r.base <= b.address /\ b.address + b.count <= r.base + r.length
      BY DEF InsideRegions
    <3>1. PICK r \in regions : Holds(b, r)
      BY DEF OneBlock
    <3>2. /\ b.address = r.base + HeaderSize /\ b.address + b.count <= r.base + r.length
          /\ r.base \in Nat /\ HeaderSize \in Nat
      BY <3>1, HeldBlock, RegionNumbers, HeapAssumption DEF Common
    <3> QED
      BY <3>2
  <2> QED
    BY <2>1, <2>2 DEF BootInv, TwoBlocks
<1> QED
  BY <1>1, BootInvHolds, PTL

(* The heap asks for more memory only while no region that is still empty   *)
(* has room for the block and its header (heap.cpp:62-83, 115-143).         *)
THEOREM ExtensionsAreEnough == Spec => []ExtensionsSuffice
<1>1. BootInv => ExtensionsSuffice
  <2> SUFFICES ASSUME BootInv, pc = "search", NoFit, NEW r \in regions
               PROVE  \/ \E b \in live : Overlap(b.address, b.count, r.base, r.length)
                      \/ r.length <= HeaderSize + count + PageSize
    BY DEF ExtensionsSuffice
  <2>1. Common /\ RegionsApart /\ (NoBlock \/ OneBlock)
    BY DEF BootInv, TwoBlocks, Common
  <2>2. /\ HeaderSize \in Nat \ {0} /\ PageSize \in Nat /\ HeaderSize < PageSize /\ count \in Nat
        /\ r.base \in Nat /\ r.length \in Nat /\ r.base \in Starts /\ Room(heapBegin, r) \in Nat
        /\ r.length <= Room(heapBegin, r) + PageSize + HeaderSize
        /\ r.length >= PageSize
    <3>1. count \in Nat
      BY <2>1, HeapBootAssumption DEF NoBlock, OneBlock
    <3> QED
      BY <2>1, <3>1, RegionNumbers, HeapAssumption DEF RegionsApart
  <2>3. ASSUME r.base \in InList, Vacant(headers, heapBegin, r)
        PROVE  r.length <= HeaderSize + count + PageSize
    <3>1. headers[r.base].free /\ headers[r.base].size = Room(heapBegin, r)
      BY <2>3, Zenon DEF Vacant
    <3>2. ~(Room(heapBegin, r) >= count)
      BY <2>3, <3>1, Zenon DEF NoFit, Fits
    <3> QED
      BY <2>2, <3>2
  <2>4. CASE NoBlock
    BY <2>2, <2>3, <2>4 DEF NoBlock
  <2>5. CASE OneBlock
    <3>1. PICK b \in live, q \in regions : Holds(b, q)
      BY <2>5 DEF OneBlock
    <3>2. CASE q = r
      <4>1. b.address = r.base + HeaderSize /\ b.count \in Nat \ {0}
        BY <2>1, <3>1, <3>2, HeldBlock
      <4>2. Overlap(b.address, b.count, r.base, r.length)
        BY <2>2, <4>1 DEF Overlap
      <4> QED
        BY <4>2
    <3>3. CASE q # r
      <4>1. Starts \subseteq InList
        BY <2>1, <3>1, HeldBlock
      <4>2. Vacant(headers, heapBegin, r)
        BY <3>1, <3>3 DEF Holds
      <4> QED
        BY <2>2, <2>3, <4>1, <4>2
    <3> QED
      BY <3>2, <3>3
  <2> QED
    BY <2>1, <2>4, <2>5
<1> QED
  BY <1>1, BootInvHolds, PTL
=============================================================================
