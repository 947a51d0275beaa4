---------------------- MODULE PageFrameAllocator_proofs ----------------------
(***************************************************************************)
(* Proofs about PageFrameAllocator, for any size of memory and any set of  *)
(* counts that are asked for.                                              *)
(***************************************************************************)
EXTENDS PageFrameAllocator, TLAPS

(* The bitmap has a whole number of bytes, and at least one.               *)
LEMMA SizeFact == SizeInBits \in Nat /\ SizeInBits >= 8
BY PageCountAssumption DEF SizeInBits, BitmapBits

(* A call takes at least one frame, and one of AllocatePhysicalPages two.   *)
LEMMA NeedFact ==
  ASSUME TypeOK, ScanInv, pc # "idle"
  PROVE  /\ Need \in Nat /\ Need >= 1
         /\ pc = "pages" => Need >= 2 /\ Need >= count
         /\ pc = "page" => Need = 1
BY RequestsAssumption DEF TypeOK, ScanInv, Need

(* The initial states satisfy the invariant: the bitmap says    *)
(* exactly what initialize_allocator reserved.                              *)
LEMMA InitIInv == Init => IInv
<1> SUFFICES ASSUME Init PROVE IInv
  OBVIOUS
<1> USE SizeFact
<1>1. TypeOK
  BY DEF Init, TypeOK, Frames, nullptr, LowReserve
<1>2. held = {} /\ HeldFrames = {} /\ 0 \in reserved
  BY DEF Init, HeldFrames, LowReserve
<1>3. Exclusive /\ Accounting /\ GrantSize
  BY <1>2 DEF Init, Exclusive, Accounting, GrantSize
<1>4. ScanInv
  BY DEF Init, ScanInv
<1> QED
  BY <1>1, <1>2, <1>3, <1>4 DEF IInv
-----------------------------------------------------------------------------
(* Handing out a run of free frames keeps the books: what PageFound and     *)
(* PagesFound have in common.                                               *)
LEMMA TakeRun ==
  ASSUME IInv,
         NEW a \in Frames, NEW asked \in Nat, NEW taken \in Nat \ {0},
         a + taken <= SizeInBits,
         \A i \in Frames : a <= i /\ i < a + taken => ~m_Bitmap[i],
         m_Bitmap' = [i \in Frames |->
                        IF a <= i /\ i < a + taken THEN TRUE ELSE m_Bitmap[i]],
         held' = held \cup {Grant(a, asked, taken)},
         UNCHANGED reserved
  PROVE  /\ m_Bitmap' \in [Frames -> BOOLEAN]
         /\ held' \subseteq [address : Frames, asked : Nat, taken : Nat \ {0}]
         /\ Exclusive' /\ Accounting'
<1> DEFINE g == Grant(a, asked, taken)
<1> USE SizeFact
<1>1. g \in [address : Frames, asked : Nat, taken : Nat \ {0}]
      /\ g.address = a /\ g.taken = taken /\ g.asked = asked
  BY DEF Grant
<1>2. m_Bitmap' \in [Frames -> BOOLEAN]
  BY DEF IInv, TypeOK
<1>3. held' \subseteq [address : Frames, asked : Nat, taken : Nat \ {0}]
  BY <1>1 DEF IInv, TypeOK
<1>4. \A i \in FramesOf(g) : ~m_Bitmap[i]
  BY <1>1 DEF FramesOf
<1>5. \A i \in FramesOf(g) : i \notin reserved \cup HeldFrames
  BY <1>4 DEF IInv, Accounting, FramesOf
<1>6. \A h \in held : FramesOf(g) \cap FramesOf(h) = {}
  BY <1>5 DEF HeldFrames
<1>7. Exclusive'
  <2>1. \A h \in held' : FramesOf(h) \cap reserved = {}
    BY <1>5 DEF IInv, Exclusive
  <2>2. \A h \in held' : h.address + h.taken <= SizeInBits
    BY <1>1 DEF IInv, Exclusive
  <2>3. \A h, k \in held' : h # k => FramesOf(h) \cap FramesOf(k) = {}
    BY <1>6 DEF IInv, Exclusive
  <2> QED
    BY <2>1, <2>2, <2>3 DEF Exclusive, FramesOf
<1>8. HeldFrames' = HeldFrames \cup FramesOf(g)
  BY DEF HeldFrames, FramesOf
<1>9. Accounting'
  <2> SUFFICES ASSUME NEW i \in Frames
               PROVE  m_Bitmap'[i] <=> i \in reserved \cup HeldFrames'
    BY DEF Accounting
  <2>1. CASE i \in FramesOf(g)
    BY <2>1, <1>1, <1>8 DEF FramesOf, IInv, TypeOK
  <2>2. CASE i \notin FramesOf(g)
    <3>1. m_Bitmap'[i] = m_Bitmap[i]
      BY <2>2, <1>1 DEF FramesOf
    <3> QED
      BY <3>1, <2>2, <1>8 DEF IInv, Accounting
  <2> QED
    BY <2>1, <2>2
<1> QED
  BY <1>2, <1>3, <1>7, <1>9

(* A step that touches neither the bitmap nor the grants leaves the books. *)
LEMMA BooksUntouched ==
  ASSUME IInv, UNCHANGED <<m_Bitmap, held, reserved>>
  PROVE  Exclusive' /\ Accounting' /\ GrantSize' /\ 0 \in reserved'
BY DEF IInv, Exclusive, Accounting, GrantSize, HeldFrames, FramesOf
-----------------------------------------------------------------------------
(* The iterations of the two loops.                                         *)
LEMMA PageLockedIInv == IInv /\ PageLocked => IInv'
<1> SUFFICES ASSUME IInv, PageLocked PROVE IInv'
  OBVIOUS
<1> USE SizeFact
<1>1. TypeOK'
  BY DEF IInv, TypeOK, PageLocked
<1>2. Exclusive' /\ Accounting' /\ GrantSize' /\ 0 \in reserved'
  BY BooksUntouched DEF PageLocked
<1>3. ScanInv'
  BY DEF IInv, TypeOK, ScanInv, PageLocked, Frames
<1> QED
  BY <1>1, <1>2, <1>3 DEF IInv

(* The frame that AllocatePhysicalPage returns was free (pfa.cpp:35-40). *)
LEMMA PageFoundIInv == IInv /\ PageFound => IInv'
<1> SUFFICES ASSUME IInv, PageFound PROVE IInv'
  OBVIOUS
<1> USE SizeFact
<1>1. index \in Frames /\ ~m_Bitmap[index] /\ reserved' = reserved
  BY DEF IInv, TypeOK, PageFound, Return, Frames
<1>2. m_Bitmap' = [i \in Frames |-> IF index <= i /\ i < index + 1
                                      THEN TRUE ELSE m_Bitmap[i]]
  <2>1. m_Bitmap' = [i \in Frames |-> IF i = index THEN TRUE ELSE m_Bitmap[i]]
    BY DEF IInv, TypeOK, PageFound, LockPage, SetBit
  <2>2. \A i \in Frames : i = index <=> index <= i /\ i < index + 1
    BY <1>1 DEF Frames
  <2> QED
    BY <2>1, <2>2
<1>3. held' = held \cup {Grant(index, 1, 1)}
  BY DEF PageFound
<1>4. \A i \in Frames : index <= i /\ i < index + 1 => ~m_Bitmap[i]
  BY <1>1 DEF Frames
<1>5. index + 1 <= SizeInBits
  BY <1>1 DEF Frames
<1>6. /\ m_Bitmap' \in [Frames -> BOOLEAN]
      /\ held' \subseteq [address : Frames, asked : Nat, taken : Nat \ {0}]
      /\ Exclusive' /\ Accounting'
  <2>1. 1 \in Nat /\ 1 \in Nat \ {0} /\ UNCHANGED reserved
    BY <1>1
  <2> HIDE SizeFact
  <2> QED
    BY <1>1, <1>2, <1>3, <1>4, <1>5, <2>1, TakeRun
<1>7. GrantSize'
  BY <1>3 DEF IInv, GrantSize, Grant
<1>8. TypeOK' /\ ScanInv' /\ 0 \in reserved'
  BY <1>1, <1>6 DEF IInv, TypeOK, ScanInv, PageFound, Return, nullptr, Frames
<1> QED
  BY <1>6, <1>7, <1>8 DEF IInv

(* A call that begins and one that ends empty-handed change nothing but    *)
(* the locals.                                                              *)
LEMMA CallOrEndIInv ==
  ASSUME IInv, CallPage \/ (\E n \in Requests : CallPages(n)) \/ PageEnd \/ PagesEnd
  PROVE  IInv'
<1> USE SizeFact, RequestsAssumption
<1>1. TypeOK'
  <2>1. CASE PageEnd \/ PagesEnd
    <3>1. nullptr \in Frames
      BY DEF Frames, nullptr
    <3> QED
      BY <2>1, <3>1 DEF IInv, TypeOK, PageEnd, PagesEnd, Return
  <2>2. CASE CallPage
    BY <2>2 DEF IInv, TypeOK, CallPage
  <2>3. ASSUME NEW n \in Requests, CallPages(n) PROVE TypeOK'
    BY <2>3 DEF IInv, TypeOK, CallPages, Frames, nullptr
  <2> QED
    BY <2>1, <2>2, <2>3
<1>2. UNCHANGED <<m_Bitmap, held, reserved>>
  BY DEF CallPage, CallPages, PageEnd, PagesEnd, Return
<1>3. Exclusive' /\ Accounting' /\ GrantSize' /\ 0 \in reserved'
  BY <1>2, BooksUntouched
<1>4. ScanInv'
  <2>1. CASE PageEnd \/ PagesEnd
    BY <2>1 DEF ScanInv, PageEnd, PagesEnd, Return
  <2>2. CASE CallPage
    BY <2>2 DEF IInv, ScanInv, CallPage, Frames
  <2>3. ASSUME NEW n \in Requests, CallPages(n) PROVE ScanInv'
    BY <2>3 DEF IInv, ScanInv, CallPages, Frames, Need
  <2> QED
    BY <2>1, <2>2, <2>3
<1> QED
  BY <1>1, <1>3, <1>4 DEF IInv

(* An iteration of AllocatePhysicalPages that does not find enough keeps    *)
(* what the loop knows about the bits it has seen (pfa.cpp:51-68).          *)
LEMMA PagesWalkIInv ==
  ASSUME IInv, PagesLocked \/ PagesFirst \/ PagesMore
  PROVE  IInv'
<1> USE SizeFact, RequestsAssumption
<1>1. UNCHANGED <<m_Bitmap, pc, count, held, reserved>> /\ pc = "pages"
  BY DEF PagesLocked, PagesFirst, PagesMore
<1>2. Exclusive' /\ Accounting' /\ GrantSize' /\ 0 \in reserved'
  BY <1>1, BooksUntouched
<1>3. index \in Frames /\ index' = index + 1
  BY DEF IInv, TypeOK, Frames, PagesLocked, PagesFirst, PagesMore
<1>4. Need' = Need /\ Need \in Nat /\ Need >= 2 /\ Need >= count
  BY <1>1, NeedFact DEF IInv, Need
<1>5. found \in Nat /\ found <= index /\ found < Need
  BY <1>1 DEF IInv, TypeOK, ScanInv
<1>6. CASE PagesLocked
  <2>1. TypeOK'
    BY <1>6 DEF IInv, TypeOK, PagesLocked, Frames, nullptr
  <2>2. \A b \in Frames :
          b + Need <= index + 1 => \E i \in b .. b + Need - 1 : m_Bitmap[i]
    <3> SUFFICES ASSUME NEW b \in Frames, b + Need <= index + 1
                 PROVE  \E i \in b .. b + Need - 1 : m_Bitmap[i]
      OBVIOUS
    <3>1. CASE b + Need <= index
      BY <3>1, <1>1 DEF IInv, ScanInv
    <3>2. CASE b + Need = index + 1
      <4>1. index \in b .. b + Need - 1
        BY <3>2, <1>3, <1>4 DEF Frames
      <4> QED
        BY <4>1, <1>6 DEF PagesLocked
    <3> QED
      BY <3>1, <3>2, <1>3, <1>4 DEF Frames
  <2>3. ScanInv'
    BY <1>1, <1>3, <1>4, <1>6, <2>2 DEF IInv, TypeOK, ScanInv, PagesLocked, Frames
  <2> QED
    BY <1>2, <2>1, <2>3 DEF IInv
<1>7. CASE PagesFirst \/ PagesMore
  <2>1. /\ found' = found + 1
        /\ address' = index' - found'
        /\ ~m_Bitmap[index]
    <3>1. CASE PagesFirst
      BY <3>1, <1>3 DEF PagesFirst, Frames
    <3>2. CASE PagesMore
      <4>1. address = index - found
        BY <3>2, <1>1 DEF PagesMore, IInv, ScanInv
      <4> QED
        BY <3>2, <4>1, <1>3, <1>5 DEF PagesMore, Frames
    <3> QED
      BY <1>7, <3>1, <3>2
  <2>2. found' < Need
    <3>1. CASE PagesFirst
      BY <3>1, <1>4 DEF PagesFirst
    <3>2. CASE PagesMore
      BY <3>2, <1>1, <1>4, <1>5 DEF PagesMore, Enough, IInv, TypeOK
    <3> QED
      BY <1>7, <3>1, <3>2
  <2>3. TypeOK'
    <3>1. index' \in 0 .. SizeInBits /\ found' \in 0 .. SizeInBits /\ address' \in Frames
      BY <1>3, <1>5, <2>1 DEF Frames
    <3> QED
      BY <1>1, <3>1 DEF IInv, TypeOK
  <2>4. \A i \in Frames : index' - found' <= i /\ i < index' => ~m_Bitmap[i]
    <3> SUFFICES ASSUME NEW i \in Frames, index - found <= i, i < index + 1
                 PROVE  ~m_Bitmap[i]
      BY <1>3, <1>5, <2>1 DEF Frames
    <3>1. CASE i = index
      BY <3>1, <2>1
    <3>2. CASE i < index
      BY <3>2, <1>1 DEF IInv, ScanInv
    <3> QED
      BY <3>1, <3>2, <1>3 DEF Frames
  <2>5. index' > found' => m_Bitmap[index' - found' - 1]
    <3>1. index' - found' - 1 = index - found - 1
      BY <1>3, <1>5, <2>1 DEF Frames
    <3>2. index' > found' => index > found
      BY <1>3, <1>5, <2>1 DEF Frames
    <3> QED
      BY <3>1, <3>2, <1>1 DEF IInv, ScanInv
  <2>6. \A b \in Frames :
          b + Need <= index' => \E i \in b .. b + Need - 1 : m_Bitmap[i]
    <3> SUFFICES ASSUME NEW b \in Frames, b + Need <= index + 1
                 PROVE  \E i \in b .. b + Need - 1 : m_Bitmap[i]
      BY <1>3
    <3>1. CASE b + Need <= index
      BY <3>1, <1>1 DEF IInv, ScanInv
    <3>2. CASE b + Need = index + 1
      <4>1. index - found - 1 \in b .. b + Need - 1 /\ index > found
        BY <3>2, <2>1, <2>2, <1>3, <1>4, <1>5 DEF Frames
      <4> QED
        BY <4>1, <1>1 DEF IInv, ScanInv
    <3> QED
      BY <3>1, <3>2, <1>3, <1>4 DEF Frames
  <2>7. ScanInv'
    <3>1. found' <= index'
      BY <1>3, <1>5, <2>1 DEF Frames
    <3> QED
      BY <1>1, <1>4, <2>1, <2>2, <2>4, <2>5, <2>6, <3>1 DEF IInv, ScanInv
  <2> QED
    BY <1>2, <2>3, <2>7 DEF IInv
<1> QED
  BY <1>6, <1>7

(* The run that AllocatePhysicalPages returns was free (pfa.cpp:65-71). *)
LEMMA PagesFoundIInv == IInv /\ PagesFound => IInv'
<1> SUFFICES ASSUME IInv, PagesFound PROVE IInv'
  OBVIOUS
<1> USE SizeFact, RequestsAssumption
<1>1. /\ index \in Frames /\ ~m_Bitmap[index] /\ reserved' = reserved
      /\ pc = "pages" /\ found # 0 /\ found + 1 >= count
      /\ count \in Requests
  BY DEF IInv, TypeOK, ScanInv, PagesFound, Return, Frames, Enough
<1>2. /\ found \in Nat /\ found < Need /\ found <= index
      /\ address = index - found /\ address \in Frames
  BY <1>1 DEF IInv, TypeOK, ScanInv
<1>3. /\ found + 1 \in Nat \ {0} /\ address + (found + 1) = index + 1
      /\ address + (found + 1) <= SizeInBits
      /\ count \in Nat
  BY <1>1, <1>2 DEF Frames
<1>4. \A i \in Frames : address <= i /\ i < address + (found + 1) => ~m_Bitmap[i]
  <2> SUFFICES ASSUME NEW i \in Frames, index - found <= i, i < index + 1
               PROVE  ~m_Bitmap[i]
    BY <1>2, <1>3
  <2>1. CASE i = index
    BY <2>1, <1>1
  <2>2. CASE i < index
    BY <2>2, <1>1 DEF IInv, ScanInv
  <2> QED
    BY <2>1, <2>2, <1>1 DEF Frames
<1>5. m_Bitmap' = [i \in Frames |-> IF address <= i /\ i < address + (found + 1)
                                      THEN TRUE ELSE m_Bitmap[i]]
  BY DEF IInv, TypeOK, PagesFound, LockPages, FillBits
<1>6. held' = held \cup {Grant(address, count, found + 1)}
  BY DEF PagesFound
<1>7. /\ m_Bitmap' \in [Frames -> BOOLEAN]
      /\ held' \subseteq [address : Frames, asked : Nat, taken : Nat \ {0}]
      /\ Exclusive' /\ Accounting'
  <2>1. UNCHANGED reserved
    BY <1>1
  <2> HIDE SizeFact
  <2> QED
    BY <1>2, <1>3, <1>4, <1>5, <1>6, <2>1, TakeRun
<1>8. GrantSize'
  <2>1. \/ count = 1 /\ found + 1 = 2
        \/ count >= 1 /\ found + 1 = count
    BY <1>1, <1>2, <1>3 DEF Need
  <2> QED
    BY <2>1, <1>1, <1>6 DEF IInv, GrantSize, Grant
<1>9. nullptr \in Frames
  BY DEF Frames, nullptr
<1>10. TypeOK' /\ ScanInv' /\ 0 \in reserved'
  BY <1>1, <1>7, <1>9 DEF IInv, TypeOK, ScanInv, PagesFound, Return
<1> QED
  BY <1>7, <1>8, <1>10 DEF IInv
-----------------------------------------------------------------------------
(* A caller's free clears the bits it asked for, and nobody else's: the     *)
(* run it holds is its own, and it asked for no more than it was given.     *)
LEMMA FreeFact ==
  ASSUME IInv, NEW g \in held, FreeGrant(g)
  PROVE  /\ g.asked \in Nat /\ g.asked >= 1 /\ g.asked <= g.taken
         /\ g.taken \in Nat /\ g.address \in Frames
         /\ m_Bitmap' = [i \in Frames |->
              IF g.address <= i /\ i < g.address + g.asked
                THEN FALSE ELSE m_Bitmap[i]]
<1>1. /\ g.asked \in Nat /\ g.asked >= 1 /\ g.taken \in Nat /\ g.address \in Frames
  BY DEF IInv, TypeOK, FreeGrant
<1>2. g.asked <= g.taken
  BY <1>1 DEF IInv, GrantSize
<1>3. CASE g.asked = 1
  <2>1. m_Bitmap' = [i \in Frames |-> IF i = g.address THEN FALSE ELSE m_Bitmap[i]]
    BY <1>3 DEF IInv, TypeOK, FreeGrant, FreePage, SetBit
  <2>2. \A i \in Frames :
          i = g.address <=> g.address <= i /\ i < g.address + g.asked
    BY <1>1, <1>3, SizeFact DEF Frames
  <2> QED
    BY <1>1, <1>2, <2>1, <2>2
<1>4. CASE g.asked # 1
  BY <1>1, <1>2, <1>4 DEF IInv, TypeOK, FreeGrant, FreePages, FillBits
<1> QED
  BY <1>3, <1>4

(* What is left of a grant is the rest of its frames. *)
LEMMA LeftoverFact ==
  ASSUME IInv, NEW g \in held, FreeGrant(g)
  PROVE  /\ Leftover(g) \subseteq [address : Frames, asked : Nat, taken : Nat \ {0}]
         /\ \A h \in Leftover(g) :
              /\ h = Grant(g.address + g.asked, 0, g.taken - g.asked)
              /\ h.address + h.taken = g.address + g.taken
              /\ h.asked = 0
         /\ UNION {FramesOf(h) : h \in Leftover(g)} =
              {i \in FramesOf(g) : g.address + g.asked <= i}
<1> USE SizeFact
<1>1. /\ g.asked \in Nat /\ g.asked >= 1 /\ g.asked <= g.taken
      /\ g.taken \in Nat /\ g.address \in Frames
  BY FreeFact
<1>2. g.address + g.taken <= SizeInBits
  BY DEF IInv, Exclusive
<1>3. CASE g.asked < g.taken
  <2> DEFINE h == Grant(g.address + g.asked, 0, g.taken - g.asked)
  <2>1. Leftover(g) = {h}
    BY <1>3 DEF Leftover
  <2>2. h.address = g.address + g.asked /\ h.taken = g.taken - g.asked /\ h.asked = 0
    BY DEF Grant
  <2>3. g.address + g.asked \in Frames /\ g.taken - g.asked \in Nat \ {0}
    BY <1>1, <1>2, <1>3 DEF Frames
  <2>4. h \in [address : Frames, asked : Nat, taken : Nat \ {0}]
    BY <2>3 DEF Grant
  <2>5. h.address + h.taken = g.address + g.taken
    BY <1>1, <2>2 DEF Frames
  <2>6. FramesOf(h) = {i \in FramesOf(g) : g.address + g.asked <= i}
    BY <1>1, <2>2, <2>5 DEF FramesOf, Frames
  <2> HIDE DEF h
  <2>7. UNION {FramesOf(k) : k \in Leftover(g)} = FramesOf(h)
    BY <2>1
  <2> QED
    BY <2>1, <2>2, <2>4, <2>5, <2>6, <2>7 DEF h
<1>4. CASE g.asked = g.taken
  <2>1. Leftover(g) = {}
    BY <1>1, <1>4 DEF Leftover
  <2>2. {i \in FramesOf(g) : g.address + g.asked <= i} = {}
    BY <1>1, <1>4 DEF FramesOf, Frames
  <2> QED
    BY <2>1, <2>2
<1> QED
  BY <1>1, <1>3, <1>4

(* Freeing what was asked for keeps the books (pfa.cpp:13-30). *)
LEMMA FreeGrantIInv ==
  ASSUME IInv, NEW g \in held, FreeGrant(g)
  PROVE  IInv'
<1> USE SizeFact
<1>1. /\ g.asked \in Nat /\ g.asked >= 1 /\ g.asked <= g.taken
      /\ g.taken \in Nat /\ g.address \in Frames
      /\ m_Bitmap' = [i \in Frames |->
           IF g.address <= i /\ i < g.address + g.asked THEN FALSE ELSE m_Bitmap[i]]
  BY FreeFact
<1>2. /\ Leftover(g) \subseteq [address : Frames, asked : Nat, taken : Nat \ {0}]
      /\ \A h \in Leftover(g) :
           /\ h = Grant(g.address + g.asked, 0, g.taken - g.asked)
           /\ h.address + h.taken = g.address + g.taken
           /\ h.asked = 0
      /\ UNION {FramesOf(h) : h \in Leftover(g)} =
           {i \in FramesOf(g) : g.address + g.asked <= i}
  BY LeftoverFact
<1>3. /\ held' = (held \ {g}) \cup Leftover(g)
      /\ UNCHANGED <<pc, count, index, found, address, reserved>>
      /\ pc = "idle"
  BY DEF FreeGrant
<1>4. TypeOK'
  BY <1>1, <1>2, <1>3 DEF IInv, TypeOK
<1>5. \A h \in Leftover(g) : FramesOf(h) \subseteq FramesOf(g)
  BY <1>2
<1>6. Exclusive'
  <2>1. \A h \in held' : FramesOf(h) \cap reserved = {}
    BY <1>3, <1>5 DEF IInv, Exclusive
  <2>2. \A h \in held' : h.address + h.taken <= SizeInBits
    BY <1>2, <1>3 DEF IInv, Exclusive
  <2>3. \A h, k \in held' : h # k => FramesOf(h) \cap FramesOf(k) = {}
    BY <1>2, <1>3, <1>5 DEF IInv, Exclusive
  <2> QED
    BY <1>3, <2>1, <2>2, <2>3 DEF Exclusive, FramesOf
<1>7. HeldFrames' = (HeldFrames \ FramesOf(g))
                      \cup {i \in FramesOf(g) : g.address + g.asked <= i}
  <2>1. HeldFrames' = (UNION {FramesOf(h) : h \in held \ {g}})
                        \cup (UNION {FramesOf(h) : h \in Leftover(g)})
    BY <1>3 DEF HeldFrames, FramesOf
  <2>2. UNION {FramesOf(h) : h \in held \ {g}} = HeldFrames \ FramesOf(g)
    BY DEF HeldFrames, IInv, Exclusive
  <2> QED
    BY <1>2, <2>1, <2>2
<1>8. Accounting'
  <2> SUFFICES ASSUME NEW i \in Frames
               PROVE  m_Bitmap'[i] <=> i \in reserved \cup HeldFrames'
    BY <1>3 DEF Accounting
  <2>1. CASE i \in FramesOf(g) /\ i < g.address + g.asked
    <3>1. ~m_Bitmap'[i] /\ i \notin reserved
      BY <1>1, <2>1 DEF FramesOf, IInv, Exclusive
    <3>2. i \notin HeldFrames'
      BY <1>1, <1>7, <2>1 DEF Frames
    <3> QED
      BY <3>1, <3>2
  <2>2. CASE i \in FramesOf(g) /\ ~(i < g.address + g.asked)
    <3>1. m_Bitmap'[i] = m_Bitmap[i] /\ i \in HeldFrames
      BY <1>1, <2>2 DEF HeldFrames
    <3>2. i \in HeldFrames'
      BY <1>1, <1>7, <2>2 DEF Frames
    <3> QED
      BY <3>1, <3>2 DEF IInv, Accounting
  <2>3. CASE i \notin FramesOf(g)
    <3>1. ~(g.address <= i /\ i < g.address + g.asked)
      BY <1>1, <2>3 DEF FramesOf, Frames
    <3>2. m_Bitmap'[i] = m_Bitmap[i]
      BY <1>1, <3>1
    <3> QED
      BY <1>7, <2>3, <3>2 DEF IInv, Accounting
  <2> QED
    BY <2>1, <2>2, <2>3
<1>9. GrantSize'
  <2>1. \A h \in Leftover(g) : h.taken = 1 /\ 1 \in Requests
    BY <1>1 DEF Leftover, Grant, IInv, GrantSize
  <2> QED
    BY <1>2, <1>3, <2>1 DEF IInv, GrantSize
<1>10. ScanInv' /\ 0 \in reserved'
  BY <1>3 DEF IInv, ScanInv
<1> QED
  BY <1>4, <1>6, <1>8, <1>9, <1>10 DEF IInv
-----------------------------------------------------------------------------
(* Every step keeps the invariant. *)
LEMMA NextIInv == IInv /\ [Next]_vars => IInv'
<1> SUFFICES ASSUME IInv, [Next]_vars PROVE IInv'
  OBVIOUS
<1>1. CASE CallPage \/ (\E n \in Requests : CallPages(n)) \/ PageEnd \/ PagesEnd
  BY <1>1, CallOrEndIInv
<1>2. CASE PageLocked
  BY <1>2, PageLockedIInv
<1>3. CASE PageFound
  BY <1>3, PageFoundIInv
<1>4. CASE PagesLocked \/ PagesFirst \/ PagesMore
  BY <1>4, PagesWalkIInv
<1>5. CASE PagesFound
  BY <1>5, PagesFoundIInv
<1>6. ASSUME NEW g \in held, FreeGrant(g) PROVE IInv'
  BY <1>6, FreeGrantIInv
<1>7. CASE UNCHANGED vars
  BY <1>7 DEF vars, IInv, TypeOK, Exclusive, Accounting, GrantSize, ScanInv,
              HeldFrames, FramesOf, Need
<1> QED
  BY <1>1, <1>2, <1>3, <1>4, <1>5, <1>6, <1>7 DEF Next, Scan

(* In every reachable state no frame is held twice, the bitmap agrees with  *)
(* what is reserved and held, and the loop of a call in progress has missed *)
(* no run (pfa.cpp:32-74, bitmap.cpp:44-105).                               *)
THEOREM Invariance == Spec => []IInv
<1>1. Init => IInv
  BY InitIInv
<1>2. IInv /\ [Next]_vars => IInv'
  BY NextIInv
<1> QED
  BY <1>1, <1>2, PTL DEF Spec

(* The frames of two callers never overlap, nor those of a caller and of    *)
(* the boot code, for any memory size and any sequence of calls.            *)
THEOREM MutualExclusion == Spec => []Exclusive
<1>1. IInv => Exclusive
  BY DEF IInv
<1> QED
  BY <1>1, Invariance, PTL

(* A caller may take a null pointer for a failure: frame 0 is reserved, so  *)
(* no grant starts there.                                                   *)
THEOREM NullIsFailure == Spec => []NullMeansFailure
<1>1. IInv => NullMeansFailure
  <2> SUFFICES ASSUME IInv, NEW g \in held PROVE g.address # 0
    BY DEF NullMeansFailure, nullptr
  <2>1. g.address \in Frames /\ g.taken \in Nat \ {0}
    BY DEF IInv, TypeOK
  <2>2. g.address \in FramesOf(g)
    BY <2>1, SizeFact DEF FramesOf, Frames
  <2> QED
    BY <2>2 DEF IInv, Exclusive
<1> QED
  BY <1>1, Invariance, PTL
-----------------------------------------------------------------------------
(* The refinement.  A step of a loop that does not return is a stutter of   *)
(* FramePool; the last one is a grant of the lowest run, or a refusal.      *)
FreeFrames == {i \in Frames : ~m_Bitmap[i]}
Runs == {<<g.address, g.taken>> : g \in held}
Pending == IF pc = "idle" THEN 0 ELSE Need
Lengths == {1} \cup {IF n = 1 THEN 2 ELSE n : n \in Requests}

(* A step that returns a run is a grant of the abstract pool. *)
LEMMA GrantStep ==
  ASSUME IInv,
         NEW a \in Frames,
         pc # "idle", pc' = "idle",
         a + Need <= SizeInBits,
         \A i \in Frames : a <= i /\ i < a + Need => ~m_Bitmap[i],
         \A c \in Frames : c < a => \E i \in c .. c + Need - 1 : i \in Frames /\ m_Bitmap[i],
         m_Bitmap' = [i \in Frames |->
                        IF a <= i /\ i < a + Need THEN TRUE ELSE m_Bitmap[i]],
         NEW asked \in Nat,
         held' = held \cup {Grant(a, asked, Need)}
  PROVE  Pool!Next
<1> USE SizeFact
<1>1. Need \in Nat /\ Need >= 1
  BY NeedFact DEF IInv
<1>2. Pending = Need /\ Pending # 0 /\ Pending' = 0
  BY <1>1 DEF Pending
<1>3. \A i \in a .. a + Need - 1 : i \in FreeFrames
  BY <1>1 DEF FreeFrames, Frames
<1>4. \A c \in Frames : c < a => ~(\A i \in c .. c + Need - 1 : i \in FreeFrames)
  BY DEF FreeFrames
<1>5. FreeFrames' = FreeFrames \ {i \in Frames : a <= i /\ i < a + Need}
  BY <1>1 DEF FreeFrames, IInv, TypeOK
<1>6. Runs' = Runs \cup {<<a, Need>>}
  <2>1. Grant(a, asked, Need).address = a /\ Grant(a, asked, Need).taken = Need
    BY DEF Grant
  <2> QED
    BY <2>1 DEF Runs
<1>7. Pool!Grant(a)
  BY <1>2, <1>3, <1>4, <1>5, <1>6
     DEF Pool!Grant, Pool!Fits, Pool!Run, FreeFrames, Runs, Pending
<1> QED
  BY <1>7 DEF Pool!Next

(* A loop that ends without a run is a refusal of the abstract pool. *)
LEMMA RefuseStep ==
  ASSUME IInv,
         pc # "idle", pc' = "idle",
         UNCHANGED <<m_Bitmap, held>>,
         \A b \in Frames :
           b + Need <= SizeInBits => \E i \in b .. b + Need - 1 : m_Bitmap[i]
  PROVE  Pool!Next
<1> USE SizeFact
<1>1. Need \in Nat /\ Need >= 1
  BY NeedFact DEF IInv
<1>2. Pending = Need /\ Pending # 0 /\ Pending' = 0
  BY <1>1 DEF Pending
<1>3. ASSUME NEW b \in Frames PROVE ~(\A i \in b .. b + Need - 1 : i \in FreeFrames)
  <2>1. CASE b + Need <= SizeInBits
    BY <2>1 DEF FreeFrames
  <2>2. CASE b + Need > SizeInBits
    <3>1. SizeInBits \in b .. b + Need - 1 /\ SizeInBits \notin Frames
      BY <1>1, <2>2 DEF Frames
    <3> QED
      BY <3>1 DEF FreeFrames
  <2> QED
    BY <1>1, <2>1, <2>2 DEF Frames
<1>4. FreeFrames' = FreeFrames /\ Runs' = Runs
  BY DEF FreeFrames, Runs
<1>5. Pool!Refuse
  BY <1>2, <1>3, <1>4 DEF Pool!Refuse, Pool!Fits, FreeFrames, Runs, Pending
<1> QED
  BY <1>5 DEF Pool!Next

(* A free is one of the abstract pool. *)
LEMMA GiveStep ==
  ASSUME IInv, NEW g \in held, FreeGrant(g)
  PROVE  Pool!Next
<1> USE SizeFact
<1>1. /\ g.asked \in Nat /\ g.asked >= 1 /\ g.asked <= g.taken
      /\ g.taken \in Nat /\ g.address \in Frames
      /\ m_Bitmap' = [i \in Frames |->
           IF g.address <= i /\ i < g.address + g.asked THEN FALSE ELSE m_Bitmap[i]]
  BY FreeFact
<1> DEFINE r == <<g.address, g.taken>>
<1>2. r \in Runs /\ r[1] = g.address /\ r[2] = g.taken /\ g.asked \in 1 .. r[2]
  BY <1>1 DEF Runs
<1>3. Pending = 0 /\ Pending' = Pending
  BY DEF Pending, FreeGrant
<1>4. FreeFrames' = FreeFrames \cup {i \in Frames : r[1] <= i /\ i < r[1] + g.asked}
  BY <1>1 DEF FreeFrames, IInv, TypeOK
<1>5. \A h \in held : <<h.address, h.taken>> = r => h = g
  <2> SUFFICES ASSUME NEW h \in held, <<h.address, h.taken>> = r, h # g PROVE FALSE
    OBVIOUS
  <2>1. h.address = g.address /\ h.taken = g.taken
    OBVIOUS
  <2>2. g.address \in FramesOf(g) /\ g.address \in FramesOf(h)
    BY <1>1, <2>1 DEF FramesOf, Frames
  <2> QED
    BY <2>2 DEF IInv, Exclusive
<1>6. {<<h.address, h.taken>> : h \in held \ {g}} = Runs \ {r}
  BY <1>5 DEF Runs
<1>7. {<<h.address, h.taken>> : h \in Leftover(g)} =
        IF g.asked < r[2] THEN {<<r[1] + g.asked, r[2] - g.asked>>} ELSE {}
  <2>1. CASE g.asked < g.taken
    <3> DEFINE h == Grant(g.address + g.asked, 0, g.taken - g.asked)
    <3>1. h.address = g.address + g.asked /\ h.taken = g.taken - g.asked
      BY DEF Grant
    <3>2. Leftover(g) = {h}
      BY <2>1 DEF Leftover
    <3> HIDE DEF h
    <3> QED
      BY <1>2, <2>1, <3>1, <3>2
  <2>2. CASE ~(g.asked < g.taken)
    BY <1>2, <2>2 DEF Leftover
  <2> QED
    BY <2>1, <2>2
<1>8. Runs' = (Runs \ {r}) \cup
        (IF g.asked < r[2] THEN {<<r[1] + g.asked, r[2] - g.asked>>} ELSE {})
  <2>1. held' = (held \ {g}) \cup Leftover(g)
    BY DEF FreeGrant
  <2>2. Runs' = {<<h.address, h.taken>> : h \in held \ {g}}
                  \cup {<<h.address, h.taken>> : h \in Leftover(g)}
    BY <2>1 DEF Runs
  <2> QED
    BY <1>6, <1>7, <2>2
<1>9. Pool!Give(r, g.asked)
  <2> HIDE DEF r
  <2> QED
    BY <1>3, <1>4, <1>8 DEF Pool!Give, Pool!Run, FreeFrames, Runs, Pending
<1> QED
  BY <1>2, <1>9 DEF Pool!Next, Runs

(* Every step is one of the abstract pool, or a stutter. *)
LEMMA PoolStep == IInv /\ [Next]_vars => [Pool!Next]_Pool!poolVars
<1> SUFFICES ASSUME IInv, [Next]_vars PROVE [Pool!Next]_Pool!poolVars
  OBVIOUS
<1> USE SizeFact
<1>1. CASE CallPage
  <2>1. Pending = 0 /\ Pending' = 1 /\ FreeFrames' = FreeFrames /\ Runs' = Runs
    BY <1>1 DEF CallPage, Pending, Need, FreeFrames, Runs
  <2>2. Pool!Request(1)
    BY <2>1 DEF Pool!Request, Pending, FreeFrames, Runs
  <2>3. 1 \in Lengths
    BY DEF Lengths
  <2> QED
    BY <2>2, <2>3 DEF Pool!Next, Lengths
<1>2. ASSUME NEW n \in Requests, CallPages(n) PROVE Pool!Next
  <2> DEFINE k == IF n = 1 THEN 2 ELSE n
  <2>1. Pending = 0 /\ Pending' = k /\ FreeFrames' = FreeFrames /\ Runs' = Runs
    BY <1>2 DEF CallPages, Pending, Need, FreeFrames, Runs
  <2>2. Pool!Request(k)
    BY <2>1 DEF Pool!Request, Pending, FreeFrames, Runs
  <2>3. k \in Lengths
    BY DEF Lengths
  <2> HIDE DEF k
  <2> QED
    BY <2>2, <2>3 DEF Pool!Next, Lengths
<1>3. CASE PageLocked \/ PagesLocked \/ PagesFirst \/ PagesMore
  <2>1. UNCHANGED <<m_Bitmap, held, pc, count>>
    BY <1>3 DEF PageLocked, PagesLocked, PagesFirst, PagesMore
  <2> QED
    BY <2>1 DEF Pool!poolVars, Need
<1>4. CASE PageFound
  <2>1. index \in Frames /\ Need = 1 /\ index + Need <= SizeInBits
    BY <1>4 DEF IInv, TypeOK, PageFound, Frames, Need
  <2>2. \A i \in Frames : index <= i /\ i < index + Need <=> i = index
    BY <2>1 DEF Frames
  <2>3. \A c \in Frames : c < index =>
          \E i \in c .. c + Need - 1 : i \in Frames /\ m_Bitmap[i]
    <3> SUFFICES ASSUME NEW c \in Frames, c < index
                 PROVE  c \in c .. c + Need - 1 /\ m_Bitmap[c]
      OBVIOUS
    <3> QED
      BY <2>1, <1>4 DEF PageFound, IInv, ScanInv, Frames
  <2>4. m_Bitmap' = [i \in Frames |-> IF index <= i /\ i < index + Need
                                        THEN TRUE ELSE m_Bitmap[i]]
    <3>1. m_Bitmap' = [i \in Frames |-> IF i = index THEN TRUE ELSE m_Bitmap[i]]
      BY <1>4 DEF IInv, TypeOK, PageFound, LockPage, SetBit
    <3> QED
      BY <2>2, <3>1
  <2>5. /\ pc # "idle" /\ pc' = "idle" /\ 1 \in Nat
        /\ held' = held \cup {Grant(index, 1, Need)}
        /\ \A i \in Frames : index <= i /\ i < index + Need => ~m_Bitmap[i]
    BY <1>4, <2>1, <2>2 DEF PageFound, Return
  <2> HIDE SizeFact
  <2> QED
    BY <2>1, <2>3, <2>4, <2>5, GrantStep
<1>5. CASE PagesFound
  <2>1. /\ index \in Frames /\ ~m_Bitmap[index] /\ pc = "pages"
        /\ found # 0 /\ found + 1 >= count /\ count \in Requests /\ count \in Nat \ {0}
        /\ found \in Nat /\ found < Need /\ found <= index
        /\ address = index - found /\ address \in Frames
    BY <1>5, RequestsAssumption
       DEF IInv, TypeOK, ScanInv, PagesFound, Frames, Enough
  <2>2. Need = found + 1 /\ address + Need = index + 1 /\ Need \in Nat
        /\ address + Need <= SizeInBits
    BY <2>1 DEF Need, Frames
  <2>3. \A i \in Frames : address <= i /\ i < address + Need => ~m_Bitmap[i]
    <3> SUFFICES ASSUME NEW i \in Frames, index - found <= i, i < index + 1
                 PROVE  ~m_Bitmap[i]
      BY <2>1, <2>2
    <3>1. CASE i = index
      BY <3>1, <2>1
    <3>2. CASE i < index
      BY <3>2, <2>1 DEF IInv, ScanInv
    <3> QED
      BY <3>1, <3>2, <2>1 DEF Frames
  <2>4. \A c \in Frames : c < address =>
          \E i \in c .. c + Need - 1 : i \in Frames /\ m_Bitmap[i]
    <3> SUFFICES ASSUME NEW c \in Frames, c < address
                 PROVE  \E i \in c .. c + Need - 1 : i \in Frames /\ m_Bitmap[i]
      OBVIOUS
    <3>1. c + Need <= index
      BY <2>1, <2>2 DEF Frames
    <3>2. PICK i \in c .. c + Need - 1 : m_Bitmap[i]
      BY <3>1, <2>1 DEF IInv, ScanInv
    <3>3. i \in Frames
      BY <2>1, <2>2, <3>1 DEF Frames
    <3> QED
      BY <3>2, <3>3
  <2>5. m_Bitmap' = [i \in Frames |-> IF address <= i /\ i < address + Need
                                        THEN TRUE ELSE m_Bitmap[i]]
    BY <1>5, <2>2 DEF IInv, TypeOK, PagesFound, LockPages, FillBits
  <2>6. /\ pc # "idle" /\ pc' = "idle" /\ count \in Nat
        /\ held' = held \cup {Grant(address, count, Need)}
    BY <1>5, <2>1, <2>2 DEF PagesFound, Return
  <2> HIDE SizeFact
  <2> QED
    BY <2>1, <2>2, <2>3, <2>4, <2>5, <2>6, GrantStep
<1>6. CASE PageEnd \/ PagesEnd
  <2>1. pc # "idle" /\ pc' = "idle" /\ UNCHANGED <<m_Bitmap, held>>
    BY <1>6 DEF PageEnd, PagesEnd, Return
  <2>2. \A b \in Frames :
          b + Need <= SizeInBits => \E i \in b .. b + Need - 1 : m_Bitmap[i]
    <3>1. CASE PageEnd
      <4> SUFFICES ASSUME NEW b \in Frames
                   PROVE  b \in b .. b + Need - 1 /\ m_Bitmap[b]
        OBVIOUS
      <4> QED
        BY <3>1 DEF PageEnd, IInv, ScanInv, Need, Frames
    <3>2. CASE PagesEnd
      BY <3>2 DEF PagesEnd, IInv, ScanInv
    <3> QED
      BY <1>6, <3>1, <3>2
  <2> HIDE SizeFact
  <2> QED
    BY <2>1, <2>2, RefuseStep
<1>7. ASSUME NEW g \in held, FreeGrant(g) PROVE Pool!Next
  BY <1>7, GiveStep
<1>8. CASE UNCHANGED vars
  BY <1>8 DEF vars, Pool!poolVars, Need
<1> QED
  BY <1>1, <1>2, <1>3, <1>4, <1>5, <1>6, <1>7, <1>8 DEF Next, Scan

(* The page frame allocator implements FramePool: what it hands out is the  *)
(* lowest free run that is long enough, it returns null only when there is  *)
(* none, and what is freed may be handed out again.                         *)
THEOREM Refinement == Spec => PoolSpec
<1>1. Init => Pool!Init
  <2> SUFFICES ASSUME Init PROVE Pool!Init
    OBVIOUS
  <2>1. FreeFrames \in SUBSET (Frames \ {0})
    BY SizeFact DEF Init, FreeFrames, LowReserve, Frames
  <2>2. Runs = {} /\ Pending = 0
    BY DEF Init, Runs, Pending
  <2> QED
    BY <2>1, <2>2 DEF Pool!Init, FreeFrames, Runs, Pending
<1>2. IInv /\ [Next]_vars => [Pool!Next]_Pool!poolVars
  BY PoolStep
<1> QED
  BY <1>1, <1>2, Invariance, PTL DEF Spec, PoolSpec, Pool!Spec
=============================================================================
