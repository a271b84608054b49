----------------------------- MODULE MemHeap_proof ----------------------------
(***************************************************************************)
(* Proofs about MemHeap, for a heap of any size: the list of structs stays *)
(* whole, no memory is lost, and the areas are those of an Allocator.      *)
(*                                                                         *)
(* HeapIntact is not inductive: that plug_holes finds the struct before    *)
(* the one it frees, that a split leaves no two free structs side by side  *)
(* and that mem_trim may go by a size it has read before it locked, need   *)
(* ChainOK (prev is where next comes from), NoHoles and TrimOK.            *)
(***************************************************************************)
EXTENDS MemHeap, WellFoundedInduction, TLAPS

\* N and P link the structs, in the order of their positions.  What P has for
\* the end of the heap is never read.
ChainOK(N, P) ==
  /\ DOMAIN P = DOMAIN N
  /\ DOMAIN N \subseteq 0 .. ram_end
  /\ {0, ram_end} \subseteq DOMAIN N
  /\ \A p \in DOMAIN N \ {ram_end} :
       /\ N[p] \in DOMAIN N
       /\ p + SIZEOF_STRUCT_MEM + MIN_SIZE <= N[p]
       /\ \A q \in DOMAIN N : q <= p \/ N[p] <= q
  /\ \A p \in DOMAIN N \ {0, ram_end} :
       /\ P[p] \in DOMAIN N \ {ram_end}
       /\ N[P[p]] = p
  /\ P[0] = 0

\* "There should not exist one empty struct mem pointing to another empty
\* struct mem" (mem.c:226).
NoHoles ==
  /\ ram_end \in used /\ used \subseteq DOMAIN next
  /\ \A p \in Structs : p \in used \/ next[p] \in used

LowestFree ==
  /\ lfree \in DOMAIN next
  /\ \A p \in Structs : p \in used \/ lfree <= p
  /\ lfree = ram_end \/ lfree \notin used

AskedOK ==
  /\ DOMAIN asked = used \ {ram_end}
  /\ \A p \in DOMAIN asked : asked[p] \in Sizes /\ asked[p] <= Room(p)

\* What a thread has read of its struct before it locks is still so.
ReadIsSo(r) ==
  /\ r.mem \in DOMAIN asked
  /\ MIN_SIZE <= r.newsize
  /\ asked[r.mem] <= r.newsize
  /\ r.newsize < Room(r.mem)
  /\ r.size = Room(r.mem)

TrimOK ==
  /\ trim \in [Threads -> [mem : Nat, newsize : Nat, size : Nat]]
  /\ \A t \in Threads : trim[t] = NoTrim \/ ReadIsSo(trim[t])
  /\ \A t, o \in Threads : t # o => trim[t].mem # trim[o].mem \/ trim[t] = NoTrim

IInv ==
  /\ ChainOK(next, prev)
  /\ NoHoles
  /\ LowestFree
  /\ AskedOK
  /\ TrimOK

USE HeapAssumption

-----------------------------------------------------------------------------
(* The least member of a set of numbers.                                   *)

NatLess == {ss \in Nat \X Nat : ss[1] < ss[2]}

\* A search upwards for one of S ends at the lowest of S.
LEMMA LowestExists ==
  ASSUME NEW S, S \subseteq Nat, S # {}
  PROVE  Lowest(S) \in S /\ \A q \in S : Lowest(S) <= q
<1>1. IsWellFoundedOn(NatLess, Nat)
  BY NatLessThanWellFounded DEF OpToRel, NatLess
<1>2. PICK x \in S : \A y \in S : <<y, x>> \notin NatLess
  BY <1>1, WFMin
<1>3. \A y \in S : x <= y
  <2>1. SUFFICES ASSUME NEW y \in S, ~(x <= y) PROVE FALSE
    OBVIOUS
  <2>2. x \in Nat /\ y \in Nat /\ y < x
    BY <2>1
  <2>3. <<y, x>> \in NatLess
    BY <2>2 DEF NatLess
  <2>. QED  BY <2>3, <1>2
<1>. QED  BY <1>3 DEF Lowest

-----------------------------------------------------------------------------
(* What the three changes of the list do to a chain, for any N and P.      *)

\* A struct q made in what p has, as mem_malloc and mem_trim do.
LEMMA InsertChain ==
  ASSUME NEW N, NEW P, ChainOK(N, P), NEW p \in DOMAIN N \ {ram_end}, NEW q \in Nat,
         p + SIZEOF_STRUCT_MEM + MIN_SIZE <= q,
         q + SIZEOF_STRUCT_MEM + MIN_SIZE <= N[p],
         NEW N2, NEW P2,
         DOMAIN N2 = DOMAIN N \cup {q}, DOMAIN P2 = DOMAIN N \cup {q},
         N2[q] = N[p], N2[p] = q,
         \A x \in DOMAIN N \ {p} : N2[x] = N[x],
         P2[q] = p,
         \A x \in DOMAIN N \ {N[p], ram_end} : P2[x] = P[x],
         N[p] # ram_end => P2[N[p]] = q
  PROVE  ChainOK(N2, P2) /\ q \notin DOMAIN N
<1>1. q \notin DOMAIN N /\ p \in Nat /\ N[p] \in Nat /\ q \in 0 .. ram_end /\ q # 0 /\ q # ram_end
  BY DEF ChainOK, ram_end
<1>2. ASSUME NEW x \in DOMAIN N2 \ {ram_end}
      PROVE  /\ N2[x] \in DOMAIN N2
             /\ x + SIZEOF_STRUCT_MEM + MIN_SIZE <= N2[x]
             /\ \A y \in DOMAIN N2 : y <= x \/ N2[x] <= y
  <2>1. CASE x = q
    BY <1>1, <2>1 DEF ChainOK, ram_end
  <2>2. CASE x = p
    BY <1>1, <2>2 DEF ChainOK, ram_end
  <2>3. CASE x \in DOMAIN N \ {p, ram_end}
    BY <1>1, <2>3 DEF ChainOK, ram_end
  <2>4. QED  BY <2>1, <2>2, <2>3
<1>3. ASSUME NEW x \in DOMAIN N2 \ {0, ram_end}
      PROVE  P2[x] \in DOMAIN N2 \ {ram_end} /\ N2[P2[x]] = x
  <2>1. CASE x = q
    BY <1>1, <2>1 DEF ChainOK
  <2>2. CASE x = N[p]
    BY <1>1, <2>2 DEF ChainOK
  <2>3. CASE x \in DOMAIN N \ {N[p]}
    BY <1>1, <2>3, <1>3 DEF ChainOK
  <2>4. QED  BY <2>1, <2>2, <2>3
<1>4. P2[0] = 0
  BY <1>1 DEF ChainOK, ram_end
<1>5. QED  BY <1>1, <1>2, <1>3, <1>4 DEF ChainOK

\* The struct after p joined with p, as plug_holes does.
LEMMA RemoveChain ==
  ASSUME NEW N, NEW P, ChainOK(N, P), NEW p \in DOMAIN N \ {ram_end}, N[p] # ram_end,
         NEW N2, NEW P2,
         DOMAIN N2 = DOMAIN N \ {N[p]}, DOMAIN P2 = DOMAIN N \ {N[p]},
         N2[p] = N[N[p]],
         \A x \in DOMAIN N \ {p, N[p]} : N2[x] = N[x],
         \A x \in DOMAIN N \ {N[p], N[N[p]], ram_end} : P2[x] = P[x],
         N[N[p]] # ram_end => P2[N[N[p]]] = p
  PROVE  ChainOK(N2, P2)
<1> DEFINE q == N[p]
<1>1. /\ q \in DOMAIN N \ {ram_end} /\ q \in Nat /\ p \in Nat /\ p < q /\ q # 0
      /\ N[q] \in DOMAIN N /\ N[q] \in Nat /\ q < N[q]
  BY DEF ChainOK, ram_end
<1>2. ASSUME NEW x \in DOMAIN N2 \ {ram_end}
      PROVE  /\ N2[x] \in DOMAIN N2
             /\ x + SIZEOF_STRUCT_MEM + MIN_SIZE <= N2[x]
             /\ \A y \in DOMAIN N2 : y <= x \/ N2[x] <= y
  <2>1. CASE x = p
    BY <1>1, <2>1 DEF ChainOK, ram_end
  <2>2. CASE x # p
    <3>1. N2[x] = N[x] /\ N[x] \in DOMAIN N
      BY <2>2, <1>1 DEF ChainOK
    <3>2. N[x] # q
      BY <2>2, <1>1 DEF ChainOK, ram_end
    <3>3. QED  BY <3>1, <3>2, <2>2 DEF ChainOK
  <2>3. QED  BY <2>1, <2>2
<1>3. ASSUME NEW x \in DOMAIN N2 \ {0, ram_end}
      PROVE  P2[x] \in DOMAIN N2 \ {ram_end} /\ N2[P2[x]] = x
  <2>1. CASE x = N[q]
    BY <1>1, <2>1
  <2>2. CASE x # N[q]
    <3>1. P2[x] = P[x] /\ P[x] \in DOMAIN N \ {ram_end} /\ N[P[x]] = x
      BY <2>2, <1>1 DEF ChainOK
    <3>2. P[x] # q /\ P[x] # p
      BY <3>1, <2>2, <1>1
    <3>3. QED  BY <3>1, <3>2
  <2>3. QED  BY <2>1, <2>2
<1>4. P2[0] = 0
  BY <1>1 DEF ChainOK, ram_end
<1>5. QED  BY <1>1, <1>2, <1>3, <1>4 DEF ChainOK

\* mem_malloc and the second branch of mem_trim.
LEMMA SplitChain ==
  ASSUME ChainOK(next, prev), NEW p \in Structs, NEW q \in Nat,
         p + SIZEOF_STRUCT_MEM + MIN_SIZE <= q,
         q + SIZEOF_STRUCT_MEM + MIN_SIZE <= next[p],
         Split(p, q)
  PROVE  /\ ChainOK(next', prev') /\ q \notin DOMAIN next
         /\ DOMAIN next' = DOMAIN next \cup {q}
         /\ next'[q] = next[p] /\ next'[p] = q
         /\ \A x \in DOMAIN next \ {p} : next'[x] = next[x]
<1>1. q \notin DOMAIN next /\ q # p
  BY DEF ChainOK, Structs, ram_end
<1>2. /\ DOMAIN next' = DOMAIN next \cup {q} /\ DOMAIN prev' = DOMAIN next \cup {q}
      /\ next'[q] = next[p] /\ next'[p] = q
      /\ \A x \in DOMAIN next \ {p} : next'[x] = next[x]
  BY <1>1 DEF Split, Structs, ChainOK
<1>3. /\ prev'[q] = p
      /\ \A x \in DOMAIN next \ {next[p], ram_end} : prev'[x] = prev[x]
      /\ next[p] # ram_end => prev'[next[p]] = q
  BY <1>1 DEF Split, Structs, ChainOK
<1>4. ChainOK(next', prev')
  BY <1>2, <1>3, InsertChain DEF Structs
<1>5. QED  BY <1>1, <1>2, <1>4

\* The first branch of mem_trim: the next struct leaves and comes back at q.
LEMMA MoveChain ==
  ASSUME ChainOK(next, prev), NEW p \in Structs, next[p] # ram_end, NEW q \in Nat,
         p + SIZEOF_STRUCT_MEM + MIN_SIZE <= q, q < next[p],
         MoveNext(p, q)
  PROVE  /\ ChainOK(next', prev') /\ q \notin DOMAIN next
         /\ DOMAIN next' = (DOMAIN next \ {next[p]}) \cup {q}
         /\ next'[q] = next[next[p]] /\ next'[p] = q
         /\ \A x \in DOMAIN next \ {p, next[p]} : next'[x] = next[x]
<1> DEFINE r == next[p]
           N == [x \in DOMAIN next \ {r} |-> IF x = p THEN next[r] ELSE next[x]]
           P == [x \in DOMAIN next \ {r} |-> IF x = next[r] THEN p ELSE prev[x]]
<1>1. /\ r \in Structs /\ r \in Nat /\ p \in Nat /\ p < r
      /\ next[r] \in DOMAIN next /\ r + SIZEOF_STRUCT_MEM + MIN_SIZE <= next[r]
      /\ q \notin DOMAIN next /\ next[r] # r /\ next[r] \in Nat /\ p # next[r]
  BY DEF ChainOK, Structs, ram_end
<1>2. ChainOK(N, P)
  BY <1>1, RemoveChain DEF Structs
<1>3. /\ DOMAIN next' = DOMAIN N \cup {q} /\ DOMAIN prev' = DOMAIN N \cup {q}
      /\ next'[q] = next[r] /\ next'[p] = q
      /\ \A x \in DOMAIN next \ {p, r} : next'[x] = next[x]
  BY <1>1 DEF MoveNext, Structs, ChainOK
<1>4. /\ prev'[q] = p
      /\ \A x \in DOMAIN N \ {next[r], ram_end} : prev'[x] = P[x]
      /\ next[r] # ram_end => prev'[next[r]] = q
  BY <1>1 DEF MoveNext, Structs, ChainOK
<1>5. ChainOK(next', prev')
  <2>1. /\ p \in DOMAIN N \ {ram_end} /\ N[p] = next[r]
        /\ \A x \in DOMAIN N \ {p} : next'[x] = N[x]
        /\ q + SIZEOF_STRUCT_MEM + MIN_SIZE <= N[p]
    BY <1>1, <1>3 DEF Structs
  <2> HIDE DEF N, P
  <2>2. QED  BY <1>2, <1>3, <1>4, <2>1, InsertChain
<1>6. QED  BY <1>1, <1>3, <1>5

\* plug_holes: the struct that is left in place of mem, and what follows it.
Base(mem) == IF PrevFree(mem) THEN prev[mem] ELSE mem
After(mem) == IF NextFree(mem) THEN next[next[mem]] ELSE next[mem]
Gone(mem) ==
  (IF NextFree(mem) THEN {next[mem]} ELSE {}) \cup (IF PrevFree(mem) THEN {mem} ELSE {})

LEMMA PlugChain ==
  ASSUME ChainOK(next, prev), NoHoles, NEW mem \in Structs, NEW low, plug_holes(mem, low)
  PROVE  /\ ChainOK(next', prev')
         /\ DOMAIN next' = DOMAIN next \ Gone(mem)
         /\ Base(mem) \in Structs \ Gone(mem)
         /\ next'[Base(mem)] = After(mem)
         /\ \A x \in DOMAIN next \ (Gone(mem) \cup {Base(mem)}) : next'[x] = next[x]
<1> DEFINE r == next[mem]
           b == prev[mem]
<1>1. /\ mem \in Nat /\ r \in Nat /\ mem < r /\ r \in DOMAIN next
      /\ NextFree(mem) => /\ r \in Structs /\ r # ram_end /\ r < next[r]
                          /\ next[r] \in DOMAIN next /\ next[r] \in Nat
      /\ PrevFree(mem) => /\ b \in Structs /\ next[b] = mem /\ b \in Nat /\ b < mem
                          /\ mem # 0
  BY DEF ChainOK, Structs, ram_end, NoHoles, NextFree, PrevFree
<1>2. /\ DOMAIN next' = DOMAIN next \ Gone(mem) /\ DOMAIN prev' = DOMAIN next \ Gone(mem)
      /\ \A x \in DOMAIN next' : next'[x] = IF x = Base(mem) THEN After(mem) ELSE next[x]
      /\ \A x \in DOMAIN next' :
            prev'[x] = IF x = After(mem) /\ Gone(mem) # {} THEN Base(mem) ELSE prev[x]
  BY DEF plug_holes, Gone, Base, After, ChainOK
<1>3. Base(mem) \in Structs \ Gone(mem)
  BY <1>1 DEF Base, Gone, Structs, NextFree, PrevFree
<1>4. ChainOK(next', prev')
  <2> DEFINE N == [x \in DOMAIN next \ {r} |-> IF x = mem THEN next[r] ELSE next[x]]
             P == [x \in DOMAIN next \ {r} |-> IF x = next[r] THEN mem ELSE prev[x]]
  <2>1. CASE ~NextFree(mem) /\ ~PrevFree(mem)
    <3>1. Gone(mem) = {} /\ Base(mem) = mem /\ After(mem) = r
      BY <2>1 DEF Gone, Base, After
    <3>2. DOMAIN next' = DOMAIN next /\ DOMAIN prev' = DOMAIN prev
      BY <3>1, <1>2 DEF ChainOK
    <3>3. \A x \in DOMAIN next : next'[x] = next[x] /\ prev'[x] = prev[x]
      BY <3>1, <1>2
    <3>4. QED  BY <3>2, <3>3 DEF ChainOK
  <2>2. CASE NextFree(mem) /\ ~PrevFree(mem)
    <3>1. Gone(mem) = {r} /\ Base(mem) = mem /\ After(mem) = next[r] /\ r # ram_end
      BY <2>2, <1>1 DEF Gone, Base, After, NextFree, Structs
    <3>2. /\ next'[mem] = next[r]
          /\ \A x \in DOMAIN next \ {mem, r} : next'[x] = next[x]
          /\ \A x \in DOMAIN next \ {r, next[r], ram_end} : prev'[x] = prev[x]
          /\ next[r] # ram_end => prev'[next[r]] = mem
      BY <3>1, <2>2, <1>1, <1>2 DEF Structs
    <3>3. DOMAIN next' = DOMAIN next \ {r} /\ DOMAIN prev' = DOMAIN next \ {r}
      BY <3>1, <1>2
    <3>4. mem \in DOMAIN next \ {ram_end}
      BY DEF Structs
    <3>5. QED  BY <3>1, <3>2, <3>3, <3>4, RemoveChain
  <2>3. CASE ~NextFree(mem) /\ PrevFree(mem)
    <3>1. Gone(mem) = {mem} /\ Base(mem) = b /\ After(mem) = r
      BY <2>3 DEF Gone, Base, After
    <3>2. mem # ram_end /\ next[b] = mem /\ b \in DOMAIN next \ {ram_end}
      BY <1>1, <2>3 DEF Structs
    <3>3. /\ next'[b] = next[mem]
          /\ \A x \in DOMAIN next \ {b, mem} : next'[x] = next[x]
          /\ \A x \in DOMAIN next \ {mem, next[mem], ram_end} : prev'[x] = prev[x]
          /\ next[mem] # ram_end => prev'[next[mem]] = b
      BY <3>1, <3>2, <1>1, <1>2, <1>3 DEF Structs
    <3>4. DOMAIN next' = DOMAIN next \ {mem} /\ DOMAIN prev' = DOMAIN next \ {mem}
      BY <3>1, <1>2
    <3>5. QED  BY <3>2, <3>3, <3>4, RemoveChain
  <2>4. CASE NextFree(mem) /\ PrevFree(mem)
    <3>1. Gone(mem) = {r, mem} /\ Base(mem) = b /\ After(mem) = next[r] /\ r # ram_end
      BY <2>4, <1>1 DEF Gone, Base, After, NextFree, Structs
    <3>2. ChainOK(N, P)
      BY <3>1, <2>4, <1>1, RemoveChain DEF Structs
    <3>3. /\ b \in DOMAIN N \ {ram_end} /\ N[b] = mem /\ mem # ram_end
          /\ mem \in DOMAIN N /\ N[mem] = next[r]
      <4>1. b # r /\ b # mem /\ mem # r /\ b \in Structs /\ next[b] = mem
        BY <1>1, <2>4
      <4>2. QED  BY <4>1 DEF Structs
    <3>4. /\ DOMAIN next' = DOMAIN N \ {mem} /\ DOMAIN prev' = DOMAIN N \ {mem}
          /\ next'[b] = N[mem]
          /\ \A x \in DOMAIN N \ {b, mem} : next'[x] = N[x]
      <4>1. b # r /\ b # mem /\ mem # r
        BY <1>1, <2>4
      <4>2. QED  BY <4>1, <3>1, <3>3, <1>2, <1>3
    <3>5. /\ \A x \in DOMAIN N \ {mem, N[mem], ram_end} : prev'[x] = P[x]
          /\ N[mem] # ram_end => prev'[N[mem]] = b
      <4>1. b # r /\ b # mem /\ mem # r /\ next[r] # r /\ next[r] # mem /\ next[r] # b
        BY <1>1, <2>4
      <4>2. \A x \in DOMAIN next \ {r, mem} :
              prev'[x] = IF x = next[r] THEN b ELSE prev[x]
        BY <3>1, <1>2
      <4>3. \A x \in DOMAIN N \ {mem, N[mem], ram_end} : prev'[x] = P[x]
        BY <4>1, <4>2, <3>3
      <4>4. next[r] \in DOMAIN next \ {r, mem}
        BY <4>1, <1>1, <2>4
      <4>5. QED  BY <4>2, <4>3, <4>4, <3>3
    <3> HIDE DEF N, P
    <3>6. QED  BY <3>2, <3>3, <3>4, <3>5, RemoveChain
  <2>5. QED  BY <2>1, <2>2, <2>3, <2>4
<1>5. QED  BY <1>2, <1>3, <1>4 DEF Structs

-----------------------------------------------------------------------------
(* The inductive invariant.                                                *)

LEMMA IInvInit == Init => IInv
<1> SUFFICES ASSUME Init PROVE IInv
  OBVIOUS
<1>1. ChainOK(next, prev)
  BY DEF Init, ChainOK, ram_end
<1>2. NoHoles /\ LowestFree /\ AskedOK
  BY DEF Init, NoHoles, LowestFree, AskedOK, Structs, ram_end
<1>3. TrimOK
  BY DEF Init, TrimOK, NoTrim, ram_end
<1>4. QED  BY <1>1, <1>2, <1>3 DEF IInv

\* Positions are numbers, and Room is what is left between two structs.
LEMMA PositionTypes ==
  ASSUME ChainOK(next, prev)
  PROVE  /\ DOMAIN next \subseteq Nat /\ ram_end \in Nat
         /\ \A p \in Structs : /\ p \in Nat /\ next[p] \in Nat /\ next[p] \in DOMAIN next
                               /\ p < ram_end
                               /\ Room(p) \in Nat /\ MIN_SIZE <= Room(p)
BY DEF ChainOK, Structs, Room, ram_end

\* What mem_trim has read stays so while no struct of a thread changes.
LEMMA TrimKept ==
  ASSUME TrimOK, UNCHANGED trim,
         \A p \in DOMAIN asked :
           (\E t \in Threads : trim[t].mem = p)
             => p \in DOMAIN asked' /\ asked'[p] = asked[p] /\ Room(p)' = Room(p)
  PROVE  TrimOK'
<1>1. ASSUME NEW t \in Threads PROVE trim'[t] = NoTrim \/ (ReadIsSo(trim[t]))'
  <2> DEFINE Read(r) == /\ r.mem \in DOMAIN asked'
                        /\ MIN_SIZE <= r.newsize
                        /\ asked'[r.mem] <= r.newsize
                        /\ r.newsize < next'[r.mem] - (r.mem + SIZEOF_STRUCT_MEM)
                        /\ r.size = next'[r.mem] - (r.mem + SIZEOF_STRUCT_MEM)
  <2>1. trim[t] = NoTrim \/ Read(trim[t])
    BY DEF TrimOK, ReadIsSo, Room
  <2>2. QED  BY <2>1 DEF ReadIsSo, Room
<1>2. QED  BY <1>1 DEF TrimOK, NoTrim, ram_end

\* mem_malloc takes a struct that is free and long enough.
LEMMA FitsTaken ==
  ASSUME IInv, NEW size \in Nat, Fits(size) # {}
  PROVE  LET mem == Lowest(Fits(size))
         IN mem \in Structs /\ mem \notin used /\ size <= Room(mem) /\ lfree <= mem
<1>1. Fits(size) \subseteq Nat
  BY PositionTypes DEF Fits, IInv
<1>2. Lowest(Fits(size)) \in Fits(size)
  BY <1>1, LowestExists
<1>3. QED  BY <1>2, PositionTypes DEF Fits, IInv

LEMMA MallocInv ==
  ASSUME IInv, NEW wanted \in Sizes, mem_malloc(wanted)
  PROVE  IInv'
<1> DEFINE size == AtLeast(wanted)
           mem == Lowest(Fits(size))
           ptr2 == mem + SIZEOF_STRUCT_MEM + size
<1>1. /\ size \in Nat /\ MIN_SIZE <= size /\ wanted <= size /\ wanted \in Nat
  BY DEF AtLeast
<1>2. Fits(size) # {}
  BY DEF mem_malloc
<1>3. /\ mem \in Structs /\ mem \notin used /\ size <= Room(mem) /\ lfree <= mem
      /\ mem \in Nat /\ next[mem] \in used /\ lfree \in Nat
  BY <1>1, <1>2, FitsTaken, PositionTypes DEF IInv, NoHoles, LowestFree
<1>4. /\ used' = used \cup {mem}
      /\ lfree' = IF mem = lfree
                  THEN Lowest({p \in DOMAIN next' : p >= mem /\ (p \notin used' \/ p = ram_end)})
                  ELSE lfree
      /\ asked' = [p \in DOMAIN asked \cup {mem} |-> IF p = mem THEN wanted ELSE asked[p]]
      /\ UNCHANGED trim
  BY DEF mem_malloc
<1> HIDE DEF mem, size
<1>5. /\ ChainOK(next', prev')
      /\ DOMAIN next \subseteq DOMAIN next'
      /\ \A x \in DOMAIN next' : x \in DOMAIN next \/ (x > mem /\ next'[x] = next[mem])
      /\ \A x \in DOMAIN next \ {mem} : next'[x] = next[x]
      /\ next'[mem] - (mem + SIZEOF_STRUCT_MEM) >= size
  <2>1. CASE Room(mem) >= size + SIZEOF_STRUCT_MEM + MIN_SIZE
    <3>1. Split(mem, ptr2)
      BY <2>1 DEF mem_malloc, mem, size
    <3>2. /\ ptr2 \in Nat /\ mem + SIZEOF_STRUCT_MEM + MIN_SIZE <= ptr2
          /\ ptr2 + SIZEOF_STRUCT_MEM + MIN_SIZE <= next[mem]
      BY <1>1, <1>3, <2>1, PositionTypes DEF Room, IInv
    <3> HIDE DEF ptr2
    <3>3. /\ ChainOK(next', prev') /\ ptr2 \notin DOMAIN next
          /\ DOMAIN next' = DOMAIN next \cup {ptr2}
          /\ next'[ptr2] = next[mem] /\ next'[mem] = ptr2
          /\ \A x \in DOMAIN next \ {mem} : next'[x] = next[x]
      BY <3>1, <3>2, <1>3, SplitChain DEF IInv
    <3>4. ptr2 > mem /\ ptr2 - (mem + SIZEOF_STRUCT_MEM) >= size
      BY <1>1, <1>3 DEF ptr2
    <3>5. QED  BY <3>3, <3>4
  <2>2. CASE ~(Room(mem) >= size + SIZEOF_STRUCT_MEM + MIN_SIZE)
    <3>1. UNCHANGED <<next, prev>>
      BY <2>2 DEF mem_malloc, mem, size
    <3>2. ChainOK(next', prev')
      BY <3>1 DEF IInv, ChainOK
    <3>3. next[mem] - (mem + SIZEOF_STRUCT_MEM) >= size
      BY <1>1, <1>3, PositionTypes DEF Room, IInv
    <3>4. QED  BY <3>1, <3>2, <3>3
  <2>3. QED  BY <2>1, <2>2
<1>6. NoHoles'
  BY <1>3, <1>4, <1>5 DEF NoHoles, IInv, Structs
<1>7. LowestFree'
  <2>1. \A p \in Structs' : p \in used' \/ lfree <= p
    <3>1. ASSUME NEW p \in Structs', p \notin used' PROVE lfree <= p
      <4>1. CASE p \in DOMAIN next
        BY <4>1, <3>1, <1>4 DEF Structs, IInv, LowestFree
      <4>2. CASE p \notin DOMAIN next
        <5>1. p > mem /\ p \in Nat
          BY <4>2, <1>5, PositionTypes DEF Structs, ChainOK
        <5>2. QED  BY <5>1, <1>3
      <4>3. QED  BY <4>1, <4>2
    <3>2. QED  BY <3>1
  <2>2. CASE mem = lfree
    <3> DEFINE S == {p \in DOMAIN next' : p >= mem /\ (p \notin used' \/ p = ram_end)}
    <3>1. S \subseteq Nat /\ ram_end \in S
      BY <1>3, <1>5, PositionTypes DEF ChainOK, ram_end, IInv
    <3>2. lfree' = Lowest(S)
      BY <1>4, <2>2
    <3>3. lfree' \in S /\ \A q \in S : lfree' <= q
      BY <3>1, <3>2, LowestExists
    <3>4. \A p \in Structs' : p \in used' \/ p \in S
      BY <2>1, <2>2 DEF Structs
    <3>5. QED  BY <3>3, <3>4 DEF LowestFree, ram_end
  <2>3. CASE mem # lfree
    BY <2>1, <2>3, <1>4, <1>5 DEF LowestFree, IInv, ram_end
  <2>4. QED  BY <2>2, <2>3
<1>8. \A p \in used \ {ram_end} : Room(p)' = Room(p)
  BY <1>3, <1>5 DEF Room, IInv, NoHoles
<1>9. AskedOK'
  <2>1. DOMAIN asked' = used' \ {ram_end}
    BY <1>3, <1>4 DEF AskedOK, IInv, Structs, ram_end
  <2>2. ASSUME NEW p \in DOMAIN asked' PROVE asked'[p] \in Sizes /\ asked'[p] <= Room(p)'
    <3>1. CASE p = mem
      <4>1. asked'[p] = wanted /\ Room(p)' = next'[mem] - (mem + SIZEOF_STRUCT_MEM)
        BY <3>1, <1>4, <2>2 DEF Room
      <4>2. next'[mem] \in Nat
        BY <1>3, <1>5, PositionTypes DEF Structs, ChainOK, ram_end
      <4>3. QED  BY <4>1, <4>2, <1>1, <1>3, <1>5
    <3>2. CASE p # mem
      BY <3>2, <1>4, <1>8, <2>2 DEF AskedOK, IInv
    <3>3. QED  BY <3>1, <3>2
  <2>3. QED  BY <2>1, <2>2 DEF AskedOK
<1>10. TrimOK'
  <2>1. \A p \in DOMAIN asked : p \in DOMAIN asked' /\ asked'[p] = asked[p] /\ Room(p)' = Room(p)
    BY <1>3, <1>4, <1>8 DEF AskedOK, IInv
  <2>2. QED  BY <2>1, <1>4, TrimKept DEF IInv
<1>11. QED  BY <1>5, <1>6, <1>7, <1>9, <1>10 DEF IInv

LEMMA FreeInv ==
  ASSUME IInv, NEW mem \in DOMAIN asked, mem_free(mem)
  PROVE  IInv'
<1> DEFINE low == IF mem < lfree THEN mem ELSE lfree
<1>1. /\ mem \in Structs /\ mem \in used /\ mem \in Nat /\ lfree \in Nat
      /\ next[mem] \in Nat /\ mem < next[mem]
  <2>1. mem \in Structs /\ mem \in used /\ lfree \in DOMAIN next
    BY DEF IInv, AskedOK, NoHoles, LowestFree, Structs
  <2>2. mem + SIZEOF_STRUCT_MEM + MIN_SIZE <= next[mem]
    BY <2>1 DEF IInv, ChainOK, Structs
  <2>3. QED  BY <2>1, <2>2, PositionTypes DEF IInv
<1>2. /\ used' = used \ {mem}
      /\ lfree' = IF low \in Gone(mem) \cup {mem} THEN Base(mem) ELSE low
      /\ asked' = [p \in DOMAIN asked \ {mem} |-> asked[p]]
      /\ UNCHANGED trim
      /\ \A t \in Threads : trim[t].mem # mem
      /\ plug_holes(mem, low)
  BY DEF mem_free, plug_holes, Gone, Base
<1>3. /\ ChainOK(next', prev')
      /\ DOMAIN next' = DOMAIN next \ Gone(mem)
      /\ Base(mem) \in Structs \ Gone(mem)
      /\ next'[Base(mem)] = After(mem)
      /\ \A x \in DOMAIN next \ (Gone(mem) \cup {Base(mem)}) : next'[x] = next[x]
  BY <1>1, <1>2, PlugChain DEF IInv
<1> HIDE DEF low
<1>4. /\ Gone(mem) \cap used' = {} /\ Base(mem) \notin used'
      /\ Gone(mem) \subseteq {mem, next[mem]} /\ Base(mem) \in {mem, prev[mem]}
      /\ Base(mem) <= mem /\ Base(mem) \in Nat
  BY <1>1, <1>2, <1>3 DEF Gone, Base, NextFree, PrevFree, IInv, ChainOK, Structs, ram_end
<1>5. After(mem) \in used /\ After(mem) # mem
  BY <1>1, PositionTypes DEF After, NextFree, IInv, NoHoles, ChainOK, Structs, ram_end
<1>6. \A x \in Structs : x \notin used /\ x # Base(mem) => next[x] # mem
  BY <1>1 DEF Base, PrevFree, IInv, ChainOK, NoHoles, Structs, ram_end
<1>7. NoHoles'
  <2>1. ram_end \in used' /\ used' \subseteq DOMAIN next'
    BY <1>1, <1>2, <1>3, <1>4 DEF IInv, NoHoles, Structs, ram_end
  <2>2. ASSUME NEW p \in Structs', p \notin used' PROVE next'[p] \in used'
    <3>1. CASE p = Base(mem)
      BY <3>1, <1>2, <1>3, <1>5
    <3>2. CASE p # Base(mem)
      <4>1. p \in Structs /\ p # mem /\ p \notin used /\ next'[p] = next[p]
        BY <3>2, <2>2, <1>2, <1>3, <1>4 DEF Structs, ram_end, Gone, Base
      <4>2. QED  BY <4>1, <3>2, <1>2, <1>6 DEF IInv, NoHoles
    <3>3. QED  BY <3>1, <3>2
  <2>3. QED  BY <2>1, <2>2 DEF NoHoles, ram_end
<1>8. LowestFree'
  <2>1. \A p \in Structs' : p \in used' \/ p = mem \/ (p \in Structs /\ p \notin used)
    BY <1>2, <1>3 DEF Structs, ram_end
  <2>2. /\ low \in Nat /\ low <= mem /\ low <= lfree /\ low \in {mem, lfree}
        /\ lfree \in DOMAIN next
    BY <1>1 DEF low, IInv, LowestFree
  <2>3. \A p \in Structs : p \in used \/ low <= p
    BY <2>2, PositionTypes DEF IInv, LowestFree
  <2>4. CASE low \in Gone(mem) \cup {mem}
    <3>1. lfree' = Base(mem) /\ lfree' \in Structs' /\ lfree' \notin used'
      BY <2>4, <1>2, <1>3, <1>4 DEF Structs, ram_end
    <3>2. low = mem
      BY <2>2, <2>4, <1>1, <1>4
    <3>3. Base(mem) = mem \/ (Base(mem) \in Structs /\ Base(mem) \notin used)
      BY <1>3 DEF Base, PrevFree
    <3>4. Base(mem) = mem
      BY <3>2, <3>3, <2>3, <1>4, <1>1
    <3>5. \A p \in Structs' : p \in used' \/ lfree' <= p
      BY <3>1, <3>2, <3>4, <2>1, <2>3, <1>1
    <3>6. QED  BY <3>1, <3>5 DEF LowestFree, Structs
  <2>5. CASE low \notin Gone(mem) \cup {mem}
    <3>1. lfree' = low /\ low = lfree /\ low \in DOMAIN next'
      BY <2>5, <2>2, <1>2, <1>3
    <3>2. \A p \in Structs' : p \in used' \/ lfree' <= p
      BY <3>1, <2>1, <2>2, <2>3
    <3>3. lfree' = ram_end \/ lfree' \notin used'
      BY <3>1, <1>2 DEF IInv, LowestFree
    <3>4. QED  BY <3>1, <3>2, <3>3 DEF LowestFree, ram_end
  <2>6. QED  BY <2>4, <2>5
<1>9. \A p \in used' \ {ram_end} : p \in used \ {ram_end} /\ p # mem /\ Room(p)' = Room(p)
  BY <1>2, <1>3, <1>4 DEF Room, IInv, NoHoles
<1>10. AskedOK'
  BY <1>2, <1>9 DEF AskedOK, IInv, ram_end
<1>11. TrimOK'
  <2>1. \A p \in DOMAIN asked :
          (\E t \in Threads : trim[t].mem = p)
            => p \in DOMAIN asked' /\ asked'[p] = asked[p] /\ Room(p)' = Room(p)
    BY <1>2, <1>9 DEF AskedOK, IInv
  <2>2. QED  BY <2>1, <1>2, TrimKept DEF IInv
<1>12. QED  BY <1>3, <1>7, <1>8, <1>10, <1>11 DEF IInv

LEMMA TrimLookInv ==
  ASSUME IInv, NEW t \in Threads, NEW mem \in DOMAIN asked, NEW size \in Sizes,
         TrimLook(t, mem, size)
  PROVE  IInv'
<1>1. /\ UNCHANGED <<next, prev, used, lfree>>
      /\ asked' = [asked EXCEPT ![mem] = size]
      /\ trim' = [trim EXCEPT ![t] = [mem |-> mem, newsize |-> AtLeast(size),
                                      size |-> Room(mem)]]
      /\ trim[t] = NoTrim /\ size <= asked[mem] /\ AtLeast(size) < Room(mem)
      /\ \A o \in Threads : trim[o].mem # mem
  BY DEF TrimLook
<1>2. ChainOK(next', prev') /\ NoHoles' /\ LowestFree'
  BY <1>1 DEF IInv, NoHoles, LowestFree, Structs, ram_end, ChainOK
<1>3. \A p \in DOMAIN asked : Room(p)' = Room(p)
  BY <1>1 DEF Room
<1>4. /\ mem \in Structs /\ Room(mem) \in Nat /\ asked[mem] \in Nat /\ size \in Nat
      /\ mem \in Nat /\ mem # ram_end
  BY PositionTypes DEF IInv, AskedOK, NoHoles, Structs
<1>5. AtLeast(size) \in Nat /\ MIN_SIZE <= AtLeast(size) /\ size <= AtLeast(size)
  BY <1>4 DEF AtLeast
<1>6. AskedOK'
  <2>1. size <= Room(mem)
    BY <1>1, <1>4, <1>5
  <2>2. DOMAIN asked' = used' \ {ram_end}
    BY <1>1 DEF IInv, AskedOK, ram_end
  <2>3. ASSUME NEW p \in DOMAIN asked' PROVE asked'[p] \in Sizes /\ asked'[p] <= Room(p)'
    BY <1>1, <1>3, <2>1 DEF IInv, AskedOK
  <2>4. QED  BY <2>2, <2>3 DEF AskedOK
<1>7. TrimOK'
  <2>1. trim' \in [Threads -> [mem : Nat, newsize : Nat, size : Nat]]
    BY <1>1, <1>4, <1>5 DEF IInv, TrimOK
  <2>2. /\ trim'[t] = [mem |-> mem, newsize |-> AtLeast(size), size |-> Room(mem)]
        /\ \A o \in Threads \ {t} : trim'[o] = trim[o]
    BY <1>1 DEF IInv, TrimOK
  <2>3. DOMAIN asked' = DOMAIN asked /\ \A p \in DOMAIN asked \ {mem} : asked'[p] = asked[p]
    BY <1>1
  <2>4. asked'[mem] = size
    BY <1>1
  <2>5. ASSUME NEW o \in Threads PROVE trim'[o] = NoTrim \/ (ReadIsSo(trim[o]))'
    <3>1. CASE o = t
      BY <3>1, <1>1, <1>3, <1>5, <2>2, <2>3, <2>4 DEF ReadIsSo, Room
    <3>2. CASE o # t
      <4>1. trim'[o] = trim[o] /\ trim[o].mem # mem
        BY <3>2, <2>2, <1>1
      <4>2. QED  BY <4>1, <1>1, <1>3, <2>3 DEF IInv, TrimOK, ReadIsSo, Room
    <3>3. QED  BY <3>1, <3>2
  <2>6. \A o1, o2 \in Threads : o1 # o2 => trim'[o1].mem # trim'[o2].mem \/ trim'[o1] = NoTrim
    BY <1>1, <2>2 DEF IInv, TrimOK
  <2>7. QED  BY <2>1, <2>5, <2>6 DEF TrimOK, NoTrim, ram_end
<1>8. QED  BY <1>2, <1>6, <1>7 DEF IInv

\* What is common to the three ways in which mem_trim ends: the areas and
\* what other threads have read stay.
LEMMA TrimDoneKeeps ==
  ASSUME IInv, NEW t \in Threads, trim[t] # NoTrim, NEW mem, mem = trim[t].mem,
         trim' = [trim EXCEPT ![t] = NoTrim], UNCHANGED <<used, asked>>,
         \A p \in used \ {ram_end, mem} : next'[p] = next[p],
         asked[mem] <= next'[mem] - (mem + SIZEOF_STRUCT_MEM)
  PROVE  AskedOK' /\ TrimOK'
<1>1. mem \in DOMAIN asked /\ \A o \in Threads \ {t} : trim[o].mem # mem \/ trim[o] = NoTrim
  BY DEF IInv, TrimOK, ReadIsSo
<1>2. \A p \in DOMAIN asked \ {mem} : Room(p)' = Room(p)
  BY DEF Room, IInv, AskedOK
<1>3. AskedOK'
  <2>1. asked[mem] <= Room(mem)'
    BY DEF Room
  <2>2. QED  BY <2>1, <1>2 DEF AskedOK, IInv, ram_end
<1>4. TrimOK'
  <2>1. trim'[t] = NoTrim /\ \A o \in Threads \ {t} : trim'[o] = trim[o]
    BY DEF IInv, TrimOK
  <2>2. trim' \in [Threads -> [mem : Nat, newsize : Nat, size : Nat]]
    BY DEF IInv, TrimOK, NoTrim, ram_end
  <2>3. ASSUME NEW o \in Threads PROVE trim'[o] = NoTrim \/ (ReadIsSo(trim[o]))'
    <3>1. CASE o = t \/ trim[o] = NoTrim
      BY <3>1, <2>1
    <3>2. CASE o # t /\ trim[o] # NoTrim
      <4>1. trim'[o] = trim[o] /\ ReadIsSo(trim[o]) /\ trim[o].mem # mem
        BY <3>2, <2>1, <1>1 DEF IInv, TrimOK
      <4>2. QED  BY <4>1, <1>2 DEF ReadIsSo, Room
    <3>3. QED  BY <3>1, <3>2
  <2>4. \A o1, o2 \in Threads : o1 # o2 => trim'[o1].mem # trim'[o2].mem \/ trim'[o1] = NoTrim
    <3>1. \A o \in Threads : trim[o] # NoTrim => trim[o].mem # ram_end
      BY DEF IInv, TrimOK, AskedOK, ReadIsSo
    <3>2. NoTrim.mem = ram_end
      BY DEF NoTrim
    <3>3. QED  BY <2>1, <3>1, <3>2 DEF IInv, TrimOK
  <2>5. QED  BY <2>2, <2>3, <2>4 DEF TrimOK, NoTrim, ram_end
<1>5. QED  BY <1>3, <1>4

\* The second half of mem_trim: the free struct after mem moves down, a new
\* one is made, or nothing changes.
LEMMA TrimDoneInv ==
  ASSUME IInv, NEW t \in Threads, TrimDone(t)
  PROVE  IInv'
<1>1. PICK mem : mem = trim[t].mem
  OBVIOUS
<1>2. PICK ptr2 : ptr2 = mem + SIZEOF_STRUCT_MEM + trim[t].newsize
  OBVIOUS
<1>3. /\ trim[t] # NoTrim /\ trim' = [trim EXCEPT ![t] = NoTrim]
      /\ UNCHANGED <<used, asked>>
  BY DEF TrimDone
<1>4. ReadIsSo(trim[t]) /\ trim[t].newsize \in Nat
  BY <1>3 DEF IInv, TrimOK
<1>5. mem \in DOMAIN asked /\ mem \in Structs /\ mem \in used
  BY <1>1, <1>4 DEF ReadIsSo, IInv, AskedOK, NoHoles, Structs
<1>6. /\ mem \in Nat /\ next[mem] \in Nat /\ next[mem] \in DOMAIN next /\ mem < next[mem]
      /\ next[mem] = mem + SIZEOF_STRUCT_MEM + Room(mem)
      /\ lfree \in Nat /\ lfree \in DOMAIN next /\ asked[mem] \in Nat /\ Room(mem) \in Nat
  <2>1. mem + SIZEOF_STRUCT_MEM + MIN_SIZE <= next[mem] /\ next[mem] \in DOMAIN next
    BY <1>5 DEF IInv, ChainOK, Structs
  <2>2. mem \in Nat /\ next[mem] \in Nat /\ Room(mem) \in Nat
    BY <1>5, PositionTypes DEF IInv
  <2>3. lfree \in Nat /\ lfree \in DOMAIN next
    BY PositionTypes DEF IInv, LowestFree
  <2>4. asked[mem] \in Nat
    BY <1>5 DEF IInv, AskedOK
  <2>5. QED  BY <2>1, <2>2, <2>3, <2>4 DEF Room
<1>7. /\ ptr2 \in Nat /\ mem + SIZEOF_STRUCT_MEM + MIN_SIZE <= ptr2 /\ ptr2 < next[mem]
      /\ asked[mem] <= ptr2 - (mem + SIZEOF_STRUCT_MEM)
      /\ trim[t].size = Room(mem)
  <2>1. /\ MIN_SIZE <= trim[t].newsize /\ asked[mem] <= trim[t].newsize
        /\ trim[t].newsize < Room(mem) /\ trim[t].size = Room(mem)
    BY <1>1, <1>4 DEF ReadIsSo
  <2>2. QED  BY <2>1, <1>2, <1>4, <1>6
<1>8. CASE next[mem] \notin used
  <2>1. next[mem] \in Structs /\ next[next[mem]] \in used
    BY <1>6, <1>8 DEF IInv, NoHoles, Structs
  <2>2. MoveNext(mem, ptr2)
    BY <1>1, <1>2, <1>8 DEF TrimDone
  <2>3. /\ ChainOK(next', prev') /\ ptr2 \notin DOMAIN next
        /\ DOMAIN next' = (DOMAIN next \ {next[mem]}) \cup {ptr2}
        /\ next'[ptr2] = next[next[mem]] /\ next'[mem] = ptr2
        /\ \A x \in DOMAIN next \ {mem, next[mem]} : next'[x] = next[x]
    BY <2>1, <2>2, <1>5, <1>7, MoveChain DEF IInv, Structs
  <2>4. lfree' = IF lfree = next[mem] THEN ptr2 ELSE lfree
    BY <2>2 DEF MoveNext
  <2>5. NoHoles'
    BY <2>1, <2>3, <1>3, <1>5, <1>8 DEF IInv, NoHoles, Structs, ram_end
  <2>6. LowestFree'
    <3>1. ptr2 \notin used /\ ptr2 # ram_end
      BY <2>1, <2>3 DEF IInv, NoHoles
    <3>2. lfree # mem
      BY <1>5 DEF IInv, LowestFree, Structs
    <3>3. lfree <= next[mem]
      BY <2>1, <1>8 DEF IInv, LowestFree
    <3>4. lfree <= mem \/ next[mem] <= lfree
      BY <1>5, <1>6 DEF IInv, ChainOK, Structs
    <3>5. lfree' <= ptr2
      BY <2>4, <3>3, <3>4, <1>6, <1>7
    <3>6. \A p \in Structs' : p = ptr2 \/ (p \in Structs /\ p # next[mem])
      BY <2>3 DEF Structs, ram_end
    <3>7. ASSUME NEW p \in Structs', p \notin used' PROVE lfree' <= p
      <4>1. CASE p = ptr2
        BY <4>1, <3>5
      <4>2. CASE p \in Structs
        <5>1. lfree <= p /\ p \in Nat
          BY <4>2, <3>7, <1>3, PositionTypes DEF IInv, LowestFree
        <5>2. QED  BY <5>1, <2>4, <1>6, <1>7
      <4>3. QED  BY <3>6, <4>1, <4>2
    <3>8. lfree' \in DOMAIN next' /\ (lfree' = ram_end \/ lfree' \notin used')
      BY <2>3, <2>4, <3>1, <1>3, <1>6 DEF IInv, LowestFree
    <3>9. QED  BY <3>7, <3>8 DEF LowestFree, ram_end
  <2>7. \A p \in used \ {ram_end, mem} : next'[p] = next[p]
    BY <2>3, <1>8 DEF IInv, NoHoles
  <2>8. AskedOK' /\ TrimOK'
    BY <2>3, <2>7, <1>1, <1>3, <1>7, TrimDoneKeeps
  <2>9. QED  BY <2>3, <2>5, <2>6, <2>8 DEF IInv
<1>9. CASE /\ next[mem] \in used
           /\ trim[t].newsize + SIZEOF_STRUCT_MEM + MIN_SIZE <= trim[t].size
  <2>1. Split(mem, ptr2) /\ lfree' = IF ptr2 < lfree THEN ptr2 ELSE lfree
    BY <1>1, <1>2, <1>9 DEF TrimDone
  <2>2. ptr2 + SIZEOF_STRUCT_MEM + MIN_SIZE <= next[mem]
    <3>1. PICK newsize \in Nat : newsize = trim[t].newsize
      BY <1>4
    <3>2. newsize + SIZEOF_STRUCT_MEM + MIN_SIZE <= Room(mem)
      BY <3>1, <1>7, <1>9
    <3>3. QED  BY <3>1, <3>2, <1>2, <1>6
  <2>3. /\ ChainOK(next', prev') /\ ptr2 \notin DOMAIN next
        /\ DOMAIN next' = DOMAIN next \cup {ptr2}
        /\ next'[ptr2] = next[mem] /\ next'[mem] = ptr2
        /\ \A x \in DOMAIN next \ {mem} : next'[x] = next[x]
    BY <2>1, <2>2, <1>5, <1>7, SplitChain DEF IInv
  <2>4. NoHoles'
    BY <2>3, <1>3, <1>5, <1>9 DEF IInv, NoHoles, Structs, ram_end
  <2>5. LowestFree'
    <3>1. ptr2 \notin used
      BY <2>3 DEF IInv, NoHoles
    <3>2. ASSUME NEW p \in Structs', p \notin used' PROVE lfree' <= p
      <4>1. CASE p = ptr2
        BY <4>1, <2>1, <1>6, <1>7
      <4>2. CASE p \in Structs
        <5>1. lfree <= p /\ p \in Nat
          BY <4>2, <3>2, <1>3, PositionTypes DEF IInv, LowestFree
        <5>2. QED  BY <5>1, <2>1, <1>6, <1>7
      <4>3. QED  BY <2>3, <4>1, <4>2 DEF Structs, ram_end
    <3>3. lfree' \in DOMAIN next' /\ (lfree' = ram_end \/ lfree' \notin used')
      BY <2>1, <2>3, <3>1, <1>3, <1>6 DEF IInv, LowestFree
    <3>4. QED  BY <3>2, <3>3 DEF LowestFree, ram_end
  <2>6. \A p \in used \ {ram_end, mem} : next'[p] = next[p]
    BY <2>3 DEF IInv, NoHoles
  <2>7. AskedOK' /\ TrimOK'
    BY <2>3, <2>6, <1>1, <1>3, <1>7, TrimDoneKeeps
  <2>8. QED  BY <2>3, <2>4, <2>5, <2>7 DEF IInv
<1>10. CASE /\ next[mem] \in used
            /\ ~(trim[t].newsize + SIZEOF_STRUCT_MEM + MIN_SIZE <= trim[t].size)
  <2>1. UNCHANGED <<next, prev, lfree>>
    BY <1>1, <1>10 DEF TrimDone
  <2>2. ChainOK(next', prev') /\ NoHoles' /\ LowestFree'
    BY <2>1, <1>3 DEF IInv, NoHoles, LowestFree, Structs, ram_end, ChainOK
  <2>3. asked[mem] <= next'[mem] - (mem + SIZEOF_STRUCT_MEM)
    BY <2>1, <1>6, <1>7
  <2>4. AskedOK' /\ TrimOK'
    BY <2>1, <2>3, <1>1, <1>3, TrimDoneKeeps
  <2>5. QED  BY <2>2, <2>4 DEF IInv
<1>11. QED  BY <1>8, <1>9, <1>10

LEMMA IInvStutter ==
  ASSUME IInv, UNCHANGED vars
  PROVE  IInv'
<1>1. /\ UNCHANGED <<next, prev, used, lfree, asked, trim>>
  BY DEF vars
<1>2. ChainOK(next', prev') /\ NoHoles' /\ LowestFree'
  BY <1>1 DEF IInv, NoHoles, LowestFree, Structs, ram_end, ChainOK
<1>3. AskedOK'
  BY <1>1 DEF IInv, AskedOK, Room, ram_end
<1>4. TrimOK'
  BY <1>1, TrimKept DEF IInv, Room
<1>5. QED  BY <1>2, <1>3, <1>4 DEF IInv

LEMMA IInvNext == IInv /\ [Next]_vars => IInv'
<1> SUFFICES ASSUME IInv, [Next]_vars PROVE IInv'
  OBVIOUS
<1>1. ASSUME NEW size \in Sizes, mem_malloc(size) PROVE IInv'
  BY <1>1, MallocInv
<1>2. ASSUME NEW mem \in DOMAIN asked, mem_free(mem) PROVE IInv'
  BY <1>2, FreeInv
<1>3. ASSUME NEW t \in Threads, NEW mem \in DOMAIN asked, NEW size \in Sizes,
             TrimLook(t, mem, size)
      PROVE  IInv'
  BY <1>3, TrimLookInv
<1>4. ASSUME NEW t \in Threads, TrimDone(t) PROVE IInv'
  BY <1>4, TrimDoneInv
<1>5. CASE UNCHANGED vars
  BY <1>5, IInvStutter
<1>6. QED  BY <1>1, <1>2, <1>3, <1>4, <1>5 DEF Next

LEMMA IInvInvariant == Spec => []IInv
  BY IInvInit, IInvNext, PTL DEF Spec

-----------------------------------------------------------------------------
(* What follows from the invariant.                                        *)

LEMMA IntactFollows == IInv => HeapIntact
<1> SUFFICES ASSUME IInv PROVE HeapIntact
  OBVIOUS
<1>1. ASSUME NEW p \in Structs, next[p] # ram_end PROVE prev[next[p]] = p
  <2>1. PICK q : q = next[p]
    OBVIOUS
  <2>2. PICK b : b = prev[q]
    OBVIOUS
  <2>3. /\ p \in Nat /\ q \in Nat /\ p < q /\ q \in DOMAIN next \ {0, ram_end}
        /\ \A y \in DOMAIN next : y <= p \/ q <= y
    BY <2>1, <1>1, PositionTypes DEF IInv, ChainOK, Structs
  <2>4. /\ b \in Structs /\ next[b] = q
    BY <2>2, <2>3 DEF IInv, ChainOK, Structs
  <2>5. /\ b \in Nat /\ b < q
        /\ \A y \in DOMAIN next : y <= b \/ q <= y
    BY <2>3, <2>4, PositionTypes DEF IInv, ChainOK, Structs
  <2>6. b <= p /\ p <= b
    BY <2>3, <2>4, <2>5, <1>1 DEF Structs
  <2>7. QED  BY <2>1, <2>2, <2>3, <2>5, <2>6
<1>2. \A p \in Structs :
        /\ p + SIZEOF_STRUCT_MEM + MIN_SIZE <= next[p]
        /\ next[p] \in DOMAIN next
        /\ \A q \in DOMAIN next : q <= p \/ next[p] <= q
  BY DEF IInv, ChainOK, Structs
<1>3. DOMAIN prev = DOMAIN next /\ {0, ram_end} \subseteq DOMAIN next /\ prev[0] = 0
  BY DEF IInv, ChainOK
<1>4. QED  BY <1>1, <1>2, <1>3 DEF HeapIntact, IInv, NoHoles, LowestFree, AskedOK

\* mem.c relies on the list at every step: the structs stay one list in both
\* directions in the order of their positions, lfree stays the lowest free
\* struct, and every area has what its owner asked for.
THEOREM HeapStaysIntact == Spec => []HeapIntact
  BY IInvInvariant, IntactFollows, PTL

LEMMA SafeFollows == IInv => StructsSafe
<1> SUFFICES ASSUME IInv, NEW p \in DOMAIN asked, NEW q \in DOMAIN next
             PROVE  q <= p \/ p + SIZEOF_STRUCT_MEM + asked[p] <= q
  BY DEF StructsSafe
<1>1. /\ p \in Structs /\ asked[p] \in Nat /\ asked[p] <= Room(p)
  BY DEF IInv, AskedOK, NoHoles, Structs
<1>2. p \in Nat /\ next[p] \in Nat /\ q \in Nat /\ (q <= p \/ next[p] <= q)
  BY <1>1, PositionTypes DEF IInv, ChainOK, Structs
<1>3. QED  BY <1>1, <1>2 DEF Room

\* The owner of an area may write all the bytes it asked for, also while the
\* other thread is in mem_trim: no struct mem is ever among them.
THEOREM StructsStaySafe == Spec => []StructsSafe
  BY IInvInvariant, SafeFollows, PTL

\* The struct at or below a position, which no other struct comes after.
LEMMA StructBelow ==
  ASSUME IInv, NEW at \in Nat, at < MEM_SIZE
  PROVE  \E p \in Structs : p <= at /\ at < next[p]
<1> DEFINE S == {x \in 0 .. MEM_SIZE : \E p \in Structs : p <= at /\ x = MEM_SIZE - p}
<1>1. S \subseteq Nat /\ S # {}
  <2>1. 0 \in Structs
    BY DEF IInv, ChainOK, Structs, ram_end
  <2>2. MEM_SIZE - 0 \in S
    BY <2>1
  <2>3. QED  BY <2>2
<1>2. PICK x \in S : \A y \in S : x <= y
  BY <1>1, LowestExists
<1>3. PICK p \in Structs : p <= at /\ x = MEM_SIZE - p
  BY <1>2
<1>4. at < next[p]
  <2>1. SUFFICES ASSUME ~(at < next[p]) PROVE FALSE
    OBVIOUS
  <2>2. next[p] \in Nat /\ next[p] <= at /\ p \in Nat /\ p < next[p] /\ next[p] \in Structs
    BY <2>1, PositionTypes DEF IInv, ChainOK, Structs, ram_end
  <2>3. MEM_SIZE - next[p] \in S
    BY <2>2
  <2>4. QED  BY <2>2, <2>3, <1>2, <1>3
<1>5. QED  BY <1>3, <1>4

LEMMA RoomFollows == IInv => NoRoomLost
<1> SUFFICES ASSUME IInv, NEW wanted \in Sizes, NEW at \in 0 .. MEM_SIZE - 1,
                    NEW size, size = AtLeast(wanted),
                    NEW last, last = at + SIZEOF_STRUCT_MEM + size,
                    last <= MEM_SIZE,
                    \A p \in used \ {ram_end} : next[p] <= at \/ last <= p
             PROVE  Fits(size) # {}
  BY DEF NoRoomLost
<1>1. size \in Nat /\ last \in Nat /\ at \in Nat /\ at < last
  BY DEF AtLeast
<1>2. PICK p \in Structs : p <= at /\ at < next[p]
  BY StructBelow
<1>3. /\ p \in Nat /\ next[p] \in Nat /\ next[p] \in DOMAIN next
  BY PositionTypes DEF IInv
<1>4. p \notin used
  BY <1>1, <1>2, <1>3 DEF Structs
<1>5. last <= next[p]
  <2>1. CASE next[p] = ram_end
    BY <2>1 DEF ram_end
  <2>2. CASE next[p] # ram_end
    <3>1. next[p] \in used /\ next[p] \in Structs
      BY <2>2, <1>3, <1>4 DEF IInv, NoHoles, Structs
    <3>2. next[next[p]] \in Nat /\ next[p] < next[next[p]]
      BY <3>1, <1>3, PositionTypes DEF IInv, ChainOK, Structs
    <3>3. ~(next[next[p]] <= at)
      BY <3>2, <1>1, <1>2, <1>3
    <3>4. QED  BY <3>1, <3>3, <2>2
  <2>3. QED  BY <2>1, <2>2
<1>6. Room(p) >= size /\ p < MEM_SIZE - size /\ p >= lfree
  <2>1. Room(p) >= size /\ p < MEM_SIZE - size
    BY <1>1, <1>2, <1>3, <1>5 DEF Room
  <2>2. lfree <= p /\ lfree \in Nat
    BY <1>4, PositionTypes DEF IInv, LowestFree
  <2>3. QED  BY <2>1, <2>2, <1>3
<1>7. QED  BY <1>4, <1>6 DEF Fits

\* mem_malloc never fails while there are enough free bytes in a row: the
\* search from lfree, over structs that plug_holes has joined, finds them.
THEOREM NoRoomEverLost == Spec => []NoRoomLost
  BY IInvInvariant, RoomFollows, PTL

-----------------------------------------------------------------------------
(* The areas are those of Allocator.                                       *)

Area(p) == [at |-> p + SIZEOF_STRUCT_MEM, len |-> asked[p]]

AreasApart ==
  /\ \A p \in DOMAIN asked : /\ p \in Nat /\ asked[p] \in Sizes
                             /\ p + SIZEOF_STRUCT_MEM + asked[p] <= MEM_SIZE
  /\ \A p, q \in DOMAIN asked :
       \/ p = q
       \/ p + SIZEOF_STRUCT_MEM + asked[p] <= q
       \/ q + SIZEOF_STRUCT_MEM + asked[q] <= p

LEMMA ApartFollows == IInv => AreasApart
<1> SUFFICES ASSUME IInv PROVE AreasApart
  OBVIOUS
<1>1. StructsSafe
  BY SafeFollows
<1>2. \A p \in DOMAIN asked : /\ p \in Nat /\ p \in DOMAIN next /\ p < ram_end
                              /\ asked[p] \in Sizes
  BY PositionTypes DEF IInv, AskedOK, NoHoles, Structs
<1>3. ram_end \in DOMAIN next
  BY DEF IInv, ChainOK
<1>4. \A p \in DOMAIN asked : p + SIZEOF_STRUCT_MEM + asked[p] <= MEM_SIZE
  BY <1>1, <1>2, <1>3 DEF StructsSafe, ram_end
<1>5. ASSUME NEW p \in DOMAIN asked, NEW q \in DOMAIN asked, p # q
      PROVE  \/ p + SIZEOF_STRUCT_MEM + asked[p] <= q
             \/ q + SIZEOF_STRUCT_MEM + asked[q] <= p
  BY <1>1, <1>2, <1>5 DEF StructsSafe
<1>6. QED  BY <1>2, <1>4, <1>5 DEF AreasApart

LEMMA GiveMapped ==
  ASSUME AreasApart', NEW wanted \in Sizes, NEW mem, mem \notin DOMAIN asked,
         asked' = [p \in DOMAIN asked \cup {mem} |-> IF p = mem THEN wanted ELSE asked[p]]
  PROVE  [Service!ANext]_Areas
<1> DEFINE a == [at |-> mem + SIZEOF_STRUCT_MEM, len |-> wanted]
<1>1. mem \in DOMAIN asked' /\ asked'[mem] = wanted
  OBVIOUS
<1>2. \A p \in DOMAIN asked : p \in DOMAIN asked' /\ p # mem /\ asked'[p] = asked[p]
  OBVIOUS
<1>3. Areas' = Areas \cup {a}
  BY <1>1, <1>2 DEF Areas
<1>4. /\ mem \in Nat /\ wanted \in Nat \ {0}
      /\ mem + SIZEOF_STRUCT_MEM + wanted <= MEM_SIZE
  BY <1>1 DEF AreasApart
<1>5. Service!Bytes(a) \subseteq 0 .. MEM_SIZE - 1
  BY <1>4 DEF Service!Bytes
<1>6. ASSUME NEW b \in Areas PROVE Service!Disjoint(a, b)
  <2>1. PICK p \in DOMAIN asked : b = [at |-> p + SIZEOF_STRUCT_MEM, len |-> asked[p]]
    BY DEF Areas
  <2>2. /\ p \in Nat /\ asked[p] \in Nat
        /\ \/ p + SIZEOF_STRUCT_MEM + asked[p] <= mem
           \/ mem + SIZEOF_STRUCT_MEM + wanted <= p
    BY <1>1, <1>2 DEF AreasApart
  <2>3. QED  BY <2>1, <2>2, <1>4 DEF Service!Disjoint, Service!Bytes
<1>7. Service!Give(a)
  BY <1>3, <1>5, <1>6 DEF Service!Give
<1>8. mem + SIZEOF_STRUCT_MEM \in 0 .. MEM_SIZE - 1
  BY <1>4
<1>9. QED  BY <1>7, <1>8 DEF Service!ANext

LEMMA TakeBackMapped ==
  ASSUME AreasApart, NEW mem \in DOMAIN asked,
         asked' = [p \in DOMAIN asked \ {mem} |-> asked[p]]
  PROVE  [Service!ANext]_Areas
<1> DEFINE a == [at |-> mem + SIZEOF_STRUCT_MEM, len |-> asked[mem]]
<1>1. a \in Areas
  BY DEF Areas
<1>2. \A p \in DOMAIN asked \ {mem} :
        [at |-> p + SIZEOF_STRUCT_MEM, len |-> asked[p]] # a
  BY DEF AreasApart
<1>3. Areas' = Areas \ {a}
  BY <1>2 DEF Areas
<1>4. QED  BY <1>1, <1>3 DEF Service!ANext, Service!TakeBack

LEMMA ShortenMapped ==
  ASSUME AreasApart, NEW mem \in DOMAIN asked, NEW size \in Sizes, size <= asked[mem],
         asked' = [asked EXCEPT ![mem] = size]
  PROVE  [Service!ANext]_Areas
<1> DEFINE a == [at |-> mem + SIZEOF_STRUCT_MEM, len |-> asked[mem]]
           b == [at |-> mem + SIZEOF_STRUCT_MEM, len |-> size]
<1>1. a \in Areas /\ b = [a EXCEPT !.len = size] /\ size <= a.len
  BY DEF Areas
<1>2. \A p \in DOMAIN asked \ {mem} :
        [at |-> p + SIZEOF_STRUCT_MEM, len |-> asked[p]] # a
  BY DEF AreasApart
<1>3. /\ DOMAIN asked' = DOMAIN asked /\ asked'[mem] = size
      /\ \A p \in DOMAIN asked \ {mem} : asked'[p] = asked[p]
  OBVIOUS
<1>4. Areas' = (Areas \ {a}) \cup {b}
  BY <1>2, <1>3 DEF Areas
<1>5. QED  BY <1>1, <1>4 DEF Service!ANext, Service!Shorten

\* The heap implements the Allocator: mem_malloc gives an area that no other
\* owner has, and mem_free and mem_trim touch no area but the one they are
\* called for, whatever the other thread does between the steps of mem_trim.
THEOREM AreasAllocated == Spec => ImplementsAllocator
<1>1. Init => Service!AInit
  BY DEF Init, Service!AInit, Areas
<1>2. IInv /\ IInv' /\ [Next]_vars => [Service!ANext]_Areas
  <2> SUFFICES ASSUME IInv, IInv', [Next]_vars PROVE [Service!ANext]_Areas
    OBVIOUS
  <2>1. AreasApart
    BY ApartFollows
  <2>2. AreasApart'
    BY ApartFollows, PTL
  <2>3. ASSUME NEW size \in Sizes, mem_malloc(size) PROVE [Service!ANext]_Areas
    <3>1. PICK mem : mem = Lowest(Fits(AtLeast(size)))
      OBVIOUS
    <3>2. asked' = [p \in DOMAIN asked \cup {mem} |-> IF p = mem THEN size ELSE asked[p]]
      BY <2>3, <3>1 DEF mem_malloc
    <3>3. mem \notin DOMAIN asked
      <4>1. AtLeast(size) \in Nat /\ Fits(AtLeast(size)) # {}
        BY <2>3 DEF AtLeast, mem_malloc
      <4>2. QED  BY <3>1, <4>1, FitsTaken DEF IInv, AskedOK
    <3>4. QED  BY <3>2, <3>3, <2>2, GiveMapped
  <2>4. ASSUME NEW mem \in DOMAIN asked, mem_free(mem) PROVE [Service!ANext]_Areas
    BY <2>4, <2>1, TakeBackMapped DEF mem_free
  <2>5. ASSUME NEW t \in Threads, NEW mem \in DOMAIN asked, NEW size \in Sizes,
               TrimLook(t, mem, size)
        PROVE  [Service!ANext]_Areas
    BY <2>5, <2>1, ShortenMapped DEF TrimLook
  <2>6. ASSUME NEW t \in Threads, TrimDone(t) PROVE [Service!ANext]_Areas
    BY <2>6 DEF TrimDone, Areas
  <2>7. CASE UNCHANGED vars
    BY <2>7 DEF vars, Areas
  <2>8. QED  BY <2>3, <2>4, <2>5, <2>6, <2>7 DEF Next
<1>3. QED  BY <1>1, <1>2, IInvInvariant, PTL DEF Spec, ImplementsAllocator, Service!ASpec
=============================================================================
