------------------------------- MODULE MemHeap --------------------------------
(***************************************************************************)
(* The heap of lwIP (core/mem.c), from which pbufs of type PBUF_RAM and    *)
(* the segments of TCP are taken: one array of bytes in which every area   *)
(* is preceded by a struct mem, and those structs are a list in both       *)
(* directions.                                                             *)
(*                                                                         *)
(* A position is an index of ram[].  next and prev have the structs that   *)
(* are on the list; the bytes that an old one leaves behind are not kept.  *)
(* MEM_ALIGNMENT is 1 in this firmware (opt.h:134), so the macros that     *)
(* align a size return it as it is.  mem_malloc and mem_free hold          *)
(* mem_mutex from beginning to end and are one step; mem_trim looks at the *)
(* struct before it locks and is two.                                      *)
(***************************************************************************)
EXTENDS Naturals, FiniteSets

CONSTANTS
  MEM_SIZE,           \* bytes of the heap
  SIZEOF_STRUCT_MEM,  \* bytes of a struct mem
  MIN_SIZE,           \* the smallest area
  Sizes,              \* the sizes that are asked for
  Threads             \* those who call mem_trim

ASSUME HeapAssumption ==
  /\ MEM_SIZE \in Nat
  /\ SIZEOF_STRUCT_MEM \in Nat \ {0}
  /\ MIN_SIZE \in Nat \ {0}
  /\ MIN_SIZE + SIZEOF_STRUCT_MEM <= MEM_SIZE
  /\ Sizes \subseteq Nat \ {0}

VARIABLES
  next,   \* struct mem.next, for every struct on the list and the end
  prev,   \* struct mem.prev
  used,   \* the structs with used set (the end of the heap always has it)
  lfree,  \* the lowest free struct
  asked,  \* auxiliary: the size that the owner of a used struct asked for
  trim    \* what each thread has computed in mem_trim, before it locks

vars == <<next, prev, used, lfree, asked, trim>>

ram_end == MEM_SIZE
Structs == DOMAIN next \ {ram_end}
NoTrim == [mem |-> ram_end, newsize |-> 0, size |-> 0]

Init ==
  /\ next = [p \in {0, ram_end} |-> ram_end]
  /\ prev = [p \in {0, ram_end} |-> p]
  /\ used = {ram_end}
  /\ lfree = 0
  /\ asked = [p \in {} |-> 0]
  /\ trim = [t \in Threads |-> NoTrim]

\* The bytes of a struct that its owner may use.
Room(p) == next[p] - (p + SIZEOF_STRUCT_MEM)

AtLeast(size) == IF size < MIN_SIZE THEN MIN_SIZE ELSE size

Lowest(S) == CHOOSE p \in S : \A q \in S : p <= q

-----------------------------------------------------------------------------
(* A new struct at ptr2, in what ptr has.  prev of the end is left alone.  *)

Split(ptr, ptr2) ==
  /\ next' = [p \in DOMAIN next \cup {ptr2} |->
               CASE p = ptr2 -> next[ptr]
                 [] p = ptr -> ptr2
                 [] OTHER -> next[p]]
  /\ prev' = [p \in DOMAIN prev \cup {ptr2} |->
               CASE p = ptr2 -> ptr
                 [] p # ptr2 /\ p = next[ptr] /\ p # ram_end -> ptr2
                 [] OTHER -> prev[p]]

(* mem_malloc.  The structs that the loop comes by are those from lfree on *)
(* (HeapIntact); the first that is free and long enough is taken.          *)

\* Mutant: the mark of a used struct is not looked at.
AnyStruct(size) ==
  {p \in Structs : p >= lfree /\ p < MEM_SIZE - size /\ Room(p) >= size}

Fits(size) ==
  {p \in Structs : /\ p >= lfree
                   /\ p < MEM_SIZE - size
                   /\ p \notin used
                   /\ Room(p) >= size}

mem_malloc(wanted) ==
  LET size == AtLeast(wanted)
      mem  == Lowest(Fits(size))
      ptr2 == mem + SIZEOF_STRUCT_MEM + size
  IN /\ size <= MEM_SIZE
     /\ Fits(size) # {}
     /\ IF Room(mem) >= size + SIZEOF_STRUCT_MEM + MIN_SIZE
        THEN Split(mem, ptr2)
        ELSE UNCHANGED <<next, prev>>
     /\ used' = used \cup {mem}
     /\ lfree' = IF mem = lfree
                 THEN Lowest({p \in DOMAIN next' :
                               p >= mem /\ (p \notin used' \/ p = ram_end)})
                 ELSE lfree
     /\ asked' = [p \in DOMAIN asked \cup {mem} |->
                   IF p = mem THEN wanted ELSE asked[p]]
     /\ UNCHANGED trim

(* mem_free, with plug_holes: the struct is free, and joined with the next *)
(* one and with the one before if these are.                               *)

NextFree(p) == next[p] \notin used
\* Mutant: a struct is joined with the next one only.
ForwardOnly(p) == FALSE

PrevFree(p) == prev[p] # p /\ prev[p] \notin used

plug_holes(mem, low) ==
  LET gone  == (IF NextFree(mem) THEN {next[mem]} ELSE {})
                 \cup (IF PrevFree(mem) THEN {mem} ELSE {})
      base  == IF PrevFree(mem) THEN prev[mem] ELSE mem
      after == IF NextFree(mem) THEN next[next[mem]] ELSE next[mem]
  IN /\ next' = [p \in DOMAIN next \ gone |-> IF p = base THEN after ELSE next[p]]
     /\ prev' = [p \in DOMAIN prev \ gone |->
                  IF p = after /\ gone # {} THEN base ELSE prev[p]]
     /\ lfree' = IF low \in gone \cup {mem} THEN base ELSE low

mem_free(mem) ==
  /\ mem \in DOMAIN asked
  /\ \A t \in Threads : trim[t].mem # mem
  /\ used' = used \ {mem}
  /\ plug_holes(mem, IF mem < lfree THEN mem ELSE lfree)
  /\ asked' = [p \in DOMAIN asked \ {mem} |-> asked[p]]
  /\ UNCHANGED trim

(* mem_trim: what comes before the lock, and what comes after.  The struct *)
(* that is moved keeps its next; a new one is made only if there is room   *)
(* for an area of MIN_SIZE.                                                *)

TrimLook(t, mem, newsize) ==
  /\ trim[t] = NoTrim
  /\ mem \in DOMAIN asked
  /\ \A o \in Threads : trim[o].mem # mem
  /\ newsize <= asked[mem]
  /\ AtLeast(newsize) < Room(mem)
  /\ asked' = [asked EXCEPT ![mem] = newsize]
  /\ trim' = [trim EXCEPT ![t] = [mem |-> mem,
                                  newsize |-> AtLeast(newsize),
                                  size |-> Room(mem)]]
  /\ UNCHANGED <<next, prev, used, lfree>>

\* Mutant: lfree stays at the struct that is moved.
LowestStays(mem, ptr2) ==
  LET mem2 == next[mem]
  IN /\ next' = [p \in (DOMAIN next \ {mem2}) \cup {ptr2} |->
                  CASE p = ptr2 -> next[mem2]
                    [] p = mem -> ptr2
                    [] OTHER -> next[p]]
     /\ prev' = [p \in (DOMAIN prev \ {mem2}) \cup {ptr2} |->
                  CASE p = ptr2 -> mem
                    [] p # ptr2 /\ p = next[mem2] /\ p # ram_end -> ptr2
                    [] OTHER -> prev[p]]
     /\ UNCHANGED lfree

MoveNext(mem, ptr2) ==
  LET mem2 == next[mem]
  IN /\ next' = [p \in (DOMAIN next \ {mem2}) \cup {ptr2} |->
                  CASE p = ptr2 -> next[mem2]
                    [] p = mem -> ptr2
                    [] OTHER -> next[p]]
     /\ prev' = [p \in (DOMAIN prev \ {mem2}) \cup {ptr2} |->
                  CASE p = ptr2 -> mem
                    [] p # ptr2 /\ p = next[mem2] /\ p # ram_end -> ptr2
                    [] OTHER -> prev[p]]
     /\ lfree' = IF lfree = mem2 THEN ptr2 ELSE lfree

TrimDone(t) ==
  LET mem  == trim[t].mem
      ptr2 == mem + SIZEOF_STRUCT_MEM + trim[t].newsize
  IN /\ trim[t] # NoTrim
     /\ IF next[mem] \notin used
        THEN MoveNext(mem, ptr2)
        ELSE IF trim[t].newsize + SIZEOF_STRUCT_MEM + MIN_SIZE <= trim[t].size
        THEN /\ Split(mem, ptr2)
             /\ lfree' = IF ptr2 < lfree THEN ptr2 ELSE lfree
        ELSE UNCHANGED <<next, prev, lfree>>
     /\ trim' = [trim EXCEPT ![t] = NoTrim]
     /\ UNCHANGED <<used, asked>>

Next ==
  \/ \E size \in Sizes : mem_malloc(size)
  \/ \E mem \in DOMAIN asked : mem_free(mem)
  \/ \E t \in Threads, mem \in DOMAIN asked, size \in Sizes : TrimLook(t, mem, size)
  \/ \E t \in Threads : TrimDone(t)

Spec == Init /\ [][Next]_vars

-----------------------------------------------------------------------------
(* Properties                                                              *)

\* The structs are one list in both directions, in the order of their
\* positions, every area has its least size and what its owner asked for, and
\* lfree is the lowest free struct.  Every loop of mem.c, and everything it
\* reads from a struct beside the one it is given, relies on this.
HeapIntact ==
  /\ DOMAIN prev = DOMAIN next
  /\ {0, ram_end} \subseteq DOMAIN next
  /\ \A p \in Structs :
       /\ p + SIZEOF_STRUCT_MEM + MIN_SIZE <= next[p]
       /\ next[p] \in DOMAIN next
       /\ \A q \in DOMAIN next : q <= p \/ next[p] <= q
       /\ next[p] = ram_end \/ prev[next[p]] = p
  /\ prev[0] = 0
  /\ ram_end \in used /\ used \subseteq DOMAIN next
  /\ lfree \in DOMAIN next
  /\ \A p \in Structs : p \in used \/ lfree <= p
  /\ lfree = ram_end \/ lfree \notin used
  /\ DOMAIN asked = used \ {ram_end}
  /\ \A p \in DOMAIN asked : asked[p] <= Room(p)

\* mem_malloc finds room whenever there is room: if no used struct reaches
\* into some SIZEOF_STRUCT_MEM + size bytes in a row, the search from lfree
\* comes to a struct that is long enough.  Two free structs side by side, or
\* one below lfree, would be memory that is lost.
NoRoomLost ==
  \A wanted \in Sizes, at \in 0 .. MEM_SIZE - 1 :
    LET size == AtLeast(wanted)
        last == at + SIZEOF_STRUCT_MEM + size
    IN (/\ last <= MEM_SIZE
        /\ \A p \in used \ {ram_end} : next[p] <= at \/ last <= p)
       => Fits(size) # {}

\* The areas that are given out behave as those of Allocator: their bytes are
\* no other owner's, whatever is allocated, freed and trimmed beside them.
Areas == {[at |-> p + SIZEOF_STRUCT_MEM, len |-> asked[p]] : p \in DOMAIN asked}
Service == INSTANCE Allocator WITH Top <- MEM_SIZE, areas <- Areas
ImplementsAllocator == Service!ASpec

\* No struct mem lies in an area that is given out, where its owner would
\* write over it.
StructsSafe ==
  \A p \in DOMAIN asked, q \in DOMAIN next :
    \/ q <= p
    \/ p + SIZEOF_STRUCT_MEM + asked[p] <= q
=============================================================================
