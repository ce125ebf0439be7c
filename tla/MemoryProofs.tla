----------------------------- MODULE MemoryProofs -----------------------------
(***************************************************************************)
(* The memory of the kernel.  The physical memory manager, for every       *)
(* memory map and page size: types, for any number of cores, and, for one  *)
(* core, that pmm_alloc() returns pages that overlap nothing in use.  The  *)
(* virtual memory manager, for any tables, frames and images: the paging   *)
(* tables of every address space are trees of their own, the kernel stays  *)
(* mapped, and the tables implement address spaces.                        *)
(***************************************************************************)
EXTENDS Pmm, Vmm, Induction, FiniteSetTheorems, TLAPS


Region == [base : Nat, length : Nat, usable : BOOLEAN]

\* The memory map ascends, and behind the bitmap only.
MapInv ==
    /\ mmap \in Seq(Region)
    /\ buf \in Nat /\ size \in Nat
    /\ \A i, j \in Regions(mmap) : i < j => mmap[i].base + mmap[i].length <= mmap[j].base
    /\ \A i \in Roomy : buf + size <= mmap[i].base

\* What a core has found out when it is in the middle of a call.
CallInv ==
    \A c \in Core :
        /\ pc[c] \in {"find", "load", "store"} => allocs > 0
        /\ pc[c] \in {"load", "store"} => Roomy # {}
        /\ pc[c] \in {"load", "store", "freeload", "freestore"} => bit[c] \in DOMAIN bmp
        /\ pc[c] \in {"store", "freestore"} => byte[c] \in [0..7 -> BOOLEAN]

TypeInv == TypeOK /\ MapInv /\ CallInv

OneCore == \A c, d \in Core : c = d

ByteOf(i) == [k \in 0..7 |-> bmp[8 * (i \div 8) + k]]

\* The page that bit b stands for, if the walk from the first region ends.
Reaches(b) == Roomy # {} /\ WalkEnds(Min(Roomy), PageSize * b) # {}
PageFor(b) == PageOf(Min(WalkEnds(Min(Roomy), PageSize * b)), PageSize * b)

\* With one core, the bit that was found stays set and the byte that was loaded
\* stays what it is until the store.
BitInv ==
    \A c \in Core :
        /\ pc[c] \in {"load", "store"} => bmp[bit[c]]
        /\ pc[c] \in {"store", "freestore"} => byte[c] = ByteOf(bit[c])

\* A page in use has its bit, which is cleared.
LiveInv == \A p \in live : \E b \in DOMAIN bmp : ~bmp[b] /\ Reaches(b) /\ p.addr = PageFor(b)

IInv == TypeInv /\ BitInv /\ LiveInv /\ PagesDisjoint
-----------------------------------------------------------------------------

(* Arithmetic and sets of numbers                                          *)

LEMMA Constants == PageSize \in Nat \ {0} /\ MaxAllocs \in Nat /\ Core \subseteq Nat
  BY PmmAssumption

LEMMA DivMonotone ==
  ASSUME NEW P \in Nat \ {0}, NEW x \in Nat, NEW y \in Nat, x <= y
  PROVE  x \div P <= y \div P
  OBVIOUS

LEMMA TimesApart ==
  ASSUME NEW P \in Nat \ {0}, NEW x \in Nat, NEW y \in Nat, x < y
  PROVE  x * P + P <= y * P
  OBVIOUS

LEMMA MinIn ==
  ASSUME NEW S, S \subseteq Nat, S # {}
  PROVE  Min(S) \in S /\ \A y \in S : Min(S) <= y
  BY LeastNat DEF Min

LEMMA Rounding ==
  ASSUME NEW a \in Nat
  PROVE  PageUp(a) \in Nat /\ a <= PageUp(a)
  <1>1. PageSize \in Nat \ {0}
    BY Constants
  <1>2. ASSUME NEW P \in Nat \ {0}, NEW x \in Nat
        PROVE  x \div P \in Nat /\ (x \div P) * P \in Nat /\ x < (x \div P) * P + P
    OBVIOUS
  <1>3. a + PageSize - 1 \in Nat
    BY <1>1
  <1> QED
    BY <1>1, <1>2, <1>3 DEF PageUp

LEMMA RoundingApart ==
  ASSUME NEW a \in Nat, NEW b \in Nat, a + PageSize <= b
  PROVE  PageUp(a) + PageSize <= PageUp(b)
  <1>1. PageSize \in Nat \ {0}
    BY Constants
  <1>2. ASSUME NEW P \in Nat \ {0}, NEW x \in Nat PROVE (x + P) \div P = (x \div P) + 1
    OBVIOUS
  <1>5. ASSUME NEW P \in Nat \ {0}, NEW x \in Nat PROVE x \div P \in Nat
    OBVIOUS
  <1> DEFINE x == a + PageSize - 1
  <1> DEFINE y == b + PageSize - 1
  <1>6. x \in Nat /\ y \in Nat /\ x + PageSize <= y /\ x + PageSize \in Nat
    BY <1>1
  <1> HIDE DEF x, y
  <1>7. (x + PageSize) \div PageSize <= y \div PageSize
    BY <1>1, <1>6, DivMonotone
  <1>8. (x \div PageSize) + 1 <= y \div PageSize
    BY <1>1, <1>2, <1>6, <1>7
  <1>9. x \div PageSize < y \div PageSize /\ x \div PageSize \in Nat /\ y \div PageSize \in Nat
    BY <1>1, <1>5, <1>6, <1>8
  <1>10. (x \div PageSize) * PageSize + PageSize <= (y \div PageSize) * PageSize
    BY <1>1, <1>9, TimesApart
  <1> QED
    BY <1>10 DEF PageUp, x, y

LEMMA ByteBits ==
  ASSUME NEW s \in Nat, NEW i \in 0..(8 * s - 1)
  PROVE  /\ \A k \in 0..7 : 8 * (i \div 8) + k \in 0..(8 * s - 1)
         /\ i % 8 \in 0..7 /\ 8 * (i \div 8) + (i % 8) = i
  OBVIOUS

-----------------------------------------------------------------------------
(* The memory map                                                          *)

LEMMA MapFacts ==
  ASSUME MapInv
  PROVE  /\ Regions(mmap) \subseteq Nat /\ Roomy \subseteq Regions(mmap)
         /\ \A i \in Regions(mmap) : /\ mmap[i] \in Region
                                     /\ mmap[i].base \in Nat /\ mmap[i].length \in Nat
         /\ \A i, j \in Regions(mmap) : i <= j => mmap[i].base <= mmap[j].base
         /\ \A a : WalkEnds(Min(Roomy), a) \subseteq Regions(mmap)
  <1>1. /\ Regions(mmap) = 1..Len(mmap) /\ Len(mmap) \in Nat
        /\ \A i \in Regions(mmap) : mmap[i] \in Region
    BY DEF MapInv, Regions
  <1>2. \A i \in Regions(mmap) : mmap[i].base \in Nat /\ mmap[i].length \in Nat
    BY <1>1 DEF Region
  <1>3. \A i, j \in Regions(mmap) : i <= j => mmap[i].base <= mmap[j].base
    <2> SUFFICES ASSUME NEW i \in Regions(mmap), NEW j \in Regions(mmap), i <= j
                 PROVE  mmap[i].base <= mmap[j].base
      OBVIOUS
    <2>1. i \in Nat /\ j \in Nat
      BY <1>1
    <2>2. CASE i = j
      BY <1>2, <2>2
    <2>3. CASE i < j
      <3>1. mmap[i].base + mmap[i].length <= mmap[j].base
        BY <2>3 DEF MapInv
      <3> QED
        BY <1>2, <3>1
    <2> QED
      BY <2>1, <2>2, <2>3
  <1> QED
    BY <1>1, <1>2, <1>3 DEF Roomy, WalkEnds

\* Where pmm_add() ends for bit b.
LEMMA WalkFacts ==
  ASSUME MapInv, NEW b \in Nat, Reaches(b), NEW e, e = Min(Roomy),
         NEW i, i = Min(WalkEnds(e, PageSize * b))
  PROVE  /\ e \in Roomy /\ e \in Regions(mmap) /\ i \in Regions(mmap) /\ e <= i
         /\ mmap[e].base <= mmap[i].base
         /\ mmap[e].base + PageSize * b < mmap[i].base + mmap[i].length + PageSize
         /\ \A j \in Regions(mmap) :
               j >= e /\ mmap[e].base + PageSize * b < mmap[j].base + mmap[j].length + PageSize
                   => i <= j
         /\ PageFor(b) = PageUp(mmap[i].base + PageSize * b)
         /\ PageSize * b \in Nat
  <1>1. e \in Roomy /\ e \in Regions(mmap)
    BY MapFacts, MinIn DEF Reaches
  <1>2. /\ i \in WalkEnds(e, PageSize * b)
        /\ \A j \in WalkEnds(e, PageSize * b) : i <= j
    BY MapFacts, MinIn DEF Reaches
  <1>3. i \in Regions(mmap) /\ i >= e /\ e \in Nat /\ i \in Nat
    BY <1>1, <1>2, MapFacts DEF WalkEnds
  <1>4. PageSize * b \in Nat
    BY Constants
  <1> QED
    BY <1>1, <1>2, <1>3, <1>4, MapFacts DEF WalkEnds, PageFor, PageOf

\* pmm_add() gives different bits pages that do not overlap.
LEMMA Places ==
  ASSUME MapInv, NEW a \in Nat, NEW b \in Nat, a < b, Reaches(a), Reaches(b)
  PROVE  PageFor(a) + PageSize <= PageFor(b)
  <1> DEFINE e == Min(Roomy)
  <1> DEFINE i == Min(WalkEnds(e, PageSize * a))
  <1> DEFINE j == Min(WalkEnds(e, PageSize * b))
  <1> HIDE DEF e, i, j
  <1>1. PageSize \in Nat \ {0}
    BY Constants
  <1>2. PageSize * a + PageSize <= PageSize * b /\ PageSize * a \in Nat /\ PageSize * b \in Nat
    <2>1. a * PageSize + PageSize <= b * PageSize
      BY <1>1, TimesApart
    <2>2. ASSUME NEW P \in Nat, NEW x \in Nat PROVE P * x = x * P /\ P * x \in Nat
      OBVIOUS
    <2> QED
      BY <1>1, <2>1, <2>2
  <1>3. /\ e \in Regions(mmap) /\ i \in Regions(mmap)
        /\ PageFor(a) = PageUp(mmap[i].base + PageSize * a)
        /\ \A k \in Regions(mmap) :
               k >= e /\ mmap[e].base + PageSize * a < mmap[k].base + mmap[k].length + PageSize
                   => i <= k
    BY WalkFacts DEF e, i
  <1>4. /\ j \in Regions(mmap) /\ e <= j
        /\ PageFor(b) = PageUp(mmap[j].base + PageSize * b)
        /\ mmap[e].base + PageSize * b < mmap[j].base + mmap[j].length + PageSize
    BY WalkFacts DEF e, j
  <1>5. /\ e \in Nat /\ i \in Nat /\ j \in Nat
        /\ mmap[e].base \in Nat /\ mmap[i].base \in Nat
        /\ mmap[j].base \in Nat /\ mmap[j].length \in Nat
    BY <1>3, <1>4, MapFacts
  <1>6. mmap[e].base + PageSize * a < mmap[j].base + mmap[j].length + PageSize
    BY <1>1, <1>2, <1>4, <1>5
  <1>7. i <= j
    BY <1>3, <1>4, <1>5, <1>6
  <1>8. mmap[i].base <= mmap[j].base
    BY <1>3, <1>4, <1>7, MapFacts
  <1>9. /\ mmap[i].base + PageSize * a + PageSize <= mmap[j].base + PageSize * b
        /\ mmap[i].base + PageSize * a \in Nat /\ mmap[j].base + PageSize * b \in Nat
    BY <1>1, <1>2, <1>5, <1>8
  <1> QED
    BY <1>3, <1>4, <1>9, RoundingApart

\* A page is a number, and lies behind the bitmap.
LEMMA Beyond ==
  ASSUME MapInv, NEW b \in Nat, Reaches(b)
  PROVE  PageFor(b) \in Nat /\ buf + size <= PageFor(b)
  <1> DEFINE e == Min(Roomy)
  <1> DEFINE i == Min(WalkEnds(e, PageSize * b))
  <1> HIDE DEF e, i
  <1>1. /\ e \in Roomy /\ e \in Regions(mmap) /\ i \in Regions(mmap)
        /\ mmap[e].base <= mmap[i].base
        /\ PageFor(b) = PageUp(mmap[i].base + PageSize * b) /\ PageSize * b \in Nat
    BY WalkFacts DEF e, i
  <1>2. buf + size <= mmap[e].base /\ buf \in Nat /\ size \in Nat
    BY <1>1 DEF MapInv
  <1>3. mmap[e].base \in Nat /\ mmap[i].base \in Nat
    BY <1>1, MapFacts
  <1>4. /\ mmap[i].base + PageSize * b \in Nat
        /\ buf + size <= mmap[i].base + PageSize * b
    BY <1>1, <1>2, <1>3
  <1> QED
    BY <1>1, <1>2, <1>4, Rounding

LEMMA MapStays ==
  ASSUME UNCHANGED mmap
  PROVE  /\ Regions(mmap)' = Regions(mmap) /\ Roomy' = Roomy
         /\ \A b : Reaches(b)' = Reaches(b) /\ PageFor(b)' = PageFor(b)
  BY DEF Regions, Roomy, Reaches, PageFor, PageOf, PageUp, WalkEnds

-----------------------------------------------------------------------------
(* The bitmap                                                              *)

LEMMA Bits ==
  ASSUME TypeInv
  PROVE  /\ size \in Nat /\ bmp \in [0..(8 * size - 1) -> BOOLEAN]
         /\ DOMAIN bmp = 0..(8 * size - 1) /\ DOMAIN bmp \subseteq Nat
  BY DEF TypeInv, TypeOK

LEMMA LoadTyped ==
  ASSUME TypeInv, NEW i \in DOMAIN bmp
  PROVE  ByteOf(i) \in [0..7 -> BOOLEAN]
  <1>1. \A k \in 0..7 : 8 * (i \div 8) + k \in DOMAIN bmp
    BY Bits, ByteBits
  <1>2. \A k \in 0..7 : bmp[8 * (i \div 8) + k] \in BOOLEAN
    BY <1>1, Bits
  <1> QED
    BY <1>2 DEF ByteOf

LEMMA StoreTyped ==
  ASSUME TypeInv, NEW c \in Core, NEW i \in DOMAIN bmp, byte[c] \in [0..7 -> BOOLEAN],
         BitmapStore(c, i), UNCHANGED size
  PROVE  bmp' \in [0..(8 * size' - 1) -> BOOLEAN] /\ DOMAIN bmp' = DOMAIN bmp
  <1>1. \A j \in DOMAIN bmp : j % 8 \in 0..7
    BY Bits, ByteBits
  <1>2. \A j \in DOMAIN bmp : byte[c][j % 8] \in BOOLEAN /\ bmp[j] \in BOOLEAN
    BY <1>1, Bits
  <1>3. \A j \in DOMAIN bmp :
           (IF j \div 8 = i \div 8 THEN j # i /\ byte[c][j % 8] ELSE bmp[j]) \in BOOLEAN
    BY <1>2
  <1> QED
    BY <1>3, Bits DEF BitmapStore

\* A byte that is still what was loaded: the store clears the bit only.
LEMMA StoreClears ==
  ASSUME TypeInv, NEW c \in Core, NEW i \in DOMAIN bmp, byte[c] = ByteOf(i), BitmapStore(c, i)
  PROVE  \A j \in DOMAIN bmp : bmp'[j] = (j # i /\ bmp[j])
  <1> SUFFICES ASSUME NEW j \in DOMAIN bmp PROVE bmp'[j] = (j # i /\ bmp[j])
    OBVIOUS
  <1>1. bmp'[j] = IF j \div 8 = i \div 8 THEN j # i /\ byte[c][j % 8] ELSE bmp[j]
    BY DEF BitmapStore
  <1>2. CASE j \div 8 = i \div 8
    <2>1. j % 8 \in 0..7 /\ 8 * (j \div 8) + (j % 8) = j
      BY Bits, ByteBits
    <2>2. byte[c][j % 8] = bmp[8 * (i \div 8) + (j % 8)]
      BY <2>1 DEF ByteOf
    <2>3. byte[c][j % 8] = bmp[j]
      BY <1>2, <2>1, <2>2
    <2> QED
      BY <1>1, <1>2, <2>3
  <1>3. CASE j \div 8 # i \div 8
    <2>1. j # i
      BY <1>3
    <2>2. bmp'[j] = bmp[j]
      BY <1>1, <1>3
    <2>3. bmp[j] \in BOOLEAN
      BY Bits
    <2> QED
      BY <2>1, <2>2, <2>3
  <1> QED
    BY <1>2, <1>3

-----------------------------------------------------------------------------
(* Types                                                                   *)

LEMMA Moved ==
  ASSUME NEW x \in Region, NEW v \in Nat
  PROVE  /\ [x EXCEPT !.base = v] \in Region
         /\ [x EXCEPT !.base = v].base = v /\ [x EXCEPT !.base = v].usable = x.usable
  BY DEF Region

LEMMA InitTypes == Init => TypeInv
  <1> SUFFICES ASSUME Init PROVE TypeInv
    OBVIOUS
  <1> DEFINE R == [base : Nat, length : Nat, usable : BOOLEAN]
  <1>1. PICK m \in MemoryMaps : LET b == BitmapRegion(m) IN
                                /\ mmap = InitMap(m, b)
                                /\ buf = m[b].base /\ size = m[b].length
                                /\ bmp = [i \in 0..(8 * m[b].length - 1) |-> TRUE]
    BY DEF Init
  <1> DEFINE b == BitmapRegion(m)
  <1>a. /\ m \in Seq(R)
        /\ \E i \in Regions(m) : m[i].usable
        /\ \A i \in Regions(m) : \A j \in Regions(m) :
              i < j => m[i].base + m[i].length <= m[j].base
    BY PmmAssumption
  <1>2. /\ m \in Seq(R) /\ DOMAIN m = 1..Len(m) /\ Len(m) \in Nat
        /\ \E i \in DOMAIN m : m[i].usable
        /\ \A i, j \in DOMAIN m : i < j => m[i].base + m[i].length <= m[j].base
    <2> HIDE DEF R
    <2> QED
      BY <1>a DEF Regions
  <1>3. \A i \in DOMAIN m : m[i] \in R /\ m[i].base \in Nat /\ m[i].length \in Nat
                            /\ m[i].usable \in BOOLEAN
    <2>1. \A i \in DOMAIN m : m[i] \in R
      <3> HIDE DEF R
      <3> QED
        BY <1>2
    <2> QED
      BY <2>1
  <1>4. b \in DOMAIN m /\ m[b].usable /\ \A i \in DOMAIN m : m[i].usable => b <= i
    <2> DEFINE S == {i \in DOMAIN m : m[i].usable}
    <2>1. S \subseteq Nat /\ S # {}
      BY <1>2
    <2>2. Min(S) \in S /\ \A i \in S : Min(S) <= i
      <3> HIDE DEF S
      <3> QED
        BY <2>1, MinIn
    <2> QED
      BY <2>2 DEF BitmapRegion, Regions
  <1> HIDE DEF b, R
  <1>5. /\ mmap = [m EXCEPT ![b].base = m[b].base + m[b].length, ![b].length = 0]
        /\ buf = m[b].base /\ size = m[b].length
        /\ bmp = [i \in 0..(8 * m[b].length - 1) |-> TRUE]
    BY <1>1 DEF b, InitMap
  <1>6. /\ DOMAIN mmap = DOMAIN m
        /\ \A i \in DOMAIN m : i # b => mmap[i] = m[i]
        /\ mmap[b].base = m[b].base + m[b].length /\ mmap[b].length = 0
        /\ mmap[b].usable = m[b].usable /\ mmap[b] \in R
    <2> DEFINE n == [m[b] EXCEPT !.base = m[b].base + m[b].length]
    <2>1. mmap = [[m EXCEPT ![b] = n] EXCEPT ![b] = [n EXCEPT !.length = 0]]
      BY <1>4, <1>5
    <2>2. /\ n \in R /\ n.base = m[b].base + m[b].length /\ n.usable = m[b].usable
      <3>1. m[b] \in Region /\ m[b].base + m[b].length \in Nat
        BY <1>3, <1>4 DEF R, Region
      <3> QED
        BY <3>1, Moved DEF R, Region
    <2> DEFINE r == [n EXCEPT !.length = 0]
    <2> HIDE DEF n
    <2>3. r \in R /\ r.base = n.base /\ r.usable = n.usable /\ r.length = 0
      BY <2>2 DEF R
    <2>4. mmap = [[m EXCEPT ![b] = n] EXCEPT ![b] = r]
      BY <2>1
    <2> HIDE DEF r
    <2>5. DOMAIN mmap = DOMAIN m /\ mmap[b] = r /\ \A i \in DOMAIN m : i # b => mmap[i] = m[i]
      BY <1>4, <2>4
    <2> QED
      BY <2>2, <2>3, <2>5
  <1>7. mmap \in Seq(R)
    <2>1. \A i \in 1..Len(m) : mmap[i] \in R
      BY <1>2, <1>3, <1>6
    <2>2. mmap = [i \in 1..Len(m) |-> mmap[i]]
      BY <1>2, <1>5
    <2> QED
      BY <1>2, <2>1, <2>2
  <1>8. \A i, j \in DOMAIN m : i < j => mmap[i].base + mmap[i].length <= mmap[j].base
    <2> SUFFICES ASSUME NEW i \in DOMAIN m, NEW j \in DOMAIN m, i < j
                 PROVE  mmap[i].base + mmap[i].length <= mmap[j].base
      OBVIOUS
    <2>1. /\ m[i].base + m[i].length <= m[j].base
          /\ m[i].base \in Nat /\ m[i].length \in Nat
          /\ m[j].base \in Nat /\ m[j].length \in Nat
      BY <1>2, <1>3
    <2>2. mmap[i].base + mmap[i].length = m[i].base + m[i].length
      <3>1. CASE i = b
        BY <1>6, <2>1, <3>1
      <3>2. CASE i # b
        BY <1>6, <3>2
      <3> QED
        BY <3>1, <3>2
    <2>3. m[j].base <= mmap[j].base /\ mmap[j].base \in Nat
      <3>1. CASE j = b
        BY <1>6, <2>1, <3>1
      <3>2. CASE j # b
        BY <1>6, <2>1, <3>2
      <3> QED
        BY <3>1, <3>2
    <2> QED
      BY <2>1, <2>2, <2>3
  <1>9. \A i \in Roomy : buf + size <= mmap[i].base
    <2> SUFFICES ASSUME NEW i \in Roomy PROVE buf + size <= mmap[i].base
      OBVIOUS
    <2>1. i \in DOMAIN m /\ mmap[i].usable /\ mmap[i].length >= PageSize
      BY <1>6 DEF Roomy, Regions
    <2>2. i # b
      BY <1>6, <2>1, Constants
    <2>3. mmap[i] = m[i] /\ b < i
      <3>1. mmap[i] = m[i]
        BY <1>6, <2>1, <2>2
      <3>2. b <= i /\ b \in Nat /\ i \in Nat
        BY <1>2, <1>4, <2>1, <3>1
      <3> QED
        BY <2>2, <3>1, <3>2
    <2> QED
      BY <1>2, <1>4, <1>5, <2>1, <2>3
  <1>10. buf \in Nat /\ size \in Nat
    BY <1>3, <1>4, <1>5
  <1>11. MapInv
    BY <1>6, <1>7, <1>8, <1>9, <1>10 DEF MapInv, Region, R, Regions
  <1>12. bmp \in [0..(8 * size - 1) -> BOOLEAN]
    BY <1>5
  <1>13. \A i \in Regions(mmap) : mmap[i] \in R
    BY <1>7 DEF Regions
  <1>14. TypeOK
    BY <1>10, <1>12, <1>13, Constants DEF TypeOK, Init, R, Unlocked
  <1>15. CallInv
    BY DEF CallInv, Init
  <1> QED
    BY <1>11, <1>14, <1>15 DEF TypeInv

LEMMA MapKeeps == ASSUME MapInv, UNCHANGED <<mmap, buf, size>> PROVE MapInv'
  BY MapStays DEF MapInv, Regions, Roomy

LEMMA StepTypes == TypeInv /\ Next => TypeInv'
  <1> SUFFICES ASSUME TypeInv, Next PROVE TypeInv'
    OBVIOUS
  <1>1. UNCHANGED <<mmap, buf, size>>
    BY DEF Next, AllocLock, AllocFind, AllocLoad, AllocStore, FreeLock, FreeLoad, FreeStore
  <1>2. /\ MapInv' /\ Roomy' = Roomy /\ MapInv
        /\ \A i \in Regions(mmap') : mmap'[i] \in [base : Nat, length : Nat, usable : BOOLEAN]
    <2>1. MapInv' /\ Roomy' = Roomy /\ MapInv
      BY <1>1, MapKeeps, MapStays DEF TypeInv
    <2> QED
      BY <1>1, <2>1 DEF TypeInv, TypeOK
  <1>3. /\ buf' \in Nat /\ size' \in Nat /\ size' = size
    BY <1>1 DEF TypeInv, TypeOK
  <1>4. /\ lock \in Core \cup {Unlocked} /\ status \in {"ok", "overrun"}
        /\ pc \in [Core -> {"idle", "find", "load", "store", "freeload", "freestore"}]
        /\ bit \in [Core -> {NoBit} \cup DOMAIN bmp]
        /\ byte \in [Core -> {<<>>} \cup [0..7 -> BOOLEAN]]
        /\ \A p \in live : p.id \in 1..MaxAllocs /\ p.by \in Core /\ p.addr \in Nat
        /\ allocs \in 0..MaxAllocs /\ MaxAllocs \in Nat
    BY Constants DEF TypeInv, TypeOK
  <1>parts. ASSUME bmp' \in [0..(8 * size' - 1) -> BOOLEAN], DOMAIN bmp' = DOMAIN bmp,
                   lock' \in Core \cup {Unlocked}, status' \in {"ok", "overrun"},
                   pc' \in [Core -> {"idle", "find", "load", "store", "freeload", "freestore"}],
                   bit' \in [Core -> {NoBit} \cup DOMAIN bmp],
                   byte' \in [Core -> {<<>>} \cup [0..7 -> BOOLEAN]],
                   \A p \in live' : p.id \in 1..MaxAllocs /\ p.by \in Core /\ p.addr \in Nat,
                   allocs' \in 0..MaxAllocs, CallInv'
            PROVE  TypeInv'
    <2>1. TypeOK'
      BY <1>2, <1>3, <1>parts DEF TypeOK
    <2> QED
      BY <1>2, <1>parts, <2>1 DEF TypeInv
  <1>5. /\ bmp \in [0..(8 * size' - 1) -> BOOLEAN]
        /\ \A c \in Core :
              /\ pc[c] \in {"find", "load", "store"} => allocs > 0
              /\ pc[c] \in {"load", "store"} => Roomy # {}
              /\ pc[c] \in {"load", "store", "freeload", "freestore"} => bit[c] \in DOMAIN bmp
              /\ pc[c] \in {"store", "freestore"} => byte[c] \in [0..7 -> BOOLEAN]
    BY <1>3, Bits DEF TypeInv, CallInv
  <1>6. ASSUME NEW c \in Core, AllocLock(c) PROVE TypeInv'
    <2>1. /\ pc[c] = "idle" /\ lock' = c /\ allocs' = allocs + 1 /\ allocs < MaxAllocs
          /\ pc' = [pc EXCEPT ![c] = "find"] /\ UNCHANGED <<bmp, bit, byte, live, status>>
      BY <1>6 DEF AllocLock, Running, Goto
    <2>2. allocs' \in 0..MaxAllocs /\ allocs' > 0
      BY <1>4, <2>1
    <2>3. CallInv'
      BY <1>2, <1>4, <1>5, <2>1, <2>2 DEF CallInv
    <2> QED
      BY <1>4, <1>5, <1>parts, <2>1, <2>2, <2>3
  <1>7. ASSUME NEW c \in Core, AllocFind(c) PROVE TypeInv'
    <2>1. /\ pc[c] = "find" /\ lock' = Unlocked /\ UNCHANGED <<bmp, byte, live, allocs, status>>
          /\ \/ /\ FindFree # NoBit /\ Roomy # {}
                /\ bit' = [bit EXCEPT ![c] = FindFree] /\ pc' = [pc EXCEPT ![c] = "load"]
             \/ pc' = [pc EXCEPT ![c] = "idle"] /\ UNCHANGED bit
      BY <1>7 DEF AllocFind, Running, Goto
    <2>2. FindFree # NoBit => FindFree \in DOMAIN bmp
      <3>1. Searched \subseteq DOMAIN bmp /\ Searched \subseteq Nat
        <4>1. \A k \in 0..(size - 1) : k \in 0..(8 * size - 1) /\ k \in Nat
          BY Bits
        <4> QED
          BY <4>1, Bits DEF Searched
      <3> QED
        BY <3>1, MinIn DEF FindFree
    <2>3. CallInv'
      BY <1>2, <1>4, <1>5, <2>1, <2>2 DEF CallInv
    <2>4. /\ bit' \in [Core -> {NoBit} \cup DOMAIN bmp]
          /\ pc' \in [Core -> {"idle", "find", "load", "store", "freeload", "freestore"}]
      BY <1>4, <2>1, <2>2
    <2> QED
      BY <1>4, <1>5, <1>parts, <2>1, <2>3, <2>4
  <1>8. ASSUME NEW c \in Core, NEW l \in {"store", "freestore"}, BitmapLoad(c, bit[c]),
               bit[c] \in DOMAIN bmp, pc' = [pc EXCEPT ![c] = l],
               l = "store" => pc[c] = "load",
               UNCHANGED <<bmp, lock, bit, live, allocs, status>>
        PROVE  TypeInv'
    <2>1. byte' = [byte EXCEPT ![c] = ByteOf(bit[c])] /\ ByteOf(bit[c]) \in [0..7 -> BOOLEAN]
      BY <1>8, LoadTyped DEF BitmapLoad, ByteOf
    <2>2. /\ byte' \in [Core -> {<<>>} \cup [0..7 -> BOOLEAN]]
          /\ byte'[c] \in [0..7 -> BOOLEAN]
          /\ \A d \in Core : d # c => byte'[d] = byte[d] /\ pc'[d] = pc[d]
      BY <1>4, <1>8, <2>1
    <2>3. /\ pc' \in [Core -> {"idle", "find", "load", "store", "freeload", "freestore"}]
          /\ pc'[c] = l
      BY <1>4, <1>8
    <2>4. CallInv'
      BY <1>2, <1>5, <1>8, <2>2, <2>3 DEF CallInv
    <2> QED
      BY <1>4, <1>5, <1>8, <1>parts, <2>2, <2>3, <2>4
  <1>9. ASSUME NEW c \in Core, AllocLoad(c) PROVE TypeInv'
    <2>1. /\ pc[c] = "load" /\ BitmapLoad(c, bit[c]) /\ pc' = [pc EXCEPT ![c] = "store"]
          /\ UNCHANGED <<bmp, lock, bit, live, allocs, status>>
      BY <1>9 DEF AllocLoad, Running, Goto
    <2> QED
      BY <1>5, <1>8, <2>1
  <1>10. ASSUME NEW c \in Core, FreeLoad(c) PROVE TypeInv'
    <2>1. /\ pc[c] = "freeload" /\ BitmapLoad(c, bit[c]) /\ pc' = [pc EXCEPT ![c] = "freestore"]
          /\ UNCHANGED <<bmp, lock, bit, live, allocs, status>>
      BY <1>10 DEF FreeLoad, Running, Goto
    <2> QED
      BY <1>5, <1>8, <2>1
  <1>11. ASSUME NEW c \in Core, BitmapStore(c, bit[c]), pc[c] \in {"store", "freestore"},
                pc' = [pc EXCEPT ![c] = "idle"], UNCHANGED <<bit, byte, allocs>>,
                lock' \in Core \cup {Unlocked}, status' \in {"ok", "overrun"},
                \A p \in live' : p.id \in 1..MaxAllocs /\ p.by \in Core /\ p.addr \in Nat
         PROVE  TypeInv'
    <2>1. bit[c] \in DOMAIN bmp /\ byte[c] \in [0..7 -> BOOLEAN]
      BY <1>5, <1>11
    <2>2. bmp' \in [0..(8 * size' - 1) -> BOOLEAN] /\ DOMAIN bmp' = DOMAIN bmp
      BY <1>3, <1>11, <2>1, StoreTyped
    <2>3. CallInv'
      BY <1>2, <1>4, <1>5, <1>11, <2>2 DEF CallInv
    <2> QED
      BY <1>4, <1>11, <1>parts, <2>2, <2>3
  <1>12. ASSUME NEW c \in Core, AllocStore(c) PROVE TypeInv'
    <2> DEFINE ends == WalkEnds(Min(Roomy), PageSize * bit[c])
    <2>1. /\ pc[c] = "store" /\ BitmapStore(c, bit[c]) /\ pc' = [pc EXCEPT ![c] = "idle"]
          /\ UNCHANGED <<lock, bit, byte, allocs>>
          /\ IF ends = {} THEN status' = "overrun" /\ UNCHANGED live
             ELSE /\ live' = live \cup {[id |-> allocs, by |-> c, addr |-> PageFor(bit[c])]}
                  /\ UNCHANGED status
      BY <1>12 DEF AllocStore, Running, Goto, PageFor
    <2>2. bit[c] \in Nat /\ Roomy # {} /\ allocs \in 1..MaxAllocs
      BY <1>4, <1>5, <2>1, Bits
    <2>3. ends # {} => PageFor(bit[c]) \in Nat
      BY <1>2, <2>2, Beyond DEF Reaches
    <2>4. \A p \in live' : p.id \in 1..MaxAllocs /\ p.by \in Core /\ p.addr \in Nat
      BY <1>4, <2>1, <2>2, <2>3
    <2> QED
      BY <1>4, <1>11, <2>1, <2>4
  <1>13. ASSUME NEW c \in Core, FreeStore(c) PROVE TypeInv'
    <2>1. /\ pc[c] = "freestore" /\ BitmapStore(c, bit[c]) /\ pc' = [pc EXCEPT ![c] = "idle"]
          /\ lock' = Unlocked /\ UNCHANGED <<bit, byte, live, allocs, status>>
      BY <1>13 DEF FreeStore, Running, Goto
    <2> QED
      BY <1>4, <1>11, <2>1
  <1>14. ASSUME NEW c \in Core, NEW p \in live, FreeLock(c, p) PROVE TypeInv'
    <2> DEFINE b == p.addr - mmap[Max(RegionsOf(p.addr))].base
    <2>1. /\ pc[c] = "idle" /\ live' = live \ {p} /\ UNCHANGED <<bmp, byte, allocs>>
          /\ \/ UNCHANGED <<lock, pc, bit>> /\ status' \in {status, "overrun"}
             \/ /\ b \in DOMAIN bmp /\ lock' = c /\ bit' = [bit EXCEPT ![c] = b]
                /\ pc' = [pc EXCEPT ![c] = "freeload"] /\ UNCHANGED status
      BY <1>14 DEF FreeLock, Running, Goto
    <2> HIDE DEF b
    <2>2. /\ bit' \in [Core -> {NoBit} \cup DOMAIN bmp]
          /\ pc' \in [Core -> {"idle", "find", "load", "store", "freeload", "freestore"}]
          /\ lock' \in Core \cup {Unlocked} /\ status' \in {"ok", "overrun"}
      <3>1. bit' \in [Core -> {NoBit} \cup DOMAIN bmp]
        BY <1>4, <2>1
      <3>2. pc' \in [Core -> {"idle", "find", "load", "store", "freeload", "freestore"}]
        BY <1>4, <2>1
      <3>3. lock' \in Core \cup {Unlocked} /\ status' \in {"ok", "overrun"}
        BY <1>4, <2>1
      <3> QED
        BY <3>1, <3>2, <3>3
    <2>3. \A d \in Core : \/ pc'[d] = pc[d] /\ bit'[d] = bit[d]
                          \/ pc'[d] = "freeload" /\ bit'[d] \in DOMAIN bmp
      <3> SUFFICES ASSUME NEW d \in Core
                   PROVE  \/ pc'[d] = pc[d] /\ bit'[d] = bit[d]
                          \/ pc'[d] = "freeload" /\ bit'[d] \in DOMAIN bmp
        OBVIOUS
      <3>1. CASE pc' = pc /\ bit' = bit
        BY <3>1
      <3>2. CASE /\ b \in DOMAIN bmp /\ bit' = [bit EXCEPT ![c] = b]
                 /\ pc' = [pc EXCEPT ![c] = "freeload"]
        <4>1. CASE d = c
          BY <1>4, <3>2, <4>1
        <4>2. CASE d # c
          BY <1>4, <3>2, <4>2
        <4> QED
          BY <4>1, <4>2
      <3> QED
        BY <2>1, <3>1, <3>2
    <2>4. CallInv'
      BY <1>2, <1>5, <2>1, <2>3 DEF CallInv
    <2> QED
      BY <1>4, <1>5, <1>parts, <2>1, <2>2, <2>4
  <1> QED
    BY <1>6, <1>7, <1>9, <1>10, <1>12, <1>13, <1>14 DEF Next

LEMMA TypesInductive == Spec => []TypeInv
  <1>1. TypeInv /\ [Next]_vars => TypeInv'
    <2> SUFFICES ASSUME TypeInv, UNCHANGED vars PROVE TypeInv'
      BY StepTypes
    <2>1. UNCHANGED <<mmap, buf, size>>
      BY DEF vars
    <2>2. MapInv' /\ Roomy' = Roomy
      BY <2>1, MapKeeps, MapStays DEF TypeInv
    <2>3. TypeOK'
      BY <2>1 DEF vars, TypeInv, TypeOK, Regions
    <2>4. CallInv'
      BY <2>2 DEF vars, TypeInv, CallInv
    <2> QED
      BY <2>2, <2>3, <2>4 DEF TypeInv
  <1> QED
    BY InitTypes, <1>1, PTL DEF Spec

\* pmm_alloc(), pmm_free(): indices into the bitmap and the memory map stay in
\* range, or the model stops, for any memory map and any number of cores.
THEOREM TypeCorrect == Spec => []TypeOK
  <1>1. TypeInv => TypeOK
    BY DEF TypeInv
  <1> QED
    BY TypesInductive, <1>1, PTL

-----------------------------------------------------------------------------
(* One core                                                                *)

LEMMA InitApart == Init => IInv
  BY InitTypes DEF Init, IInv, BitInv, LiveInv, PagesDisjoint

LEMMA StepApart == ASSUME OneCore PROVE IInv /\ Next => IInv'
  <1> SUFFICES ASSUME IInv, Next PROVE IInv'
    OBVIOUS
  <1>1. TypeInv /\ TypeInv' /\ MapInv
    BY StepTypes DEF IInv, TypeInv
  <1>2. /\ UNCHANGED <<mmap, buf, size>>
        /\ \A b : Reaches(b)' = Reaches(b) /\ PageFor(b)' = PageFor(b)
    <2>1. UNCHANGED <<mmap, buf, size>>
      BY DEF Next, AllocLock, AllocFind, AllocLoad, AllocStore, FreeLock, FreeLoad, FreeStore
    <2> QED
      BY <2>1, MapStays
  <1>3. /\ \A p \in live : \E b \in DOMAIN bmp : ~bmp[b] /\ Reaches(b) /\ p.addr = PageFor(b)
        /\ pc \in [Core -> {"idle", "find", "load", "store", "freeload", "freestore"}]
        /\ bit \in [Core -> {NoBit} \cup DOMAIN bmp]
        /\ DOMAIN bmp \subseteq Nat
    BY <1>1, Bits DEF IInv, LiveInv, TypeInv, TypeOK
  <1>4. ASSUME live' \subseteq live, DOMAIN bmp' = DOMAIN bmp,
               \A b \in DOMAIN bmp : ~bmp[b] => ~bmp'[b]
        PROVE  LiveInv' /\ PagesDisjoint'
    <2>1. LiveInv'
      BY <1>2, <1>3, <1>4 DEF LiveInv
    <2>2. PagesDisjoint'
      BY <1>4 DEF IInv, PagesDisjoint
    <2> QED
      BY <2>1, <2>2
  <1>5. ASSUME NEW c \in Core, pc'[c] \in {"idle", "find", "freeload"} PROVE BitInv'
    <2>1. \A d \in Core : d = c
      BY DEF OneCore
    <2> QED
      BY <1>5, <2>1 DEF BitInv
  <1>6. ASSUME NEW c \in Core, AllocLock(c) PROVE IInv'
    <2>1. pc'[c] = "find" /\ UNCHANGED <<bmp, live>>
      BY <1>3, <1>6 DEF AllocLock, Goto
    <2> QED
      BY <1>1, <1>4, <1>5, <2>1 DEF IInv
  <1>7. ASSUME NEW c \in Core, AllocFind(c) PROVE IInv'
    <2>1. UNCHANGED <<bmp, live>>
      BY <1>7 DEF AllocFind
    <2>2. \/ pc'[c] = "idle"
          \/ pc'[c] = "load" /\ bit'[c] = FindFree /\ FindFree # NoBit
      BY <1>3, <1>7 DEF AllocFind, Goto
    <2>3. FindFree # NoBit => bmp[FindFree]
      <3>1. Searched \subseteq Nat /\ \A b \in Searched : bmp[b]
        BY <1>1, Bits DEF Searched
      <3> QED
        BY <3>1, MinIn DEF FindFree
    <2>4. BitInv'
      <3>1. \A d \in Core : d = c
        BY DEF OneCore
      <3> QED
        BY <2>1, <2>2, <2>3, <3>1 DEF BitInv
    <2> QED
      BY <1>1, <1>4, <2>1, <2>4 DEF IInv
  <1>8. ASSUME NEW c \in Core, BitmapLoad(c, bit[c]), UNCHANGED <<bmp, bit, live>>,
               \/ pc[c] = "load" /\ pc'[c] = "store"
               \/ pc'[c] = "freestore"
        PROVE  IInv'
    <2>1. byte'[c] = ByteOf(bit[c])
      BY <1>1, <1>8 DEF BitmapLoad, ByteOf, TypeInv, TypeOK
    <2>2. ByteOf(bit[c])' = ByteOf(bit[c])
      BY <1>8 DEF ByteOf
    <2>3. BitInv'
      <3>1. \A d \in Core : d = c
        BY DEF OneCore
      <3> QED
        BY <1>8, <2>1, <2>2, <3>1 DEF BitInv, IInv
    <2> QED
      BY <1>1, <1>4, <1>8, <2>3 DEF IInv
  <1>9. ASSUME NEW c \in Core, AllocLoad(c) PROVE IInv'
    <2>1. /\ BitmapLoad(c, bit[c]) /\ UNCHANGED <<bmp, bit, live>>
          /\ pc[c] = "load" /\ pc'[c] = "store"
      BY <1>3, <1>9 DEF AllocLoad, Running, Goto
    <2> QED
      BY <1>8, <2>1
  <1>10. ASSUME NEW c \in Core, FreeLoad(c) PROVE IInv'
    <2>1. BitmapLoad(c, bit[c]) /\ UNCHANGED <<bmp, bit, live>> /\ pc'[c] = "freestore"
      BY <1>3, <1>10 DEF FreeLoad, Goto
    <2> QED
      BY <1>8, <2>1
  <1>11. ASSUME NEW c \in Core, pc[c] \in {"store", "freestore"}, BitmapStore(c, bit[c])
         PROVE  /\ DOMAIN bmp' = DOMAIN bmp /\ bit[c] \in DOMAIN bmp
                /\ \A b \in DOMAIN bmp : bmp'[b] = (b # bit[c] /\ bmp[b])
    <2>1. byte[c] = ByteOf(bit[c]) /\ bit[c] \in DOMAIN bmp
      BY <1>1, <1>11 DEF IInv, BitInv, TypeInv, CallInv
    <2>2. DOMAIN bmp' = DOMAIN bmp
      BY <1>11 DEF BitmapStore
    <2> QED
      BY <1>1, <1>11, <2>1, <2>2, StoreClears
  <1>12. ASSUME NEW c \in Core, AllocStore(c) PROVE IInv'
    <2> DEFINE i == bit[c]
               new == [id |-> allocs, by |-> c, addr |-> PageFor(i)]
    <2>1. /\ pc[c] = "store" /\ BitmapStore(c, i) /\ pc'[c] = "idle"
          /\ \/ live' = live
             \/ WalkEnds(Min(Roomy), PageSize * i) # {} /\ live' = live \cup {new}
      BY <1>3, <1>12 DEF AllocStore, Running, Goto, PageFor
    <2>2. /\ DOMAIN bmp' = DOMAIN bmp /\ i \in DOMAIN bmp /\ i \in Nat /\ bmp[i] /\ ~bmp'[i]
          /\ \A b \in DOMAIN bmp : ~bmp[b] => ~bmp'[b]
      <3>1. bmp[i]
        BY <2>1 DEF IInv, BitInv
      <3>2. i \in DOMAIN bmp /\ DOMAIN bmp' = DOMAIN bmp
        BY <1>11, <2>1
      <3>3. \A b \in DOMAIN bmp : bmp'[b] = (b # i /\ bmp[b])
        BY <1>11, <2>1
      <3> QED
        BY <1>3, <3>1, <3>2, <3>3
    <2>3. CASE live' = live
      BY <1>1, <1>4, <1>5, <2>1, <2>2, <2>3 DEF IInv
    <2>4. CASE WalkEnds(Min(Roomy), PageSize * i) # {} /\ live' = live \cup {new}
      <3>1. Reaches(i)
        BY <1>1, <2>1, <2>4 DEF TypeInv, CallInv, Reaches
      <3> HIDE DEF i
      <3>2. new.addr = PageFor(i)
        OBVIOUS
      <3> HIDE DEF new
      <3>3. LiveInv'
        BY <1>2, <1>3, <2>2, <2>4, <3>1, <3>2 DEF LiveInv
      <3>4. ASSUME NEW q \in live
            PROVE  /\ q.addr + PageSize <= new.addr \/ new.addr + PageSize <= q.addr
        <4>1. PICK b \in DOMAIN bmp : ~bmp[b] /\ Reaches(b) /\ q.addr = PageFor(b)
          BY <1>3
        <4>2. b \in Nat /\ (b < i \/ i < b)
          BY <1>3, <2>2, <4>1
        <4> QED
          BY <1>1, <2>2, <3>1, <3>2, <4>1, <4>2, Places
      <3>5. PagesDisjoint'
        BY <2>4, <3>4 DEF IInv, PagesDisjoint
      <3> QED
        BY <1>1, <1>5, <2>1, <3>3, <3>5 DEF IInv
    <2> QED
      BY <2>1, <2>3, <2>4
  <1>13. ASSUME NEW c \in Core, FreeStore(c) PROVE IInv'
    <2>1. pc[c] = "freestore" /\ BitmapStore(c, bit[c]) /\ pc'[c] = "idle" /\ UNCHANGED live
      BY <1>3, <1>13 DEF FreeStore, Running, Goto
    <2>2. DOMAIN bmp' = DOMAIN bmp /\ \A b \in DOMAIN bmp : ~bmp[b] => ~bmp'[b]
      BY <1>11, <2>1
    <2> QED
      BY <1>1, <1>4, <1>5, <2>1, <2>2 DEF IInv
  <1>14. ASSUME NEW c \in Core, NEW p \in live, FreeLock(c, p) PROVE IInv'
    <2>1. live' \subseteq live /\ UNCHANGED bmp /\ pc'[c] \in {"idle", "freeload"}
      BY <1>3, <1>14 DEF FreeLock, Running, Goto
    <2> QED
      BY <1>1, <1>4, <1>5, <2>1 DEF IInv
  <1> QED
    BY <1>6, <1>7, <1>9, <1>10, <1>12, <1>13, <1>14 DEF Next

\* pmm_alloc(), pmm_free(): as long as one core allocates, as the BSP does, no
\* two pages in use overlap, and none overlaps the bitmap, whatever is freed.
THEOREM Apart == ASSUME OneCore PROVE Spec => []PagesApart
  <1>1. IInv /\ [Next]_vars => IInv'
    <2> SUFFICES ASSUME IInv, UNCHANGED vars PROVE IInv'
      BY StepApart
    <2>1. TypeInv'
      <3>1. UNCHANGED <<mmap, buf, size>> /\ TypeInv
        BY DEF vars, IInv
      <3>2. MapInv' /\ Roomy' = Roomy
        BY <3>1, MapKeeps, MapStays DEF TypeInv
      <3>3. TypeOK'
        BY <3>1 DEF vars, TypeInv, TypeOK, Regions
      <3>4. CallInv'
        BY <3>1, <3>2 DEF vars, TypeInv, CallInv
      <3> QED
        BY <3>2, <3>3, <3>4 DEF TypeInv
    <2>2. LiveInv'
      <3>1. \A b : Reaches(b)' = Reaches(b) /\ PageFor(b)' = PageFor(b)
        BY MapStays DEF vars
      <3> QED
        BY <3>1 DEF vars, IInv, LiveInv
    <2> QED
      BY <2>1, <2>2 DEF vars, IInv, BitInv, ByteOf, PagesDisjoint
  <1>2. IInv => PagesApart
    <2> SUFFICES ASSUME IInv, NEW p \in live
                 PROVE  p.addr >= buf + size \/ p.addr + PageSize <= buf
      BY DEF IInv, PagesApart, BitmapNotHandedOut
    <2>1. PICK b \in DOMAIN bmp : Reaches(b) /\ p.addr = PageFor(b)
      BY DEF IInv, LiveInv
    <2>2. MapInv /\ b \in Nat /\ buf \in Nat /\ size \in Nat
      BY <2>1, Bits DEF IInv, TypeInv, MapInv
    <2> QED
      BY <2>1, <2>2, Beyond
  <1> QED
    BY InitApart, <1>1, <1>2, PTL DEF Spec

-----------------------------------------------------------------------------
(* Sizes, pages and indices                                                *)

Slot == 0..(Entries - 1)

\* The pages of an address space, by the four indices.
Virt == 0..(Entries * Entries * Entries * Entries - 1)

LEMMA Sizes ==
  /\ Bsp \in Cpu /\ IsFiniteSet(Frame) /\ Frame \subseteq Nat \ {0}
  /\ Entries \in Nat \ {0} /\ LowPages \in Nat \ {0} /\ PhysOffset \in Nat \ {0}
  /\ KernOffset \in Nat \ {0} /\ KernPages \in Nat \ {0} /\ HeapLow \in Nat \ {0}
  /\ HeapPages \in Nat \ {0} /\ StackLow \in Nat \ {0} /\ StackPages \in Nat \ {0}
  /\ ProcHeapLow \in Nat \ {0} /\ ProcHeapPages \in Nat \ {0} /\ PageBytes \in Nat \ {0}
  /\ Device \subseteq Low /\ MaxCalls \in Nat
  BY VmmAssumption

LEMMA Capacity ==
  /\ Entries * Entries \in Nat /\ Entries * Entries * Entries \in Nat
  /\ Entries * Entries * Entries * Entries \in Nat
  /\ Entries * Entries = Entries * Entries
  /\ Entries * Entries * Entries = Entries * (Entries * Entries)
  /\ Entries * Entries * Entries * Entries = Entries * (Entries * (Entries * Entries))
  <1>1. ASSUME NEW e \in Nat
        PROVE  /\ e * e \in Nat /\ e * e * e \in Nat /\ e * e * e * e \in Nat
               /\ e * e * e = e * (e * e)
               /\ e * e * e * e = e * (e * (e * e))
    OBVIOUS
  <1> QED
    BY <1>1, Sizes

LEMMA Division ==
  ASSUME NEW n \in Nat \ {0}, NEW a \in Nat
  PROVE  a = n * (a \div n) + (a % n) /\ a \div n \in Nat /\ a % n \in 0..(n - 1)
  OBVIOUS

LEMMA Quotient ==
  ASSUME NEW n \in Nat \ {0}, NEW a \in Nat, NEW c \in Nat, a < n * c
  PROVE  a \div n < c
  <1> DEFINE q == a \div n
  <1>1. a = n * q + (a % n) /\ q \in Nat /\ a % n \in 0..(n - 1)
    BY Division
  <1> HIDE DEF q
  <1>2. q >= c => n * q >= n * c
    BY <1>1
  <1>3. n * q \in Nat /\ n * c \in Nat
    BY <1>1
  <1>4. n * q <= a
    BY <1>1, <1>3
  <1> QED
    BY <1>1, <1>2, <1>3, <1>4 DEF q

LEMMA Indices ==
  ASSUME NEW v \in Nat
  PROVE  /\ Index(v, 1) = v % Entries
         /\ Index(v, 2) = Above(v) % Entries
         /\ Index(v, 3) = Above(Above(v)) % Entries
         /\ Index(v, 4) = Above(Above(Above(v))) % Entries
  BY DEF Index

LEMMA AboveType ==
  ASSUME NEW v \in Nat
  PROVE  Above(v) \in Nat /\ v % Entries \in Slot /\ v = Entries * Above(v) + (v % Entries)
  BY Division, Sizes DEF Above, Slot

LEMMA IndexType ==
  ASSUME NEW v \in Nat
  PROVE  \A l \in 1..4 : Index(v, l) \in Slot
  <1>1. /\ v % Entries \in Slot /\ Above(v) % Entries \in Slot
        /\ Above(Above(v)) % Entries \in Slot /\ Above(Above(Above(v))) % Entries \in Slot
    BY AboveType
  <1>2. \A l \in 1..4 : l = 1 \/ l = 2 \/ l = 3 \/ l = 4
    OBVIOUS
  <1> QED
    BY <1>1, <1>2, Indices

\* The four indices tell pages apart.
LEMMA IndexUnique ==
  ASSUME NEW v \in Virt, NEW x \in Virt, \A l \in 1..4 : Index(v, l) = Index(x, l)
  PROVE  v = x
  <1>1. v \in Nat /\ x \in Nat
    BY Capacity DEF Virt
  <1> DEFINE a1 == Above(v)    b1 == Above(x)
             a2 == Above(a1)   b2 == Above(b1)
             a3 == Above(a2)   b3 == Above(b2)
  <1>2. a1 \in Nat /\ a2 \in Nat /\ a3 \in Nat /\ b1 \in Nat /\ b2 \in Nat /\ b3 \in Nat
    BY <1>1, AboveType
  <1>3. /\ v % Entries = x % Entries /\ a1 % Entries = b1 % Entries
        /\ a2 % Entries = b2 % Entries /\ a3 % Entries = b3 % Entries
    BY <1>1, Indices
  <1>4. ASSUME NEW y \in Virt PROVE Above(Above(Above(y))) < Entries
    <2>1. y \in Nat /\ y < Entries * (Entries * (Entries * Entries))
      BY Capacity DEF Virt
    <2>2. Above(y) < Entries * (Entries * Entries)
      BY <2>1, Quotient, Capacity, Sizes DEF Above
    <2>3. Above(Above(y)) < Entries * Entries
      BY <2>1, <2>2, Quotient, Capacity, Sizes, AboveType DEF Above
    <2>4. Above(y) \in Nat /\ Above(Above(y)) \in Nat
      BY <2>1, AboveType
    <2> QED
      BY <2>3, <2>4, Quotient, Sizes DEF Above
  <1>5. a3 < Entries /\ b3 < Entries
    BY <1>4
  <1>6. ASSUME NEW a \in Nat, NEW b \in Nat, Above(a) = Above(b), a % Entries = b % Entries
        PROVE  a = b
    <2>1. a = Entries * Above(a) + (a % Entries) /\ b = Entries * Above(b) + (b % Entries)
      BY AboveType
    <2> QED
      BY <1>6, <2>1
  <1>7. ASSUME NEW a \in Nat, a < Entries PROVE a % Entries = a
    BY <1>7, Sizes
  <1>8. a3 = b3
    BY <1>2, <1>3, <1>5, <1>7
  <1> HIDE DEF a1, b1, a2, b2, a3, b3
  <1>9. a2 = b2
    BY <1>2, <1>3, <1>6, <1>8 DEF a3, b3
  <1>10. a1 = b1
    BY <1>2, <1>3, <1>6, <1>9 DEF a2, b2
  <1> QED
    BY <1>1, <1>3, <1>6, <1>10 DEF a1, b1

-----------------------------------------------------------------------------
(* Types                                                                   *)

Memory == [Frames -> Table]

WalkType == [mem : Memory, free : SUBSET Frame, at : Frames, short : BOOLEAN]

LEMMA FrameTypes ==
  /\ Frame \subseteq Frames /\ 0 \in Frames /\ 0 \notin Frame /\ Frames \subseteq Nat
  /\ Low \subseteq Frames /\ \A i \in 0..(LowPages - 1) : i \in Low
  /\ Phys(0) \in Entry /\ \A f \in Frames : Phys(f) \in Entry
  /\ Empty \in Table /\ Dirty \in Table /\ Unmapped \in Entry
  BY Sizes DEF Frames, Low, Phys, Entry, Empty, Dirty, Table, Unmapped

LEMMA AllocType ==
  ASSUME NEW w \in WalkType
  PROVE  /\ PmmAllocPage(w) \in Frames
         /\ w.free = {} => PmmAllocPage(w) = 0
         /\ w.free # {} => PmmAllocPage(w) \in w.free
  <1>1. w.free \subseteq Frame /\ w.free \subseteq Nat
    BY Sizes DEF WalkType
  <1> QED
    BY <1>1, MinIn, FrameTypes DEF PmmAllocPage

LEMMA TakenType ==
  ASSUME NEW w \in WalkType
  PROVE  /\ Taken(w) \in WalkType
         /\ Taken(w).mem = w.mem /\ Taken(w).at = w.at
         /\ Taken(w).free = w.free \ {PmmAllocPage(w)}
         /\ Taken(w).short = (w.short \/ w.free = {})
  <1>1. /\ w.mem \in Memory /\ w.free \in SUBSET Frame /\ w.at \in Frames /\ w.short \in BOOLEAN
        /\ w = [mem |-> w.mem, free |-> w.free, at |-> w.at, short |-> w.short]
    BY DEF WalkType
  <1> DEFINE b == w.short \/ w.free = {}
  <1>2. Taken(w) = [w EXCEPT !.free = @ \ {PmmAllocPage(w)}, !.short = b]
    BY DEF Taken
  <1>3. b \in BOOLEAN /\ b = (w.short \/ w.free = {})
    BY <1>1
  <1> HIDE DEF b
  <1>4. Taken(w) = [mem |-> w.mem, free |-> w.free \ {PmmAllocPage(w)}, at |-> w.at, short |-> b]
    BY <1>1, <1>2
  <1> QED
    BY <1>1, <1>3, <1>4 DEF WalkType

\* The memory after next_level_or_alloc() has made f a table.
Linked(m, at, e, f, user) ==
    [[m EXCEPT ![f] = Empty] EXCEPT ![at][e] = [to |-> f, p |-> TRUE, u |-> user]]

LEMMA LinkedType ==
  ASSUME NEW m \in Memory, NEW at \in Frames, NEW e \in Slot, NEW f \in Frames, NEW user \in BOOLEAN
  PROVE  Linked(m, at, e, f, user) \in Memory
  <1>1. [m EXCEPT ![f] = Empty] \in Memory
    BY FrameTypes DEF Memory
  <1>2. [to |-> f, p |-> TRUE, u |-> user] \in Entry
    BY DEF Entry
  <1>3. ASSUME NEW n \in Memory, NEW x \in Entry PROVE [n EXCEPT ![at][e] = x] \in Memory
    <2>1. [n[at] EXCEPT ![e] = x] \in Table
      BY DEF Memory, Table
    <2>2. [n EXCEPT ![at][e] = x] = [n EXCEPT ![at] = [n[at] EXCEPT ![e] = x]]
      BY DEF Memory
    <2> QED
      BY <2>1, <2>2 DEF Memory
  <1> QED
    BY <1>1, <1>2, <1>3 DEF Linked

LEMMA NextLevelCases ==
  ASSUME NEW w \in WalkType, NEW e \in Slot, NEW user \in BOOLEAN
  PROVE  LET n == NextLevel(w, e, user)
             f == PmmAllocPage(w) IN
         /\ n \in WalkType /\ n.free \subseteq w.free /\ (w.short => n.short)
         /\ w.mem[w.at][e].p =>
               /\ n.mem = w.mem /\ n.free = w.free /\ n.short = w.short
               /\ n.at = w.mem[w.at][e].to
         /\ ~w.mem[w.at][e].p =>
               /\ n.mem = Linked(w.mem, w.at, e, f, user) /\ n.free = w.free \ {f}
               /\ ~n.short => w.free # {}
               /\ n.at = f
  <1> DEFINE f == PmmAllocPage(w)
             n == NextLevel(w, e, user)
  <1>1. /\ w.mem \in Memory /\ w.free \in SUBSET Frame /\ w.at \in Frames /\ w.short \in BOOLEAN
        /\ w = [mem |-> w.mem, free |-> w.free, at |-> w.at, short |-> w.short]
    BY DEF WalkType
  <1>2. w.mem[w.at][e].to \in Frames
    BY <1>1 DEF Memory, Table, Entry, Slot
  <1>3. f \in Frames
    BY AllocType
  <1>4. CASE w.mem[w.at][e].p
    <2>1. n = [mem |-> w.mem, free |-> w.free, at |-> w.mem[w.at][e].to, short |-> w.short]
      BY <1>1, <1>4 DEF NextLevel
    <2> QED
      BY <1>1, <1>2, <1>4, <2>1 DEF WalkType
  <1>5. CASE ~w.mem[w.at][e].p
    <2>1. n = [Taken(w) EXCEPT !.at = f, !.mem = Linked(@, w.at, e, f, user)]
      BY <1>5 DEF NextLevel, Linked
    <2>2. /\ Taken(w).mem = w.mem /\ Taken(w).free = w.free \ {f}
          /\ Taken(w).short = (w.short \/ w.free = {})
          /\ Taken(w) \in WalkType
      BY TakenType
    <2> HIDE DEF n
    <2>3. n = [mem |-> Linked(w.mem, w.at, e, f, user), free |-> w.free \ {f}, at |-> f,
               short |-> w.short \/ w.free = {}]
      BY <2>1, <2>2 DEF WalkType
    <2>4. Linked(w.mem, w.at, e, f, user) \in Memory
      BY <1>1, <1>3, LinkedType
    <2> DEFINE b == w.short \/ w.free = {}
    <2>5. b \in BOOLEAN /\ (w.short => b) /\ (~b => w.free # {})
      BY <1>1
    <2>6. n = [mem |-> Linked(w.mem, w.at, e, f, user), free |-> w.free \ {f}, at |-> f, short |-> b]
      BY <2>3
    <2> HIDE DEF b, f
    <2>7. /\ n \in WalkType /\ n.free \subseteq w.free /\ (w.short => n.short)
          /\ n.mem = Linked(w.mem, w.at, e, f, user) /\ n.free = w.free \ {f}
          /\ n.at = f /\ (~n.short => w.free # {})
      BY <1>1, <1>3, <2>4, <2>5, <2>6 DEF WalkType
    <2> QED
      BY <1>5, <2>7 DEF n, f
  <1> QED
    BY <1>4, <1>5

\* The tables map_page() comes to, and the entry it writes.
Start(w, pml) == [w EXCEPT !.at = pml]
Walk3(w, pml, v, user) == NextLevel(Start(w, pml), Index(v, 4), user)
Walk2(w, pml, v, user) == NextLevel(Walk3(w, pml, v, user), Index(v, 3), user)
Walk1(w, pml, v, user) == NextLevel(Walk2(w, pml, v, user), Index(v, 2), user)
Mapping(phys, user) == [to |-> phys.to, p |-> TRUE, u |-> user \/ phys.u]

LEMMA StartType ==
  ASSUME NEW w \in WalkType, NEW pml \in Frames
  PROVE  /\ Start(w, pml) \in WalkType
         /\ Start(w, pml).mem = w.mem /\ Start(w, pml).at = pml
         /\ Start(w, pml).free = w.free /\ Start(w, pml).short = w.short
  BY DEF Start, WalkType

LEMMA MapPageCases ==
  ASSUME NEW w \in WalkType, NEW pml \in Frames, NEW v \in Nat, NEW phys \in Entry, NEW user \in BOOLEAN
  PROVE  LET w1 == Walk1(w, pml, v, user)
             n  == MapPage(w, pml, v, phys, user) IN
         /\ Walk3(w, pml, v, user) \in WalkType /\ Walk2(w, pml, v, user) \in WalkType
         /\ w1 \in WalkType
         /\ n.mem = [w1.mem EXCEPT ![w1.at][Index(v, 1)] = Mapping(phys, user)]
         /\ n.free = w1.free /\ n.short = w1.short /\ n.at = w1.at
         /\ n \in WalkType /\ n.free \subseteq w.free /\ (w.short => n.short)
  <1> DEFINE w3 == Walk3(w, pml, v, user)
             w2 == Walk2(w, pml, v, user)
             w1 == Walk1(w, pml, v, user)
             n  == MapPage(w, pml, v, phys, user)
  <1>1. \A l \in 1..4 : Index(v, l) \in Slot
    BY IndexType
  <1>2. w3 \in WalkType /\ w3.free \subseteq w.free /\ (w.short => w3.short)
    <2>1. /\ Start(w, pml) \in WalkType /\ Start(w, pml).free = w.free
          /\ Start(w, pml).short = w.short
      BY StartType
    <2>2. Index(v, 4) \in Slot
      BY <1>1
    <2> QED
      BY <2>1, <2>2, NextLevelCases DEF Walk3
  <1>3. w2 \in WalkType /\ w2.free \subseteq w.free /\ (w.short => w2.short)
    BY <1>1, <1>2, NextLevelCases DEF Walk2
  <1>4. w1 \in WalkType /\ w1.free \subseteq w.free /\ (w.short => w1.short)
    BY <1>1, <1>3, NextLevelCases DEF Walk1
  <1>5. n = [w1 EXCEPT !.mem[w1.at][Index(v, 1)] = Mapping(phys, user)]
    BY DEF MapPage, Walk1, Walk2, Walk3, Start, Mapping
  <1> HIDE DEF w3, w2, w1, n
  <1>6. /\ w1.mem \in Memory /\ w1.free \in SUBSET Frame /\ w1.at \in Frames /\ w1.short \in BOOLEAN
        /\ w1 = [mem |-> w1.mem, free |-> w1.free, at |-> w1.at, short |-> w1.short]
    BY <1>4 DEF WalkType
  <1> DEFINE m == [w1.mem EXCEPT ![w1.at][Index(v, 1)] = Mapping(phys, user)]
  <1>7. n = [mem |-> m, free |-> w1.free, at |-> w1.at, short |-> w1.short]
    BY <1>5, <1>6
  <1>8. m \in Memory
    <2>1. Mapping(phys, user) \in Entry
      BY DEF Mapping, Entry
    <2>2. Index(v, 1) \in Slot
      BY <1>1
    <2>3. [w1.mem[w1.at] EXCEPT ![Index(v, 1)] = Mapping(phys, user)] \in Table
      BY <1>6, <2>1, <2>2 DEF Memory, Table, Slot
    <2>4. m = [w1.mem EXCEPT ![w1.at] = [w1.mem[w1.at] EXCEPT ![Index(v, 1)] = Mapping(phys, user)]]
      BY <1>6 DEF Memory
    <2> QED
      BY <1>6, <2>3, <2>4 DEF Memory
  <1> HIDE DEF m
  <1> QED
    BY <1>2, <1>3, <1>4, <1>6, <1>7, <1>8 DEF WalkType, w3, w2, w1, n, m

LEMMA MapPageType ==
  ASSUME NEW w \in WalkType, NEW pml \in Frames, NEW v \in Nat, NEW phys \in Entry, NEW user \in BOOLEAN
  PROVE  LET n == MapPage(w, pml, v, phys, user) IN
         n \in WalkType /\ n.free \subseteq w.free /\ (w.short => n.short)
  BY MapPageCases

LEMMA MapNewType ==
  ASSUME NEW w \in WalkType, NEW pml \in Frames, NEW v \in Nat, NEW user \in BOOLEAN
  PROVE  LET n == MapNew(w, pml, v, user) IN
         n \in WalkType /\ n.free \subseteq w.free /\ (w.short => n.short)
  <1>1. Phys(PmmAllocPage(w)) \in Entry
    BY AllocType, FrameTypes
  <1>2. Taken(w) \in WalkType /\ Taken(w).free \subseteq w.free /\ (w.short => Taken(w).short)
    BY TakenType
  <1> QED
    BY <1>1, <1>2, MapPageType DEF MapNew

-----------------------------------------------------------------------------
(* Page tables                                                             *)

\* The walk of the processor, from a table of each level.
Entry1(m, f, v) == IF m[f][Index(v, 1)].p THEN m[f][Index(v, 1)] ELSE Unmapped
Entry2(m, f, v) == IF m[f][Index(v, 2)].p THEN Entry1(m, m[f][Index(v, 2)].to, v) ELSE Unmapped
Entry3(m, f, v) == IF m[f][Index(v, 3)].p THEN Entry2(m, m[f][Index(v, 3)].to, v) ELSE Unmapped
Entry4(m, f, v) == IF m[f][Index(v, 4)].p THEN Entry3(m, m[f][Index(v, 4)].to, v) ELSE Unmapped

LEMMA LevelByLevel ==
  ASSUME NEW m, NEW r, NEW v
  PROVE  Translate(m, r, v) = Entry4(m, r, v)
  BY DEF Translate, Present, EntriesOf, Entry1, Entry2, Entry3, Entry4

LEMMA EntryTypes ==
  ASSUME NEW m \in Memory, NEW f \in Frames, NEW e \in Slot
  PROVE  /\ m[f] \in Table /\ m[f][e] \in Entry
         /\ m[f][e].to \in Frames /\ m[f][e].p \in BOOLEAN /\ m[f][e].u \in BOOLEAN
  BY DEF Memory, Table, Entry, Slot

\* The spaces S are trees: lev is the level of a frame that is a table, 0 of any
\* other frame; own the root of its space, up the one entry that leads to it.
Tree(m, fr, S, lev, own, up) ==
    /\ lev \in [Frames -> 0..4] /\ own \in [Frames -> Frames] /\ up \in [Frames -> Frames \X Slot]
    /\ \A f \in fr \cup {0} : lev[f] = 0
    /\ \A r \in S : r \in Frames /\ lev[r] = 4 /\ own[r] = r
    /\ \A f \in Frames, e \in Slot :
          lev[f] >= 2 /\ m[f][e].p =>
              /\ lev[m[f][e].to] = lev[f] - 1
              /\ own[m[f][e].to] = own[f]
              /\ up[m[f][e].to] = <<f, e>>

LEMMA TreeLink ==
  ASSUME NEW m, NEW fr, NEW S, NEW lev, NEW own, NEW up, Tree(m, fr, S, lev, own, up),
         NEW f \in Frames, NEW e \in Slot, lev[f] >= 2, m[f][e].p
  PROVE  /\ lev[m[f][e].to] = lev[f] - 1 /\ own[m[f][e].to] = own[f]
         /\ up[m[f][e].to] = <<f, e>>
  <1>1. lev[m[f][e].to] = lev[f] - 1
    BY DEF Tree
  <1>2. own[m[f][e].to] = own[f]
    BY DEF Tree
  <1>3. up[m[f][e].to] = <<f, e>>
    BY DEF Tree
  <1> QED
    BY <1>1, <1>2, <1>3

LEMMA TreeTypes ==
  ASSUME NEW m, NEW fr, NEW S, NEW lev, NEW own, NEW up, Tree(m, fr, S, lev, own, up)
  PROVE  /\ lev \in [Frames -> 0..4] /\ own \in [Frames -> Frames]
         /\ up \in [Frames -> Frames \X Slot]
         /\ \A f \in fr \cup {0} : lev[f] = 0
         /\ \A r \in S : r \in Frames /\ lev[r] = 4 /\ own[r] = r
  BY DEF Tree

LEMMA TreeMade ==
  ASSUME NEW m, NEW fr, NEW S, NEW lev, NEW own, NEW up,
         lev \in [Frames -> 0..4], own \in [Frames -> Frames], up \in [Frames -> Frames \X Slot],
         \A f \in fr \cup {0} : lev[f] = 0,
         \A r \in S : r \in Frames /\ lev[r] = 4 /\ own[r] = r,
         \A f \in Frames, e \in Slot :
            lev[f] >= 2 /\ m[f][e].p =>
                /\ lev[m[f][e].to] = lev[f] - 1
                /\ own[m[f][e].to] = own[f]
                /\ up[m[f][e].to] = <<f, e>>
  PROVE  Tree(m, fr, S, lev, own, up)
  BY Zenon DEF Tree

\* The tables stay trees when a frame is taken.
LEMMA TreeFewer ==
  ASSUME NEW m, NEW fr, NEW S, NEW lev, NEW own, NEW up, Tree(m, fr, S, lev, own, up),
         NEW less, less \subseteq fr
  PROVE  Tree(m, less, S, lev, own, up)
  <1>1. \A f \in less \cup {0} : lev[f] = 0
    BY DEF Tree
  <1> QED
    BY <1>1, Zenon DEF Tree

Treed(w, S) == \E lev, own, up : Tree(w.mem, w.free, S, lev, own, up)

\* A table in which nothing is mapped.
Blank(m, f) == \A e \in Slot : ~m[f][e].p

LEMMA BlankUnmapped ==
  ASSUME NEW m, NEW f, Blank(m, f), NEW v \in Nat
  PROVE  /\ Entry1(m, f, v) = Unmapped /\ Entry2(m, f, v) = Unmapped
         /\ Entry3(m, f, v) = Unmapped /\ Entry4(m, f, v) = Unmapped
  <1>1. Index(v, 1) \in Slot /\ Index(v, 2) \in Slot /\ Index(v, 3) \in Slot /\ Index(v, 4) \in Slot
    BY IndexType
  <1> QED
    BY <1>1 DEF Blank, Entry1, Entry2, Entry3, Entry4

\* A change that only adds blank tables, or is in frames that are no tables, is
\* seen in no space.
LEMMA Unseen ==
  ASSUME NEW m \in Memory, NEW n \in Memory, NEW fr, NEW S, NEW lev, NEW own, NEW up,
         Tree(m, fr, S, lev, own, up),
         \A f \in Frames, e \in Slot :
            lev[f] >= 1 => \/ n[f][e] = m[f][e]
                           \/ /\ ~m[f][e].p
                              /\ n[f][e].p => lev[f] >= 2 /\ Blank(n, n[f][e].to)
  PROVE  \A r \in S, x \in Nat : Translate(n, r, x) = Translate(m, r, x)
  <1> SUFFICES ASSUME NEW x \in Nat
               PROVE  \A r \in S : Translate(n, r, x) = Translate(m, r, x)
    OBVIOUS
  <1>1. \A l \in 1..4 : Index(x, l) \in Slot
    BY IndexType
  <1>2. lev \in [Frames -> 0..4]
    BY DEF Tree
  <1>3. \A f \in Frames, e \in Slot : m[f][e].to \in Frames /\ n[f][e].to \in Frames
    BY EntryTypes
  <1>4. ASSUME NEW f \in Frames, lev[f] = 1 PROVE Entry1(n, f, x) = Entry1(m, f, x)
    <2>1. Index(x, 1) \in Slot
      BY <1>1
    <2> QED
      BY <1>4, <2>1 DEF Entry1
  <1>5. ASSUME NEW f \in Frames, lev[f] = 2 PROVE Entry2(n, f, x) = Entry2(m, f, x)
    <2> DEFINE e == Index(x, 2)
    <2>1. e \in Slot
      BY <1>1
    <2>2. CASE n[f][e] = m[f][e]
      <3>1. m[f][e].p => lev[m[f][e].to] = 1
        BY <1>5, <2>1 DEF Tree
      <3> QED
        BY <1>3, <1>4, <2>1, <2>2, <3>1 DEF Entry2
    <2>3. CASE ~m[f][e].p /\ (n[f][e].p => Blank(n, n[f][e].to))
      BY <2>3, BlankUnmapped DEF Entry2
    <2> QED
      BY <1>5, <2>1, <2>2, <2>3
  <1>6. ASSUME NEW f \in Frames, lev[f] = 3 PROVE Entry3(n, f, x) = Entry3(m, f, x)
    <2> DEFINE e == Index(x, 3)
    <2>1. e \in Slot
      BY <1>1
    <2>2. CASE n[f][e] = m[f][e]
      <3>1. m[f][e].p => lev[m[f][e].to] = 2
        BY <1>6, <2>1 DEF Tree
      <3> QED
        BY <1>3, <1>5, <2>1, <2>2, <3>1 DEF Entry3
    <2>3. CASE ~m[f][e].p /\ (n[f][e].p => Blank(n, n[f][e].to))
      BY <2>3, BlankUnmapped DEF Entry3
    <2> QED
      BY <1>6, <2>1, <2>2, <2>3
  <1>7. ASSUME NEW f \in Frames, lev[f] = 4 PROVE Entry4(n, f, x) = Entry4(m, f, x)
    <2> DEFINE e == Index(x, 4)
    <2>1. e \in Slot
      BY <1>1
    <2>2. CASE n[f][e] = m[f][e]
      <3>1. m[f][e].p => lev[m[f][e].to] = 3
        BY <1>7, <2>1 DEF Tree
      <3> QED
        BY <1>3, <1>6, <2>1, <2>2, <3>1 DEF Entry4
    <2>3. CASE ~m[f][e].p /\ (n[f][e].p => Blank(n, n[f][e].to))
      BY <2>3, BlankUnmapped DEF Entry4
    <2> QED
      BY <1>7, <2>1, <2>2, <2>3
  <1> QED
    BY <1>7, LevelByLevel DEF Tree

\* How next_level_or_alloc() changes the tables.
LEMMA LinkedEntries ==
  ASSUME NEW m \in Memory, NEW at \in Frames, NEW e \in Slot, NEW f \in Frames, NEW user \in BOOLEAN,
         f # at
  PROVE  LET n == Linked(m, at, e, f, user) IN
         /\ n \in Memory /\ n[f] = Empty /\ Blank(n, f)
         /\ n[at][e] = [to |-> f, p |-> TRUE, u |-> user]
         /\ \A d \in Slot \ {e} : n[at][d] = m[at][d]
         /\ \A g \in Frames \ {at, f} : n[g] = m[g]
  <1> DEFINE n == Linked(m, at, e, f, user)
             k == [m EXCEPT ![f] = Empty]
  <1>1. k \in Memory /\ k[f] = Empty /\ \A g \in Frames \ {f} : k[g] = m[g]
    BY FrameTypes DEF Memory
  <1>2. n = [k EXCEPT ![at][e] = [to |-> f, p |-> TRUE, u |-> user]]
    BY DEF Linked
  <1> HIDE DEF k
  <1>3. /\ n[at][e] = [to |-> f, p |-> TRUE, u |-> user]
        /\ \A d \in Slot \ {e} : n[at][d] = k[at][d]
        /\ \A g \in Frames \ {at} : n[g] = k[g]
    <2>1. k[at] \in Table
      BY <1>1 DEF Memory
    <2> QED
      BY <1>1, <1>2, <2>1 DEF Memory, Table, Slot
  <1>4. n \in Memory
    BY LinkedType
  <1> HIDE DEF n
  <1>5. n[f] = Empty
    BY <1>1, <1>3
  <1>6. Blank(n, f)
    BY <1>5 DEF Blank, Empty, Slot
  <1> QED
    BY <1>1, <1>3, <1>4, <1>5, <1>6 DEF n

\* From the walk w through entry e to n: the same spaces and mappings, at a table
\* of the next level of the same space, with at most one table more.
Descends(w, n, e, user, S, lev, own, up, lev2, own2, up2) ==
    /\ Tree(n.mem, n.free, S, lev2, own2, up2)
    /\ \A f \in Frames : lev[f] # 0 => lev2[f] = lev[f] /\ own2[f] = own[f] /\ up2[f] = up[f]
    /\ lev2[n.at] = lev[w.at] - 1 /\ own2[n.at] = own[w.at] /\ up2[n.at] = <<w.at, e>>
    /\ n.mem[w.at][e].p /\ n.mem[w.at][e].to = n.at
    /\ \A f \in Frames, d \in Slot :
          lev[f] # 0 => /\ w.mem[f][d].p => n.mem[f][d] = w.mem[f][d]
                        /\ n.mem[f][d].u => user \/ w.mem[f][d].u
                        /\ f # w.at => n.mem[f] = w.mem[f]
    /\ \A r \in S, x \in Nat : Translate(n.mem, r, x) = Translate(w.mem, r, x)

\* next_level_or_alloc() keeps the trees and what they map, and comes to a table
\* of the next level of the same space.
LEMMA NextLevelTree ==
  ASSUME NEW w \in WalkType, NEW e \in Slot, NEW user \in BOOLEAN,
         NEW S, NEW lev, NEW own, NEW up,
         Tree(w.mem, w.free, S, lev, own, up), lev[w.at] >= 2,
         ~NextLevel(w, e, user).short
  PROVE  \E lev2, own2, up2 :
            Descends(w, NextLevel(w, e, user), e, user, S, lev, own, up, lev2, own2, up2)
  <1> DEFINE n == NextLevel(w, e, user)
             f == PmmAllocPage(w)
             m == w.mem
             at == w.at
  <1>1. m \in Memory /\ at \in Frames /\ w.free \subseteq Frames /\ f \in Frames
    BY AllocType, FrameTypes DEF WalkType
  <1>2. /\ lev \in [Frames -> 0..4] /\ own \in [Frames -> Frames] /\ up \in [Frames -> Frames \X Slot]
    BY DEF Tree
  <1>3. CASE m[at][e].p
    <2>1. n.mem = m /\ n.free = w.free /\ n.at = m[at][e].to
      BY <1>3, NextLevelCases
    <2>2. /\ lev[m[at][e].to] = lev[at] - 1 /\ own[m[at][e].to] = own[at]
          /\ up[m[at][e].to] = <<at, e>>
      BY <1>1, <1>3, TreeLink, SMTT(30)
    <2> HIDE DEF n
    <2>3. Tree(n.mem, n.free, S, lev, own, up)
      BY <2>1, Zenon
    <2> HIDE DEF m, at
    <2>4. /\ lev[n.at] = lev[at] - 1 /\ own[n.at] = own[at] /\ up[n.at] = <<at, e>>
          /\ n.mem[at][e].p /\ n.mem[at][e].to = n.at
      BY <1>3, <2>1, <2>2
    <2>5. /\ \A r \in S, x \in Nat : Translate(n.mem, r, x) = Translate(m, r, x)
          /\ \A g \in Frames, d \in Slot :
                lev[g] # 0 => /\ m[g][d].p => n.mem[g][d] = m[g][d]
                              /\ n.mem[g][d].u => user \/ m[g][d].u
                              /\ g # at => n.mem[g] = m[g]
      BY <2>1
    <2> QED
      BY <2>3, <2>4, <2>5 DEF Descends, n, m, at
  <1>4. CASE ~m[at][e].p
    <2>1. /\ n.mem = Linked(m, at, e, f, user) /\ n.free = w.free \ {f} /\ n.at = f
          /\ w.free # {}
      BY <1>4, NextLevelCases
    <2>2. f \in w.free /\ lev[f] = 0 /\ f # at
      BY <1>1, <1>2, <2>1, AllocType DEF Tree
    <2>3. /\ n.mem \in Memory /\ n.mem[f] = Empty /\ Blank(n.mem, f)
          /\ n.mem[at][e] = [to |-> f, p |-> TRUE, u |-> user]
          /\ \A d \in Slot \ {e} : n.mem[at][d] = m[at][d]
          /\ \A g \in Frames \ {at, f} : n.mem[g] = m[g]
      BY <1>1, <2>1, <2>2, LinkedEntries
    <2> DEFINE lev2 == [lev EXCEPT ![f] = lev[at] - 1]
               own2 == [own EXCEPT ![f] = own[at]]
               up2  == [up EXCEPT ![f] = <<at, e>>]
    <2>4. lev[at] \in 2..4 /\ own[at] \in Frames
      BY <1>1, <1>2
    <2>5. /\ lev2 \in [Frames -> 0..4] /\ own2 \in [Frames -> Frames]
          /\ up2 \in [Frames -> Frames \X Slot]
          /\ lev2[f] = lev[at] - 1 /\ own2[f] = own[at] /\ up2[f] = <<at, e>>
          /\ \A g \in Frames : g # f => lev2[g] = lev[g] /\ own2[g] = own[g] /\ up2[g] = up[g]
      BY <1>1, <1>2, <2>4
    <2> HIDE DEF n, lev2, own2, up2, f
    <2>6. f # 0
      BY <2>2, Sizes DEF WalkType
    <2>7. Tree(n.mem, n.free, S, lev2, own2, up2)
      <3>1. \A g \in n.free \cup {0} : lev2[g] = 0
        <4>1. ASSUME NEW g \in n.free \cup {0} PROVE lev2[g] = 0
          <5>1. g \in w.free \cup {0} /\ g \in Frames /\ g # f
            BY <1>1, <2>1, <2>6, FrameTypes
          <5>2. lev[g] = 0
            BY <5>1, TreeTypes
          <5> QED
            BY <2>5, <5>1, <5>2
        <4> QED
          BY <4>1
      <3>2. \A r \in S : r \in Frames /\ lev2[r] = 4 /\ own2[r] = r
        BY <2>2, <2>5 DEF Tree
      <3>3. ASSUME NEW g \in Frames, NEW d \in Slot, lev2[g] >= 2, n.mem[g][d].p
            PROVE  /\ lev2[n.mem[g][d].to] = lev2[g] - 1
                   /\ own2[n.mem[g][d].to] = own2[g]
                   /\ up2[n.mem[g][d].to] = <<g, d>>
        <4>1. CASE g = f
          BY <2>3, <3>3, <4>1 DEF Blank
        <4>2. CASE g = at /\ d = e
          BY <1>1, <2>2, <2>3, <2>5, <4>2, SMTT(30)
        <4>3. CASE g # f /\ (g # at \/ d # e)
          <5>1. n.mem[g][d] = m[g][d]
            BY <2>3, <4>3
          <5>2. lev[g] >= 2 /\ m[g][d].p
            BY <2>5, <3>3, <4>3, <5>1
          <5>3. /\ lev[m[g][d].to] = lev[g] - 1 /\ own[m[g][d].to] = own[g]
                /\ up[m[g][d].to] = <<g, d>>
            BY <5>2, TreeLink, SMTT(30)
          <5>4. m[g][d].to \in Frames /\ m[g][d].to # f
            <6>1. lev[g] \in 0..4
              BY <1>2
            <6> QED
              BY <1>1, <2>2, <5>2, <5>3, <6>1, EntryTypes
          <5> QED
            BY <2>5, <4>3, <5>1, <5>3, <5>4
        <4> QED
          BY <4>1, <4>2, <4>3
      <3>4. \A g \in Frames, d \in Slot :
               lev2[g] >= 2 /\ n.mem[g][d].p =>
                   /\ lev2[n.mem[g][d].to] = lev2[g] - 1
                   /\ own2[n.mem[g][d].to] = own2[g]
                   /\ up2[n.mem[g][d].to] = <<g, d>>
        BY <3>3
      <3>5. /\ lev2 \in [Frames -> 0..4] /\ own2 \in [Frames -> Frames]
            /\ up2 \in [Frames -> Frames \X Slot]
        BY <2>5
      <3> QED
        BY <3>1, <3>2, <3>4, <3>5, TreeMade
    <2>8. \A r \in S, x \in Nat : Translate(n.mem, r, x) = Translate(m, r, x)
      <3>1. ASSUME NEW g \in Frames, NEW d \in Slot, lev[g] >= 1
            PROVE  \/ n.mem[g][d] = m[g][d]
                   \/ ~m[g][d].p /\ (n.mem[g][d].p => lev[g] >= 2 /\ Blank(n.mem, n.mem[g][d].to))
        <4>1. g # f
          BY <2>2, <3>1
        <4>2. CASE g = at /\ d = e
          BY <1>4, <2>3, <4>2
        <4>3. CASE g # at \/ d # e
          BY <2>3, <4>1, <4>3
        <4> QED
          BY <4>2, <4>3
      <3> QED
        BY <1>1, <2>3, <3>1, Unseen
    <2>9. ASSUME NEW g \in Frames, NEW d \in Slot, lev[g] # 0
          PROVE  /\ m[g][d].p => n.mem[g][d] = m[g][d]
                 /\ n.mem[g][d].u => user \/ m[g][d].u
                 /\ g # at => n.mem[g] = m[g]
      <3>1. g # f
        BY <2>2, <2>9
      <3>2. CASE g = at /\ d = e
        BY <1>4, <2>3, <3>2
      <3>3. CASE g # at \/ d # e
        BY <2>3, <3>1, <3>3
      <3> QED
        BY <3>2, <3>3
    <2>10. \A g \in Frames : lev[g] # 0 => lev2[g] = lev[g] /\ own2[g] = own[g] /\ up2[g] = up[g]
      BY <2>2, <2>5
    <2>11. /\ lev2[n.at] = lev[at] - 1 /\ own2[n.at] = own[at] /\ up2[n.at] = <<at, e>>
           /\ n.mem[at][e].p /\ n.mem[at][e].to = n.at
      BY <2>1, <2>3, <2>5
    <2> QED
      BY <2>7, <2>8, <2>9, <2>10, <2>11 DEF Descends, n
  <1> QED
    BY <1>3, <1>4

\* The tables t3, t2 and t1 are those of page v in the space r.
OnPath(m, r, v, lev, up, t3, t2, t1) ==
    /\ t3 \in Frames /\ t2 \in Frames /\ t1 \in Frames
    /\ lev[t3] = 3 /\ lev[t2] = 2 /\ lev[t1] = 1
    /\ up[t3] = <<r, Index(v, 4)>> /\ up[t2] = <<t3, Index(v, 3)>> /\ up[t1] = <<t2, Index(v, 2)>>
    /\ m[r][Index(v, 4)].p /\ m[r][Index(v, 4)].to = t3
    /\ m[t3][Index(v, 3)].p /\ m[t3][Index(v, 3)].to = t2
    /\ m[t2][Index(v, 2)].p /\ m[t2][Index(v, 2)].to = t1

\* The memory after an entry of t was written.
Written(m, t, i, ent) == [m EXCEPT ![t][i] = ent]

LEMMA WrittenEntries ==
  ASSUME NEW m \in Memory, NEW t \in Frames, NEW i \in Slot, NEW ent \in Entry
  PROVE  /\ Written(m, t, i, ent) \in Memory
         /\ Written(m, t, i, ent)[t][i] = ent
         /\ \A d \in Slot : d # i => Written(m, t, i, ent)[t][d] = m[t][d]
         /\ \A f \in Frames \ {t} : Written(m, t, i, ent)[f] = m[f]
  <1> DEFINE row == [m[t] EXCEPT ![i] = ent]
  <1>1. row \in Table /\ row[i] = ent /\ \A d \in Slot : d # i => row[d] = m[t][d]
    BY EntryTypes DEF Table, Slot
  <1>2. Written(m, t, i, ent) = [m EXCEPT ![t] = row]
    BY DEF Memory, Written
  <1> HIDE DEF row
  <1> QED
    BY <1>1, <1>2 DEF Memory

\* The entry that map_page() writes changes one page of one space.
LEMMA WriteTree ==
  ASSUME NEW m \in Memory, NEW fr, NEW S, NEW lev, NEW own, NEW up,
         Tree(m, fr, S, lev, own, up),
         NEW r \in S, NEW v \in Virt, NEW ent \in Entry, ent.p,
         NEW t3, NEW t2, NEW t1, OnPath(m, r, v, lev, up, t3, t2, t1)
  PROVE  LET n == Written(m, t1, Index(v, 1), ent) IN
         /\ n \in Memory /\ Tree(n, fr, S, lev, own, up)
         /\ \A f \in Frames \ {t1} : n[f] = m[f]
         /\ Translate(n, r, v) = ent
         /\ \A q \in S, x \in Virt : q # r \/ x # v => Translate(n, q, x) = Translate(m, q, x)
  <1> DEFINE n == Written(m, t1, Index(v, 1), ent)
  <1>0. /\ t3 \in Frames /\ t2 \in Frames /\ t1 \in Frames
        /\ lev[t3] = 3 /\ lev[t2] = 2 /\ lev[t1] = 1
        /\ up[t3] = <<r, Index(v, 4)>> /\ up[t2] = <<t3, Index(v, 3)>> /\ up[t1] = <<t2, Index(v, 2)>>
        /\ m[r][Index(v, 4)].p /\ m[r][Index(v, 4)].to = t3
        /\ m[t3][Index(v, 3)].p /\ m[t3][Index(v, 3)].to = t2
        /\ m[t2][Index(v, 2)].p /\ m[t2][Index(v, 2)].to = t1
    BY Zenon DEF OnPath
  <1>1. /\ v \in Nat /\ \A x \in Virt : x \in Nat
        /\ \A l \in 1..4 : Index(v, l) \in Slot
    BY IndexType, Capacity DEF Virt
  <1>2. /\ n \in Memory
        /\ n[t1][Index(v, 1)] = ent
        /\ \A d \in Slot : d # Index(v, 1) => n[t1][d] = m[t1][d]
        /\ \A f \in Frames \ {t1} : n[f] = m[f]
    BY <1>0, <1>1, WrittenEntries, SMTT(30)
  <1> HIDE DEF n
  <1>3. /\ lev \in [Frames -> 0..4] /\ r \in Frames /\ lev[r] = 4
        /\ t1 # t2 /\ t1 # t3 /\ t1 # r
    BY <1>0, TreeTypes
  <1>4. Tree(n, fr, S, lev, own, up)
    <2>1. ASSUME NEW f \in Frames, NEW e \in Slot, lev[f] >= 2, n[f][e].p
          PROVE  /\ lev[n[f][e].to] = lev[f] - 1 /\ own[n[f][e].to] = own[f]
                 /\ up[n[f][e].to] = <<f, e>>
      <3>1. n[f] = m[f]
        BY <1>0, <1>2, <2>1
      <3> QED
        BY <2>1, <3>1, TreeLink
    <2>2. /\ lev \in [Frames -> 0..4] /\ own \in [Frames -> Frames]
          /\ up \in [Frames -> Frames \X Slot]
          /\ \A f \in fr \cup {0} : lev[f] = 0
          /\ \A q \in S : q \in Frames /\ lev[q] = 4 /\ own[q] = q
      BY TreeTypes
    <2> QED
      <3>1. \A f \in Frames, e \in Slot :
               lev[f] >= 2 /\ n[f][e].p =>
                   /\ lev[n[f][e].to] = lev[f] - 1
                   /\ own[n[f][e].to] = own[f]
                   /\ up[n[f][e].to] = <<f, e>>
        BY <2>1
      <3> QED
        BY <2>2, <3>1, TreeMade, Zenon
  <1>5. Translate(n, r, v) = ent
    <2>1. n[r] = m[r] /\ n[t3] = m[t3] /\ n[t2] = m[t2]
      BY <1>0, <1>2, <1>3
    <2>2. Entry1(n, t1, v) = ent
      BY <1>0, <1>2 DEF Entry1
    <2>3. Entry2(n, t2, v) = ent
      BY <1>0, <2>1, <2>2 DEF Entry2
    <2>4. Entry3(n, t3, v) = ent
      BY <1>0, <2>1, <2>3 DEF Entry3
    <2>5. Entry4(n, r, v) = ent
      BY <1>0, <2>1, <2>4 DEF Entry4
    <2> QED
      BY <2>5, LevelByLevel
  <1>6. ASSUME NEW q \in S, NEW x \in Virt, q # r \/ x # v
        PROVE  Translate(n, q, x) = Translate(m, q, x)
    <2>1. \A l \in 1..4 : Index(x, l) \in Slot
      BY <1>1, IndexType
    <2>2. ASSUME NEW f \in Frames, lev[f] = 1
          PROVE  Entry1(n, f, x) = Entry1(m, f, x) \/ (f = t1 /\ Index(x, 1) = Index(v, 1))
      <3>1. Index(x, 1) \in Slot
        BY <2>1
      <3>2. (f = t1 /\ Index(x, 1) = Index(v, 1)) \/ n[f][Index(x, 1)] = m[f][Index(x, 1)]
        BY <1>2, <3>1
      <3> QED
        BY <3>2 DEF Entry1
    <2>3. ASSUME NEW f \in Frames, lev[f] = 2
          PROVE  \/ Entry2(n, f, x) = Entry2(m, f, x)
                 \/ f = t2 /\ Index(x, 2) = Index(v, 2) /\ Index(x, 1) = Index(v, 1)
      <3> DEFINE e == Index(x, 2)
                 g == m[f][e].to
      <3>1. e \in Slot /\ n[f] = m[f] /\ g \in Frames
        BY <1>0, <1>2, <2>1, <2>3, EntryTypes
      <3>2. CASE m[f][e].p
        <4>1. lev[g] = 1 /\ up[g] = <<f, e>>
          <5>1. lev[f] >= 2 /\ lev[f] - 1 = 1
            BY <2>3
          <5> HIDE DEF e
          <5>2. lev[g] = lev[f] - 1 /\ up[g] = <<f, e>>
            BY <3>1, <3>2, <5>1, TreeLink
          <5> QED
            BY <5>1, <5>2
        <4>2. Entry2(n, f, x) = Entry1(n, g, x) /\ Entry2(m, f, x) = Entry1(m, g, x)
          BY <3>1, <3>2 DEF Entry2
        <4> HIDE DEF e, g
        <4>3. Entry1(n, g, x) = Entry1(m, g, x) \/ (g = t1 /\ Index(x, 1) = Index(v, 1))
          BY <2>2, <3>1, <4>1
        <4> QED
          BY <1>0, <4>1, <4>2, <4>3 DEF e
      <3>3. CASE ~m[f][e].p
        BY <3>1, <3>3 DEF Entry2
      <3> QED
        BY <3>2, <3>3
    <2>4. ASSUME NEW f \in Frames, lev[f] = 3
          PROVE  \/ Entry3(n, f, x) = Entry3(m, f, x)
                 \/ /\ f = t3 /\ Index(x, 3) = Index(v, 3)
                    /\ Index(x, 2) = Index(v, 2) /\ Index(x, 1) = Index(v, 1)
      <3> DEFINE e == Index(x, 3)
                 g == m[f][e].to
      <3>1. e \in Slot /\ n[f] = m[f] /\ g \in Frames
        BY <1>0, <1>2, <2>1, <2>4, EntryTypes
      <3>2. CASE m[f][e].p
        <4>1. lev[g] = 2 /\ up[g] = <<f, e>>
          <5>1. lev[f] >= 2 /\ lev[f] - 1 = 2
            BY <2>4
          <5> HIDE DEF e
          <5>2. lev[g] = lev[f] - 1 /\ up[g] = <<f, e>>
            BY <3>1, <3>2, <5>1, TreeLink
          <5> QED
            BY <5>1, <5>2
        <4>2. Entry3(n, f, x) = Entry2(n, g, x) /\ Entry3(m, f, x) = Entry2(m, g, x)
          BY <3>1, <3>2 DEF Entry3
        <4> HIDE DEF e, g
        <4>3. \/ Entry2(n, g, x) = Entry2(m, g, x)
              \/ g = t2 /\ Index(x, 2) = Index(v, 2) /\ Index(x, 1) = Index(v, 1)
          BY <2>3, <3>1, <4>1
        <4> QED
          BY <1>0, <4>1, <4>2, <4>3 DEF e
      <3>3. CASE ~m[f][e].p
        BY <3>1, <3>3 DEF Entry3
      <3> QED
        BY <3>2, <3>3
    <2>5. ASSUME NEW f \in Frames, lev[f] = 4
          PROVE  \/ Entry4(n, f, x) = Entry4(m, f, x)
                 \/ /\ f = r /\ Index(x, 4) = Index(v, 4) /\ Index(x, 3) = Index(v, 3)
                    /\ Index(x, 2) = Index(v, 2) /\ Index(x, 1) = Index(v, 1)
      <3> DEFINE e == Index(x, 4)
                 g == m[f][e].to
      <3>1. e \in Slot /\ n[f] = m[f] /\ g \in Frames
        BY <1>0, <1>2, <2>1, <2>5, EntryTypes
      <3>2. CASE m[f][e].p
        <4>1. lev[g] = 3 /\ up[g] = <<f, e>>
          <5>1. lev[f] >= 2 /\ lev[f] - 1 = 3
            BY <2>5
          <5> HIDE DEF e
          <5>2. lev[g] = lev[f] - 1 /\ up[g] = <<f, e>>
            BY <3>1, <3>2, <5>1, TreeLink
          <5> QED
            BY <5>1, <5>2
        <4>2. Entry4(n, f, x) = Entry3(n, g, x) /\ Entry4(m, f, x) = Entry3(m, g, x)
          BY <3>1, <3>2 DEF Entry4
        <4> HIDE DEF e, g
        <4>3. \/ Entry3(n, g, x) = Entry3(m, g, x)
              \/ /\ g = t3 /\ Index(x, 3) = Index(v, 3)
                 /\ Index(x, 2) = Index(v, 2) /\ Index(x, 1) = Index(v, 1)
          BY <2>4, <3>1, <4>1
        <4> QED
          BY <1>0, <4>1, <4>2, <4>3 DEF e
      <3>3. CASE ~m[f][e].p
        BY <3>1, <3>3 DEF Entry4
      <3> QED
        BY <3>2, <3>3
    <2>6. q \in Frames /\ lev[q] = 4
      BY TreeTypes
    <2>7. CASE Entry4(n, q, x) = Entry4(m, q, x)
      BY <2>7, LevelByLevel
    <2>8. CASE /\ q = r /\ Index(x, 4) = Index(v, 4) /\ Index(x, 3) = Index(v, 3)
               /\ Index(x, 2) = Index(v, 2) /\ Index(x, 1) = Index(v, 1)
      <3>1. \A l \in 1..4 : l = 1 \/ l = 2 \/ l = 3 \/ l = 4
        OBVIOUS
      <3>2. \A l \in 1..4 : Index(v, l) = Index(x, l)
        BY <2>8, <3>1
      <3>3. v = x
        BY <3>2, IndexUnique
      <3> QED
        BY <1>6, <2>8, <3>3
    <2> QED
      BY <2>5, <2>6, <2>7, <2>8
  <1> QED
    BY <1>2, <1>4, <1>5, <1>6 DEF n

\* map_page() maps one page, in one space.
LEMMA MapPageMaps ==
  ASSUME NEW w \in WalkType, NEW S, Treed(w, S), NEW r \in S, NEW v \in Virt,
         NEW phys \in Entry, NEW user \in BOOLEAN, ~MapPage(w, r, v, phys, user).short
  PROVE  LET n == MapPage(w, r, v, phys, user) IN
         /\ Treed(n, S)
         /\ Translate(n.mem, r, v) = Mapping(phys, user)
         /\ \A q \in S, x \in Virt : q # r \/ x # v => Translate(n.mem, q, x) = Translate(w.mem, q, x)
         /\ \A q \in S : q # r => n.mem[q] = w.mem[q]
         /\ \A e \in Slot : n.mem[r][e].u => user \/ w.mem[r][e].u
  <1> DEFINE n == MapPage(w, r, v, phys, user)
             w4 == Start(w, r)
             w3 == Walk3(w, r, v, user)
             w2 == Walk2(w, r, v, user)
             w1 == Walk1(w, r, v, user)
  <1>1. PICK lev, own, up : Tree(w.mem, w.free, S, lev, own, up)
    BY DEF Treed
  <1>2. r \in Frames /\ lev[r] = 4 /\ own[r] = r
    BY <1>1, TreeTypes
  <1>3. v \in Nat /\ (\A x \in Virt : x \in Nat) /\ Entries \in Nat
    BY Capacity, Sizes DEF Virt
  <1>4. Index(v, 1) \in Slot /\ Index(v, 2) \in Slot /\ Index(v, 3) \in Slot /\ Index(v, 4) \in Slot
    BY <1>3, IndexType
  <1>5. w4 \in WalkType /\ w4.mem = w.mem /\ w4.at = r /\ w4.free = w.free
    BY <1>2, StartType
  <1>6. /\ w3 \in WalkType /\ w2 \in WalkType /\ w1 \in WalkType
        /\ n.mem = [w1.mem EXCEPT ![w1.at][Index(v, 1)] = Mapping(phys, user)]
        /\ n.free = w1.free /\ n.short = w1.short
    BY <1>2, <1>3, MapPageCases
  <1>7. w3 = NextLevel(w4, Index(v, 4), user) /\ w2 = NextLevel(w3, Index(v, 3), user)
        /\ w1 = NextLevel(w2, Index(v, 2), user)
    BY DEF Walk3, Walk2, Walk1
  <1> HIDE DEF n, w4, w3, w2, w1
  <1>8. ~w1.short /\ ~w2.short /\ ~w3.short
    <2>1. ~w1.short
      BY <1>6 DEF n
    <2>2. ~w2.short
      BY <1>4, <1>6, <1>7, <2>1, NextLevelCases
    <2>3. ~w3.short
      BY <1>4, <1>6, <1>7, <2>2, NextLevelCases
    <2> QED
      BY <2>1, <2>2, <2>3
  <1>9. PICK lev3, own3, up3 :
            Descends(w4, w3, Index(v, 4), user, S, lev, own, up, lev3, own3, up3)
    <2>1. Tree(w4.mem, w4.free, S, lev, own, up) /\ lev[w4.at] >= 2 /\ w4 \in WalkType
      BY <1>1, <1>2, <1>5
    <2>2. ~NextLevel(w4, Index(v, 4), user).short
      BY <1>7, <1>8
    <2> QED
      BY <1>4, <1>7, <2>1, <2>2, NextLevelTree
  <1>10. PICK lev2, own2, up2 :
            Descends(w3, w2, Index(v, 3), user, S, lev3, own3, up3, lev2, own2, up2)
    <2>1. Tree(w3.mem, w3.free, S, lev3, own3, up3) /\ lev3[w3.at] >= 2
      BY <1>2, <1>5, <1>9 DEF Descends
    <2>2. ~NextLevel(w3, Index(v, 3), user).short
      BY <1>7, <1>8
    <2> QED
      BY <1>4, <1>6, <1>7, <2>1, <2>2, NextLevelTree, SMTT(30)
  <1>11. PICK lev1, own1, up1 :
            Descends(w2, w1, Index(v, 2), user, S, lev2, own2, up2, lev1, own1, up1)
    <2>1. Tree(w2.mem, w2.free, S, lev2, own2, up2) /\ lev2[w2.at] >= 2
      BY <1>2, <1>5, <1>9, <1>10 DEF Descends
    <2>2. ~NextLevel(w2, Index(v, 2), user).short
      BY <1>7, <1>8
    <2> QED
      BY <1>4, <1>6, <1>7, <2>1, <2>2, NextLevelTree, SMTT(30)
  <1> DEFINE t3 == w3.at    t2 == w2.at    t1 == w1.at
  <1>12. t3 \in Frames /\ t2 \in Frames /\ t1 \in Frames /\ w1.mem \in Memory
    BY <1>6 DEF WalkType
  <1> HIDE DEF t3, t2, t1
  <1>13. /\ lev3[r] = 4 /\ lev2[r] = 4 /\ lev1[r] = 4
         /\ lev2[t3] = 3 /\ lev1[t3] = 3 /\ lev1[t2] = 2 /\ lev1[t1] = 1
         /\ up1[t3] = <<r, Index(v, 4)>> /\ up1[t2] = <<t3, Index(v, 3)>>
         /\ up1[t1] = <<t2, Index(v, 2)>>
    <2>1. lev3[r] = 4
      BY <1>2, <1>5, <1>9 DEF Descends
    <2>2. lev2[r] = 4 /\ lev2[t3] = 3 /\ up2[t3] = <<r, Index(v, 4)>>
      BY <1>2, <1>5, <1>9, <1>10, <1>12, <2>1 DEF Descends, t3
    <2>3. lev1[r] = 4 /\ lev1[t3] = 3 /\ up1[t3] = <<r, Index(v, 4)>>
      BY <1>2, <1>11, <1>12, <2>2 DEF Descends
    <2>4. lev3[t3] = 3 /\ lev2[t2] = 2 /\ lev1[t1] = 1
      BY <1>2, <1>5, <1>9, <1>10, <1>11 DEF Descends, t3, t2, t1
    <2>5. lev1[t2] = 2 /\ up1[t2] = <<t3, Index(v, 3)>>
      BY <1>10, <1>11, <1>12, <2>4 DEF Descends, t2, t3
    <2>6. up1[t1] = <<t2, Index(v, 2)>>
      BY <1>11 DEF Descends, t2, t1
    <2> QED
      BY <2>1, <2>2, <2>3, <2>4, <2>5, <2>6
  <1>14. /\ w1.mem[r][Index(v, 4)].p /\ w1.mem[r][Index(v, 4)].to = t3
         /\ w1.mem[t3][Index(v, 3)].p /\ w1.mem[t3][Index(v, 3)].to = t2
         /\ w1.mem[t2][Index(v, 2)].p /\ w1.mem[t2][Index(v, 2)].to = t1
    <2>1. w2.mem[r][Index(v, 4)] = w3.mem[r][Index(v, 4)]
      BY <1>2, <1>4, <1>5, <1>9, <1>10, <1>13 DEF Descends
    <2>2. w1.mem[r][Index(v, 4)] = w3.mem[r][Index(v, 4)]
      BY <1>2, <1>4, <1>5, <1>9, <1>11, <1>13, <2>1 DEF Descends
    <2>3. w1.mem[t3][Index(v, 3)] = w2.mem[t3][Index(v, 3)]
      BY <1>4, <1>10, <1>11, <1>12, <1>13 DEF Descends, t3
    <2> QED
      BY <1>5, <1>9, <1>10, <1>11, <2>2, <2>3 DEF Descends, t3, t2, t1
  <1>15. Mapping(phys, user) \in Entry /\ Mapping(phys, user).p
    BY DEF Mapping, Entry
  <1>16. /\ n.mem \in Memory /\ Tree(n.mem, w1.free, S, lev1, own1, up1)
         /\ \A f \in Frames \ {t1} : n.mem[f] = w1.mem[f]
         /\ Translate(n.mem, r, v) = Mapping(phys, user)
         /\ \A q \in S, x \in Virt : q # r \/ x # v => Translate(n.mem, q, x) = Translate(w1.mem, q, x)
    <2> DEFINE ent == Mapping(phys, user)
               m == w1.mem
               k == n.mem
    <2>1. k = Written(m, t1, Index(v, 1), ent)
      BY <1>6 DEF t1, Written
    <2>2. ent \in Entry /\ ent.p /\ m \in Memory /\ Tree(m, w1.free, S, lev1, own1, up1)
      BY <1>11, <1>12, <1>15 DEF Descends
    <2>3. OnPath(m, r, v, lev1, up1, t3, t2, t1)
      BY <1>12, <1>13, <1>14 DEF OnPath
    <2> HIDE DEF ent, m, k
    <2>4. /\ k \in Memory /\ Tree(k, w1.free, S, lev1, own1, up1)
          /\ \A f \in Frames \ {t1} : k[f] = m[f]
          /\ Translate(k, r, v) = ent
          /\ \A q \in S, x \in Virt : q # r \/ x # v => Translate(k, q, x) = Translate(m, q, x)
      BY <2>1, <2>2, <2>3, WriteTree
    <2> QED
      BY <2>4 DEF ent, m, k
  <1>17. \A q \in S, x \in Virt : Translate(w1.mem, q, x) = Translate(w.mem, q, x)
    <2>1. ASSUME NEW q \in S, NEW x \in Virt PROVE Translate(w1.mem, q, x) = Translate(w.mem, q, x)
      <3>1. x \in Nat
        BY <1>3
      <3>2. Translate(w1.mem, q, x) = Translate(w2.mem, q, x)
        BY <1>11, <3>1 DEF Descends
      <3>3. Translate(w2.mem, q, x) = Translate(w3.mem, q, x)
        BY <1>10, <3>1 DEF Descends
      <3>4. Translate(w3.mem, q, x) = Translate(w.mem, q, x)
        BY <1>5, <1>9, <3>1 DEF Descends
      <3> QED
        BY <3>2, <3>3, <3>4
    <2> QED
      BY <2>1
  <1>18. Treed(n, S)
    BY <1>6, <1>16 DEF Treed
  <1>19. ASSUME NEW q \in S, q # r PROVE n.mem[q] = w.mem[q]
    <2>1. q \in Frames /\ lev[q] = 4 /\ lev3[q] = 4 /\ lev2[q] = 4 /\ lev1[q] = 4
      <3>1. q \in Frames /\ lev[q] = 4
        BY <1>1, TreeTypes
      <3>2. lev3[q] = 4
        BY <1>9 DEF Descends, Tree
      <3>3. lev2[q] = 4
        BY <1>10 DEF Descends, Tree
      <3>4. lev1[q] = 4
        BY <1>11 DEF Descends, Tree
      <3> QED
        BY <3>1, <3>2, <3>3, <3>4
    <2>2. q # t3 /\ q # t2 /\ q # t1
      BY <1>13, <2>1
    <2>3. 0 \in Slot
      BY <1>3, Sizes DEF Slot
    <2>4. w3.mem[q] = w.mem[q]
      BY <1>5, <1>9, <1>19, <2>1, <2>3 DEF Descends
    <2>5. w2.mem[q] = w3.mem[q]
      BY <1>10, <2>1, <2>2, <2>3 DEF Descends, t3
    <2>6. w1.mem[q] = w2.mem[q]
      BY <1>11, <2>1, <2>2, <2>3 DEF Descends, t2
    <2> QED
      BY <1>16, <2>1, <2>2, <2>4, <2>5, <2>6
  <1>20. ASSUME NEW e \in Slot, n.mem[r][e].u PROVE user \/ w.mem[r][e].u
    <2>1. w1.mem[r][e].u
      <3>1. r # t1
        BY <1>13
      <3> QED
        BY <1>2, <1>16, <1>20, <3>1
    <2>2. user \/ w2.mem[r][e].u
      BY <1>2, <1>11, <1>13, <2>1 DEF Descends
    <2>3. user \/ w3.mem[r][e].u
      BY <1>2, <1>10, <1>13, <2>2 DEF Descends
    <2> QED
      BY <1>2, <1>5, <1>9, <2>3 DEF Descends
  <1> QED
    BY <1>16, <1>17, <1>18, <1>19, <1>20 DEF n

-----------------------------------------------------------------------------
(* The loops over pages                                                    *)

\* The walks of a loop, one after the other.
Walks(c, n) ==
    /\ \A k \in 0..n : c[k] \in WalkType
    /\ \A k \in 1..n : c[k].free \subseteq c[k - 1].free /\ (c[k - 1].short => c[k].short)

LEMMA WalksMade ==
  ASSUME NEW n \in Nat, NEW c, c[0] \in WalkType,
         \A k \in 1..n : c[k - 1] \in WalkType =>
             /\ c[k] \in WalkType /\ c[k].free \subseteq c[k - 1].free
             /\ (c[k - 1].short => c[k].short)
  PROVE  Walks(c, n)
  <1> DEFINE T == {k \in 0..n : c[k] \in WalkType}
  <1>1. 0 \in T
    OBVIOUS
  <1>2. ASSUME NEW k \in 0..(n - 1), k \in T PROVE k + 1 \in T
    <2>1. k + 1 \in 1..n /\ (k + 1) - 1 = k /\ k + 1 \in 0..n
      OBVIOUS
    <2> QED
      BY <1>2, <2>1
  <1> HIDE DEF T
  <1>3. 0..n \subseteq T
    BY <1>1, <1>2, UpTo
  <1>4. \A k \in 0..n : c[k] \in WalkType
    BY <1>3 DEF T
  <1>5. ASSUME NEW k \in 1..n PROVE c[k].free \subseteq c[k - 1].free /\ (c[k - 1].short => c[k].short)
    <2>1. k - 1 \in 0..n
      OBVIOUS
    <2> QED
      BY <1>4, <2>1
  <1> QED
    BY <1>4, <1>5 DEF Walks

\* A loop that ends with no failed allocation has had none.
LEMMA WalksOn ==
  ASSUME NEW n \in Nat, NEW c, Walks(c, n)
  PROVE  \A k \in 0..n : /\ c[k].free \subseteq c[0].free /\ (c[0].short => c[k].short)
                         /\ c[k].short => c[n].short
  <1> DEFINE T == {k \in 0..n : c[k].free \subseteq c[0].free /\ (c[0].short => c[k].short)}
             U == {k \in 0..n : c[n - k].short => c[n].short}
  <1>1. 0 \in T /\ 0 \in U
    OBVIOUS
  <1>2. ASSUME NEW k \in 0..(n - 1), k \in T PROVE k + 1 \in T
    <2>1. k + 1 \in 1..n /\ (k + 1) - 1 = k /\ k + 1 \in 0..n
      OBVIOUS
    <2> QED
      BY <1>2, <2>1 DEF Walks
  <1>3. ASSUME NEW k \in 0..(n - 1), k \in U PROVE k + 1 \in U
    <2>1. n - k \in 1..n /\ (n - k) - 1 = n - (k + 1) /\ k + 1 \in 0..n
      OBVIOUS
    <2> QED
      BY <1>3, <2>1 DEF Walks
  <1> HIDE DEF T, U
  <1>4. 0..n \subseteq T
    BY <1>1, <1>2, UpTo
  <1>5. 0..n \subseteq U
    BY <1>1, <1>3, UpTo
  <1>6. ASSUME NEW k \in 0..n PROVE c[k].short => c[n].short
    <2>1. n - k \in 0..n /\ n - (n - k) = k
      OBVIOUS
    <2> QED
      BY <1>5, <2>1 DEF U
  <1> QED
    BY <1>4, <1>6 DEF T

\* The loop of user_virt_map(): its walks, one for each page, exist and are the
\* values of the function that MapRange defines by recursion.
LEMMA MapRangeRun ==
  ASSUME NEW w \in WalkType, NEW pml \in Frames, NEW base \in Nat, NEW n \in Nat,
         NEW user \in BOOLEAN
  PROVE  \E c : /\ c[0] = w /\ Walks(c, n) /\ MapRange(w, pml, base, n, user) = c[n]
                /\ \A k \in 1..n : c[k] = MapNew(c[k - 1], pml, base + k - 1, user)
  <1> DEFINE Step(x, k) == MapNew(x, pml, base + k - 1, user)
             G == [x \in WalkType \X (1..n) |-> Step(x[1], x[2])]
             Body(c, i) == IF i = 0 THEN w ELSE MapNew(c[i - 1], pml, base + i - 1, user)
             Runs(c) == c = [i \in 0..n |-> Body(c, i)]
             chosen == CHOOSE c : Runs(c)
  <1>0. n \in Nat
    BY Sizes
  <1>1. ASSUME NEW x \in WalkType, NEW k \in 1..n
        PROVE  LET y == Step(x, k) IN y \in WalkType /\ y.free \subseteq x.free /\ (x.short => y.short)
    <2>1. base + k - 1 \in Nat
      BY <1>0
    <2> QED
      BY <2>1, MapNewType
  <1>2. \A x \in WalkType, k \in 1..n : G[<<x, k>>] = Step(x, k) /\ G[<<x, k>>] \in WalkType
    <2> HIDE DEF Step
    <2> QED
      BY <1>1
  <1>3. PICK f \in [0..n -> WalkType] : f[0] = w /\ \A k \in 1..n : f[k] = G[<<f[k - 1], k>>]
    <2> HIDE DEF G
    <2>1. \E f : IsRun(f, WalkType, w, G, n)
      BY <1>0, <1>2, Iterated
    <2> QED
      BY <2>1 DEF IsRun
  <1>4. Runs(f)
    <2>1. ASSUME NEW i \in 0..n PROVE f[i] = Body(f, i)
      <3>1. CASE i = 0
        BY <1>3, <3>1
      <3>2. CASE i # 0
        <4>1. i \in 1..n /\ i - 1 \in 0..n
          BY <1>0, <3>2
        <4> HIDE DEF G, Step
        <4>2. f[i] = Step(f[i - 1], i)
          BY <1>2, <1>3, <4>1
        <4> QED
          BY <3>2, <4>2 DEF Step
      <3> QED
        BY <3>1, <3>2
    <2> HIDE DEF Body, G
    <2> QED
      BY <1>3, <2>1
  <1>5. Runs(chosen)
    BY <1>4
  <1>6. MapRange(w, pml, base, n, user) = chosen[n]
    BY DEF MapRange
  <1> HIDE DEF chosen
  <1>7. chosen[0] = w
    BY <1>0, <1>5
  <1>8. ASSUME NEW k \in 1..n PROVE chosen[k] = Step(chosen[k - 1], k)
    <2>1. k \in 0..n /\ k # 0
      BY <1>0
    <2>2. chosen[k] = Body(chosen, k)
      <3> HIDE DEF Body
      <3> QED
        BY <1>5, <2>1
    <2> QED
      BY <2>1, <2>2
  <1>9. Walks(chosen, n)
    <2> HIDE DEF Step
    <2>1. ASSUME NEW k \in 1..n, chosen[k - 1] \in WalkType
          PROVE  /\ chosen[k] \in WalkType /\ chosen[k].free \subseteq chosen[k - 1].free
                 /\ (chosen[k - 1].short => chosen[k].short)
      <3>1. chosen[k] = Step(chosen[k - 1], k)
        BY <1>8
      <3> QED
        BY <1>1, <2>1, <3>1
    <2>2. chosen[0] \in WalkType
      BY <1>7
    <2> QED
      BY <1>0, <2>1, <2>2, WalksMade
  <1> QED
    BY <1>6, <1>7, <1>8, <1>9

\* map_kernel(), "Copy heap over".
LEMMA CopyHeapRun ==
  ASSUME NEW w \in WalkType, NEW src \in Frames, NEW dst \in Frames
  PROVE  \E c : /\ c[0] = w /\ Walks(c, HeapPages) /\ CopyHeap(w, src, dst) = c[HeapPages]
                /\ \A k \in 1..HeapPages : c[k] = CopyPage(c[k - 1], src, dst, HeapLow + k - 1)
  <1> DEFINE Step(x, k) == CopyPage(x, src, dst, HeapLow + k - 1)
             G == [x \in WalkType \X (1..HeapPages) |-> Step(x[1], x[2])]
             Body(c, i) == IF i = 0 THEN w ELSE CopyPage(c[i - 1], src, dst, HeapLow + i - 1)
             Runs(c) == c = [i \in 0..HeapPages |-> Body(c, i)]
             chosen == CHOOSE c : Runs(c)
  <1>0. HeapPages \in Nat
    BY Sizes
  <1>1. ASSUME NEW x \in WalkType, NEW k \in 1..HeapPages
        PROVE  LET y == Step(x, k) IN y \in WalkType /\ y.free \subseteq x.free /\ (x.short => y.short)
    <2>1. HeapLow + k - 1 \in Nat
      BY <1>0, Sizes
    <2>2. Index(HeapLow + k - 1, 1) \in Slot
      BY <2>1, IndexType
    <2>3. x.mem \in Memory
      BY DEF WalkType
    <2>4. x.mem[src][Index(HeapLow + k - 1, 1)] \in Entry
      BY <2>2, <2>3, EntryTypes
    <2> QED
      BY <2>1, <2>4, MapPageType DEF CopyPage
  <1>2. \A x \in WalkType, k \in 1..HeapPages : G[<<x, k>>] = Step(x, k) /\ G[<<x, k>>] \in WalkType
    <2> HIDE DEF Step
    <2> QED
      BY <1>1
  <1>3. PICK f \in [0..HeapPages -> WalkType] : f[0] = w /\ \A k \in 1..HeapPages : f[k] = G[<<f[k - 1], k>>]
    <2> HIDE DEF G
    <2>1. \E f : IsRun(f, WalkType, w, G, HeapPages)
      BY <1>0, <1>2, Iterated
    <2> QED
      BY <2>1 DEF IsRun
  <1>4. Runs(f)
    <2>1. ASSUME NEW i \in 0..HeapPages PROVE f[i] = Body(f, i)
      <3>1. CASE i = 0
        BY <1>3, <3>1
      <3>2. CASE i # 0
        <4>1. i \in 1..HeapPages /\ i - 1 \in 0..HeapPages
          BY <1>0, <3>2
        <4> HIDE DEF G, Step
        <4>2. f[i] = Step(f[i - 1], i)
          BY <1>2, <1>3, <4>1
        <4> QED
          BY <3>2, <4>2 DEF Step
      <3> QED
        BY <3>1, <3>2
    <2> HIDE DEF Body, G
    <2> QED
      BY <1>3, <2>1
  <1>5. Runs(chosen)
    BY <1>4
  <1>6. CopyHeap(w, src, dst) = chosen[HeapPages]
    BY DEF CopyHeap
  <1> HIDE DEF chosen
  <1>7. chosen[0] = w
    BY <1>0, <1>5
  <1>8. ASSUME NEW k \in 1..HeapPages PROVE chosen[k] = Step(chosen[k - 1], k)
    <2>1. k \in 0..HeapPages /\ k # 0
      BY <1>0
    <2>2. chosen[k] = Body(chosen, k)
      <3> HIDE DEF Body
      <3> QED
        BY <1>5, <2>1
    <2> QED
      BY <2>1, <2>2
  <1>9. Walks(chosen, HeapPages)
    <2> HIDE DEF Step
    <2>1. ASSUME NEW k \in 1..HeapPages, chosen[k - 1] \in WalkType
          PROVE  /\ chosen[k] \in WalkType /\ chosen[k].free \subseteq chosen[k - 1].free
                 /\ (chosen[k - 1].short => chosen[k].short)
      <3>1. chosen[k] = Step(chosen[k - 1], k)
        BY <1>8
      <3> QED
        BY <1>1, <2>1, <3>1
    <2>2. chosen[0] \in WalkType
      BY <1>7
    <2> QED
      BY <1>0, <2>1, <2>2, WalksMade
  <1> QED
    BY <1>6, <1>7, <1>8, <1>9

\* map_spec(), the first loop and the second.
LEMMA MapLowRun ==
  ASSUME NEW w \in WalkType, NEW pml \in Frames
  PROVE  \E c : /\ c[0] = w /\ Walks(c, LowPages) /\ MapLow(w, pml) = c[LowPages]
                /\ \A k \in 1..LowPages : c[k] = MapBoth(c[k - 1], pml, k - 1)
  <1> DEFINE Step(x, k) == MapBoth(x, pml, k - 1)
             G == [x \in WalkType \X (1..LowPages) |-> Step(x[1], x[2])]
             Body(c, i) == IF i = 0 THEN w ELSE MapBoth(c[i - 1], pml, i - 1)
             Runs(c) == c = [i \in 0..LowPages |-> Body(c, i)]
             chosen == CHOOSE c : Runs(c)
  <1>0. LowPages \in Nat
    BY Sizes
  <1>1. ASSUME NEW x \in WalkType, NEW k \in 1..LowPages
        PROVE  LET y == Step(x, k) IN y \in WalkType /\ y.free \subseteq x.free /\ (x.short => y.short)
    <2>1. k - 1 \in Nat /\ PhysOffset + (k - 1) \in Nat /\ k - 1 \in 0..(LowPages - 1)
      BY <1>0, Sizes
    <2>2. Phys(k - 1) \in Entry
      BY <2>1, FrameTypes
    <2> DEFINE y == MapPage(x, pml, PhysOffset + (k - 1), Phys(k - 1), FALSE)
    <2>3. y \in WalkType /\ y.free \subseteq x.free /\ (x.short => y.short)
      BY <2>1, <2>2, MapPageType
    <2> HIDE DEF y
    <2>4. LET z == MapPage(y, pml, k - 1, Phys(k - 1), FALSE) IN
          z \in WalkType /\ z.free \subseteq y.free /\ (y.short => z.short)
      BY <2>1, <2>2, <2>3, MapPageType
    <2> QED
      BY <2>3, <2>4 DEF MapBoth, y
  <1>2. \A x \in WalkType, k \in 1..LowPages : G[<<x, k>>] = Step(x, k) /\ G[<<x, k>>] \in WalkType
    <2> HIDE DEF Step
    <2> QED
      BY <1>1
  <1>3. PICK f \in [0..LowPages -> WalkType] : f[0] = w /\ \A k \in 1..LowPages : f[k] = G[<<f[k - 1], k>>]
    <2> HIDE DEF G
    <2>1. \E f : IsRun(f, WalkType, w, G, LowPages)
      BY <1>0, <1>2, Iterated
    <2> QED
      BY <2>1 DEF IsRun
  <1>4. Runs(f)
    <2>1. ASSUME NEW i \in 0..LowPages PROVE f[i] = Body(f, i)
      <3>1. CASE i = 0
        BY <1>3, <3>1
      <3>2. CASE i # 0
        <4>1. i \in 1..LowPages /\ i - 1 \in 0..LowPages
          BY <1>0, <3>2
        <4> HIDE DEF G, Step
        <4>2. f[i] = Step(f[i - 1], i)
          BY <1>2, <1>3, <4>1
        <4> QED
          BY <3>2, <4>2 DEF Step
      <3> QED
        BY <3>1, <3>2
    <2> HIDE DEF Body, G
    <2> QED
      BY <1>3, <2>1
  <1>5. Runs(chosen)
    BY <1>4
  <1>6. MapLow(w, pml) = chosen[LowPages]
    BY DEF MapLow
  <1> HIDE DEF chosen
  <1>7. chosen[0] = w
    BY <1>0, <1>5
  <1>8. ASSUME NEW k \in 1..LowPages PROVE chosen[k] = Step(chosen[k - 1], k)
    <2>1. k \in 0..LowPages /\ k # 0
      BY <1>0
    <2>2. chosen[k] = Body(chosen, k)
      <3> HIDE DEF Body
      <3> QED
        BY <1>5, <2>1
    <2> QED
      BY <2>1, <2>2
  <1>9. Walks(chosen, LowPages)
    <2> HIDE DEF Step
    <2>1. ASSUME NEW k \in 1..LowPages, chosen[k - 1] \in WalkType
          PROVE  /\ chosen[k] \in WalkType /\ chosen[k].free \subseteq chosen[k - 1].free
                 /\ (chosen[k - 1].short => chosen[k].short)
      <3>1. chosen[k] = Step(chosen[k - 1], k)
        BY <1>8
      <3> QED
        BY <1>1, <2>1, <3>1
    <2>2. chosen[0] \in WalkType
      BY <1>7
    <2> QED
      BY <1>0, <2>1, <2>2, WalksMade
  <1> QED
    BY <1>6, <1>7, <1>8, <1>9

\* The second loop.
LEMMA MapKernRun ==
  ASSUME NEW w \in WalkType, NEW pml \in Frames
  PROVE  \E c : /\ c[0] = w /\ Walks(c, KernPages) /\ MapKern(w, pml) = c[KernPages]
                /\ \A k \in 1..KernPages : c[k] = MapPage(c[k - 1], pml, KernOffset + k - 1, Phys(k - 1), FALSE)
  <1> DEFINE Step(x, k) == MapPage(x, pml, KernOffset + k - 1, Phys(k - 1), FALSE)
             G == [x \in WalkType \X (1..KernPages) |-> Step(x[1], x[2])]
             Body(c, i) == IF i = 0 THEN w ELSE MapPage(c[i - 1], pml, KernOffset + i - 1, Phys(i - 1), FALSE)
             Runs(c) == c = [i \in 0..KernPages |-> Body(c, i)]
             chosen == CHOOSE c : Runs(c)
  <1>0. KernPages \in Nat
    BY Sizes
  <1>1. ASSUME NEW x \in WalkType, NEW k \in 1..KernPages
        PROVE  LET y == Step(x, k) IN y \in WalkType /\ y.free \subseteq x.free /\ (x.short => y.short)
    <2>1. KernOffset + k - 1 \in Nat /\ k - 1 \in 0..(LowPages - 1)
      BY <1>0, Sizes, VmmLayout
    <2>2. Phys(k - 1) \in Entry
      BY <2>1, FrameTypes
    <2> QED
      BY <2>1, <2>2, MapPageType
  <1>2. \A x \in WalkType, k \in 1..KernPages : G[<<x, k>>] = Step(x, k) /\ G[<<x, k>>] \in WalkType
    <2> HIDE DEF Step
    <2> QED
      BY <1>1
  <1>3. PICK f \in [0..KernPages -> WalkType] : f[0] = w /\ \A k \in 1..KernPages : f[k] = G[<<f[k - 1], k>>]
    <2> HIDE DEF G
    <2>1. \E f : IsRun(f, WalkType, w, G, KernPages)
      BY <1>0, <1>2, Iterated
    <2> QED
      BY <2>1 DEF IsRun
  <1>4. Runs(f)
    <2>1. ASSUME NEW i \in 0..KernPages PROVE f[i] = Body(f, i)
      <3>1. CASE i = 0
        BY <1>3, <3>1
      <3>2. CASE i # 0
        <4>1. i \in 1..KernPages /\ i - 1 \in 0..KernPages
          BY <1>0, <3>2
        <4> HIDE DEF G, Step
        <4>2. f[i] = Step(f[i - 1], i)
          BY <1>2, <1>3, <4>1
        <4> QED
          BY <3>2, <4>2 DEF Step
      <3> QED
        BY <3>1, <3>2
    <2> HIDE DEF Body, G
    <2> QED
      BY <1>3, <2>1
  <1>5. Runs(chosen)
    BY <1>4
  <1>6. MapKern(w, pml) = chosen[KernPages]
    BY DEF MapKern
  <1> HIDE DEF chosen
  <1>7. chosen[0] = w
    BY <1>0, <1>5
  <1>8. ASSUME NEW k \in 1..KernPages PROVE chosen[k] = Step(chosen[k - 1], k)
    <2>1. k \in 0..KernPages /\ k # 0
      BY <1>0
    <2>2. chosen[k] = Body(chosen, k)
      <3> HIDE DEF Body
      <3> QED
        BY <1>5, <2>1
    <2> QED
      BY <2>1, <2>2
  <1>9. Walks(chosen, KernPages)
    <2> HIDE DEF Step
    <2>1. ASSUME NEW k \in 1..KernPages, chosen[k - 1] \in WalkType
          PROVE  /\ chosen[k] \in WalkType /\ chosen[k].free \subseteq chosen[k - 1].free
                 /\ (chosen[k - 1].short => chosen[k].short)
      <3>1. chosen[k] = Step(chosen[k - 1], k)
        BY <1>8
      <3> QED
        BY <1>1, <2>1, <3>1
    <2>2. chosen[0] \in WalkType
      BY <1>7
    <2> QED
      BY <1>0, <2>1, <2>2, WalksMade
  <1> QED
    BY <1>6, <1>7, <1>8, <1>9

-----------------------------------------------------------------------------
(* What a call changes                                                     *)

\* The user flag of what is the kernel's.
NotUser == FALSE

LEMMA NotUserFalse == NotUser \in BOOLEAN /\ ~NotUser
  BY DEF NotUser

\* From w to n, the space r gets new mappings for pages of D, all for users or
\* none; its own entries of the first level stay out of reach of users then.
Grown(w, n, S, r, D, user) ==
    /\ Treed(n, S)
    /\ \A q \in S, x \in Virt :
          \/ Translate(n.mem, q, x) = Translate(w.mem, q, x)
          \/ q = r /\ x \in D /\ Translate(n.mem, q, x).u = user
    /\ \A q \in S : q # r => n.mem[q] = w.mem[q]
    /\ \A e \in Slot : n.mem[r][e].u => user \/ w.mem[r][e].u

\* Pages that users reach are in frames of their own, which are allocated.
Owned(w, S) ==
    \A q \in S, x \in Virt :
        Translate(w.mem, q, x).u =>
            /\ Translate(w.mem, q, x).to \in Frame \ w.free
            /\ \A r \in S, y \in Virt :
                  Translate(w.mem, r, y).u /\ Translate(w.mem, r, y).to = Translate(w.mem, q, x).to
                      => r = q /\ y = x

LEMMA GrownParts ==
  ASSUME NEW w, NEW n, NEW S, NEW r, NEW D, NEW user, Grown(w, n, S, r, D, user)
  PROVE  /\ Treed(n, S)
         /\ \A q \in S, x \in Virt :
              \/ Translate(n.mem, q, x) = Translate(w.mem, q, x)
              \/ q = r /\ x \in D /\ Translate(n.mem, q, x).u = user
         /\ \A q \in S : q # r => n.mem[q] = w.mem[q]
         /\ \A e \in Slot : n.mem[r][e].u => user \/ w.mem[r][e].u
  BY DEF Grown

LEMMA GrownSame ==
  ASSUME NEW w, NEW S, NEW r, NEW D, NEW user, Treed(w, S)
  PROVE  Grown(w, w, S, r, D, user)
  BY DEF Grown

LEMMA GrownMore ==
  ASSUME NEW w, NEW n, NEW S, NEW r, NEW D, NEW E, NEW user, D \subseteq E, Grown(w, n, S, r, D, user)
  PROVE  Grown(w, n, S, r, E, user)
  BY DEF Grown

LEMMA GrownTwice ==
  ASSUME NEW w, NEW n, NEW k, NEW S, NEW r, NEW D, NEW user,
         Grown(w, n, S, r, D, user), Grown(n, k, S, r, D, user)
  PROVE  Grown(w, k, S, r, D, user)
  <1>1. Treed(k, S)
    BY GrownParts
  <1>2. ASSUME NEW q \in S, NEW x \in Virt
        PROVE  \/ Translate(k.mem, q, x) = Translate(w.mem, q, x)
               \/ q = r /\ x \in D /\ Translate(k.mem, q, x).u = user
    <2>1. \/ Translate(k.mem, q, x) = Translate(n.mem, q, x)
          \/ q = r /\ x \in D /\ Translate(k.mem, q, x).u = user
      BY GrownParts
    <2>2. \/ Translate(n.mem, q, x) = Translate(w.mem, q, x)
          \/ q = r /\ x \in D /\ Translate(n.mem, q, x).u = user
      BY GrownParts
    <2> QED
      BY <2>1, <2>2
  <1>3. ASSUME NEW q \in S, q # r PROVE k.mem[q] = w.mem[q]
    BY <1>3, GrownParts
  <1>4. ASSUME NEW e \in Slot, k.mem[r][e].u PROVE user \/ w.mem[r][e].u
    <2>1. user \/ n.mem[r][e].u
      BY <1>4, GrownParts
    <2> QED
      BY <2>1, GrownParts
  <1> QED
    BY <1>1, <1>2, <1>3, <1>4 DEF Grown

\* One page, to a frame that is no user's.
LEMMA MapPageGrows ==
  ASSUME NEW w \in WalkType, NEW S, Treed(w, S), NEW r \in S, NEW v \in Virt, NEW D, v \in D,
         NEW phys \in Entry, NEW user \in BOOLEAN, ~phys.u,
         ~MapPage(w, r, v, phys, user).short
  PROVE  LET n == MapPage(w, r, v, phys, user) IN
         /\ Grown(w, n, S, r, D, user)
         /\ Translate(n.mem, r, v) = [to |-> phys.to, p |-> TRUE, u |-> user]
         /\ \A x \in Virt \ {v} : Translate(n.mem, r, x) = Translate(w.mem, r, x)
  <1> DEFINE n == MapPage(w, r, v, phys, user)
  <1>1. /\ Treed(n, S)
        /\ Translate(n.mem, r, v) = Mapping(phys, user)
        /\ \A q \in S, x \in Virt : q # r \/ x # v => Translate(n.mem, q, x) = Translate(w.mem, q, x)
        /\ \A q \in S : q # r => n.mem[q] = w.mem[q]
        /\ \A e \in Slot : n.mem[r][e].u => user \/ w.mem[r][e].u
    BY MapPageMaps
  <1>2. Mapping(phys, user) = [to |-> phys.to, p |-> TRUE, u |-> user]
    BY DEF Mapping
  <1> HIDE DEF n
  <1>3. Translate(n.mem, r, v).u = user
    BY <1>1, <1>2
  <1>4. \A q \in S, x \in Virt :
              \/ Translate(n.mem, q, x) = Translate(w.mem, q, x)
              \/ q = r /\ x \in D /\ Translate(n.mem, q, x).u = user
    BY <1>1, <1>3
  <1>5. Grown(w, n, S, r, D, user)
    BY <1>1, <1>4 DEF Grown
  <1> QED
    BY <1>1, <1>2, <1>5 DEF n

\* Memory of the kernel takes no frame from a user.
LEMMA GrownOwned ==
  ASSUME NEW w, NEW n, NEW S, NEW r, NEW D, Grown(w, n, S, r, D, NotUser), Owned(w, S),
         n.free \subseteq w.free
  PROVE  Owned(n, S)
  <1>1. ASSUME NEW q \in S, NEW x \in Virt, Translate(n.mem, q, x).u
        PROVE  Translate(n.mem, q, x) = Translate(w.mem, q, x)
    BY <1>1, GrownParts, NotUserFalse
  <1>2. ASSUME NEW q \in S, NEW x \in Virt, Translate(n.mem, q, x).u
        PROVE  /\ Translate(n.mem, q, x).to \in Frame \ n.free
               /\ \A s \in S, y \in Virt :
                     Translate(n.mem, s, y).u /\ Translate(n.mem, s, y).to = Translate(n.mem, q, x).to
                         => s = q /\ y = x
    <2>1. Translate(n.mem, q, x) = Translate(w.mem, q, x)
      BY <1>1, <1>2
    <2>2. Translate(n.mem, q, x).to \in Frame \ n.free
      BY <1>2, <2>1 DEF Owned
    <2>3. ASSUME NEW s \in S, NEW y \in Virt, Translate(n.mem, s, y).u,
                 Translate(n.mem, s, y).to = Translate(n.mem, q, x).to
          PROVE  s = q /\ y = x
      <3>1. Translate(n.mem, s, y) = Translate(w.mem, s, y)
        BY <1>1, <2>3
      <3> QED
        BY <1>2, <2>1, <2>3, <3>1 DEF Owned
    <2> QED
      BY <2>2, <2>3
  <1> QED
    BY <1>2 DEF Owned

\* A new frame for a page.
LEMMA MapNewGrows ==
  ASSUME NEW w \in WalkType, NEW S, Treed(w, S), NEW r \in S, NEW v \in Virt, NEW D, v \in D,
         NEW user \in BOOLEAN, ~MapNew(w, r, v, user).short
  PROVE  LET n == MapNew(w, r, v, user) IN
         Grown(w, n, S, r, D, user) /\ (Owned(w, S) => Owned(n, S))
  <1> DEFINE t == Taken(w)
             f == PmmAllocPage(w)
             p == Phys(f)
             n == MapPage(t, r, v, p, user)
  <1>1. MapNew(w, r, v, user) = n
    BY DEF MapNew
  <1>2. /\ t \in WalkType /\ t.mem = w.mem /\ t.free = w.free \ {f}
        /\ t.short = (w.short \/ w.free = {})
    BY TakenType
  <1>3. f \in Frames /\ (w.free # {} => f \in w.free)
    BY AllocType
  <1>4. p \in Entry /\ p.to = f /\ ~p.u
    BY <1>3, FrameTypes DEF Phys
  <1>5. v \in Nat
    BY Capacity DEF Virt
  <1>6. Treed(t, S) /\ r \in Frames
    <2>1. PICK lev, own, up : Tree(w.mem, w.free, S, lev, own, up)
      BY DEF Treed
    <2>2. Tree(t.mem, t.free, S, lev, own, up)
      <3>1. t.free \subseteq w.free
        BY <1>2
      <3>2. Tree(w.mem, t.free, S, lev, own, up)
        BY <2>1, <3>1, TreeFewer
      <3> QED
        BY <1>2, <3>2
    <2> QED
      BY <2>1, <2>2, TreeTypes DEF Treed
  <1>7. ~n.short
    BY <1>1
  <1> HIDE DEF t, f, p
  <1>8. n \in WalkType /\ n.free \subseteq t.free /\ (t.short => n.short)
    BY <1>2, <1>4, <1>5, <1>6, MapPageType
  <1>9. /\ Grown(t, n, S, r, D, user)
        /\ Translate(n.mem, r, v) = [to |-> f, p |-> TRUE, u |-> user]
        /\ \A x \in Virt \ {v} : Translate(n.mem, r, x) = Translate(t.mem, r, x)
    <2>1. /\ Grown(t, n, S, r, D, user)
          /\ Translate(n.mem, r, v) = [to |-> p.to, p |-> TRUE, u |-> user]
          /\ \A x \in Virt \ {v} : Translate(n.mem, r, x) = Translate(t.mem, r, x)
      BY <1>2, <1>4, <1>6, <1>7, MapPageGrows
    <2> QED
      BY <1>4, <2>1
  <1> HIDE DEF n
  <1>10. Grown(w, n, S, r, D, user)
    BY <1>2, <1>9 DEF Grown
  <1>11. f \in w.free /\ f \in Frame
    BY <1>2, <1>3, <1>7, <1>8 DEF WalkType
  <1>12. ASSUME Owned(w, S) PROVE Owned(n, S)
    <2>1. ASSUME NEW q \in S, NEW x \in Virt, Translate(n.mem, q, x).u
          PROVE  \/ Translate(n.mem, q, x) = Translate(w.mem, q, x)
                 \/ q = r /\ x = v /\ Translate(n.mem, q, x).to = f
      BY <1>2, <1>9, <2>1, GrownParts
    <2>2. ASSUME NEW q \in S, NEW x \in Virt, Translate(w.mem, q, x).u
          PROVE  Translate(w.mem, q, x).to \in Frame \ n.free /\ Translate(w.mem, q, x).to # f
      BY <1>2, <1>8, <1>11, <1>12, <2>2 DEF Owned
    <2>3. f \in Frame \ n.free
      BY <1>2, <1>8, <1>11
    <2>4. ASSUME NEW q \in S, NEW x \in Virt, Translate(n.mem, q, x).u
          PROVE  /\ Translate(n.mem, q, x).to \in Frame \ n.free
                 /\ \A s \in S, y \in Virt :
                       Translate(n.mem, s, y).u /\ Translate(n.mem, s, y).to = Translate(n.mem, q, x).to
                           => s = q /\ y = x
      <3>1. Translate(n.mem, q, x).to \in Frame \ n.free
        BY <2>1, <2>2, <2>3, <2>4
      <3>2. ASSUME NEW s \in S, NEW y \in Virt, Translate(n.mem, s, y).u,
                   Translate(n.mem, s, y).to = Translate(n.mem, q, x).to
            PROVE  s = q /\ y = x
        <4>1. CASE /\ Translate(n.mem, q, x) = Translate(w.mem, q, x)
                   /\ Translate(n.mem, s, y) = Translate(w.mem, s, y)
          BY <1>12, <2>4, <3>2, <4>1 DEF Owned
        <4>2. CASE /\ Translate(n.mem, q, x) = Translate(w.mem, q, x)
                   /\ Translate(n.mem, s, y).to = f
          BY <2>2, <2>4, <3>2, <4>2
        <4>3. CASE /\ Translate(n.mem, s, y) = Translate(w.mem, s, y)
                   /\ Translate(n.mem, q, x).to = f
          BY <2>2, <2>4, <3>2, <4>3
        <4>4. CASE q = r /\ x = v /\ s = r /\ y = v
          BY <4>4
        <4> QED
          BY <2>1, <2>4, <3>2, <4>1, <4>2, <4>3, <4>4
      <3> QED
        BY <3>1, <3>2
    <2> QED
      BY <2>4 DEF Owned
  <1> QED
    BY <1>1, <1>10, <1>12

\* A loop over pages of D.
LEMMA LoopGrows ==
  ASSUME NEW n \in Nat, NEW c, NEW S, NEW r, NEW D, NEW user,
         Walks(c, n), Treed(c[0], S), ~c[n].short,
         \A k \in 1..n : Grown(c[0], c[k - 1], S, r, D, user) /\ ~c[k].short
                            => Grown(c[k - 1], c[k], S, r, D, user)
  PROVE  \A k \in 0..n : Grown(c[0], c[k], S, r, D, user) /\ ~c[k].short
  <1> DEFINE T == {k \in 0..n : Grown(c[0], c[k], S, r, D, user)}
  <1>1. \A k \in 0..n : ~c[k].short
    BY WalksOn
  <1>2. 0 \in T
    BY GrownSame
  <1>3. ASSUME NEW k \in 0..(n - 1), k \in T PROVE k + 1 \in T
    <2>1. k + 1 \in 1..n /\ (k + 1) - 1 = k /\ k + 1 \in 0..n
      OBVIOUS
    <2>2. Grown(c[0], c[k], S, r, D, user)
      BY <1>3
    <2>3. Grown(c[k], c[k + 1], S, r, D, user)
      BY <1>1, <2>1, <2>2
    <2>4. Grown(c[0], c[k + 1], S, r, D, user)
      BY <2>2, <2>3, GrownTwice
    <2> QED
      BY <2>1, <2>4
  <1> HIDE DEF T
  <1>4. 0..n \subseteq T
    BY <1>2, <1>3, UpTo
  <1> QED
    BY <1>1, <1>4 DEF T

LEMMA Layout ==
  /\ \A v \in Nat : v < PhysOffset => v \in Virt
  /\ \A i \in Low : i \in Virt /\ PhysOffset + i \in Virt /\ i < PhysOffset /\ i \in Nat
  /\ \A i \in 0..(KernPages - 1) :
        KernOffset + i \in Virt /\ i \in Low /\ KernOffset + i >= PhysOffset + LowPages
  <1> DEFINE top == Entries * Entries * Entries * Entries
  <1>1. top \in Nat /\ KernOffset + KernPages <= top /\ Virt = 0..(top - 1)
    BY Capacity, VmmLayout DEF Virt
  <1> HIDE DEF top
  <1> QED
    BY <1>1, Sizes, VmmLayout DEF Low

\* The root of a space is a frame.
LEMMA TreedRoots ==
  ASSUME NEW w, NEW S, Treed(w, S)
  PROVE  S \subseteq Frames
  BY TreeTypes DEF Treed

\* user_virt_map() and the heap of the kernel.
LEMMA MapRangeGrows ==
  ASSUME NEW w \in WalkType, NEW S, Treed(w, S), NEW r \in S, NEW base \in Nat, NEW n \in Nat,
         NEW user \in BOOLEAN, base..(base + n - 1) \subseteq Virt,
         ~MapRange(w, r, base, n, user).short
  PROVE  LET k == MapRange(w, r, base, n, user) IN
         Grown(w, k, S, r, base..(base + n - 1), user) /\ (Owned(w, S) => Owned(k, S))
  <1> DEFINE D == base..(base + n - 1)
  <1>1. r \in Frames
    BY TreedRoots
  <1>2. PICK c : /\ c[0] = w /\ Walks(c, n) /\ MapRange(w, r, base, n, user) = c[n]
                 /\ \A k \in 1..n : c[k] = MapNew(c[k - 1], r, base + k - 1, user)
    BY <1>1, MapRangeRun
  <1>3. \A k \in 0..n : c[k] \in WalkType
    BY <1>2 DEF Walks
  <1>4. ASSUME NEW k \in 1..n, Treed(c[k - 1], S), ~c[k].short
        PROVE  Grown(c[k - 1], c[k], S, r, D, user) /\ (Owned(c[k - 1], S) => Owned(c[k], S))
    <2>1. c[k - 1] \in WalkType /\ base + k - 1 \in D /\ base + k - 1 \in Virt
      <3>1. k - 1 \in 0..n /\ base + k - 1 \in D
        OBVIOUS
      <3> QED
        BY <1>3, <3>1
    <2>2. c[k] = MapNew(c[k - 1], r, base + k - 1, user)
      BY <1>2
    <2> HIDE DEF D
    <2> QED
      BY <1>4, <2>1, <2>2, MapNewGrows
  <1> HIDE DEF D
  <1>5. \A k \in 0..n : Grown(w, c[k], S, r, D, user) /\ ~c[k].short
    <2>1. \A k \in 1..n : Grown(c[0], c[k - 1], S, r, D, user) /\ ~c[k].short
                            => Grown(c[k - 1], c[k], S, r, D, user)
      BY <1>4 DEF Grown
    <2>2. Treed(c[0], S) /\ ~c[n].short
      BY <1>2
    <2> QED
      BY <1>2, <2>1, <2>2, LoopGrows
  <1>6. ASSUME Owned(w, S) PROVE Owned(c[n], S)
    <2> DEFINE T == {k \in 0..n : Owned(c[k], S)}
    <2>1. 0 \in T
      BY <1>2, <1>6
    <2>2. ASSUME NEW k \in 0..(n - 1), k \in T PROVE k + 1 \in T
      <3>1. k + 1 \in 1..n /\ (k + 1) - 1 = k /\ k + 1 \in 0..n /\ k \in 0..n
        OBVIOUS
      <3>2. Treed(c[k], S) /\ ~c[k + 1].short
        BY <1>5, <3>1 DEF Grown
      <3> QED
        BY <1>4, <2>2, <3>1, <3>2
    <2> HIDE DEF T
    <2>3. 0..n \subseteq T
      BY <2>1, <2>2, UpTo
    <2> QED
      BY <2>3 DEF T
  <1> QED
    BY <1>2, <1>5, <1>6 DEF D

\* The pages of the heap of the kernel.
HeapRange == HeapLow..(HeapLow + HeapPages - 1)

LEMMA HeapLayout ==
  HeapRange \subseteq Virt /\ HeapRange \cap Low = {} /\ \A v \in HeapRange : v < PhysOffset
  <1>1. \A v \in HeapRange : v \in Nat /\ v < PhysOffset /\ v \notin Low
    BY Sizes, VmmLayout DEF HeapRange, Low
  <1> QED
    BY <1>1, Layout

\* map_kernel(), "Copy heap over": the kernel's own first table has no user bits.
LEMMA CopyHeapGrows ==
  ASSUME NEW w \in WalkType, NEW S, Treed(w, S), NEW src \in S, NEW dst \in S, src # dst,
         \A e \in Slot : ~w.mem[src][e].u, ~CopyHeap(w, src, dst).short
  PROVE  Grown(w, CopyHeap(w, src, dst), S, dst, HeapRange, NotUser)
  <1>1. src \in Frames /\ dst \in Frames
    BY TreedRoots
  <1>2. PICK c : /\ c[0] = w /\ Walks(c, HeapPages) /\ CopyHeap(w, src, dst) = c[HeapPages]
                 /\ \A k \in 1..HeapPages : c[k] = CopyPage(c[k - 1], src, dst, HeapLow + k - 1)
    BY <1>1, CopyHeapRun
  <1>3. (\A k \in 0..HeapPages : c[k] \in WalkType) /\ HeapPages \in Nat
    BY <1>2, Sizes DEF Walks
  <1>4. ASSUME NEW k \in 1..HeapPages, Grown(c[0], c[k - 1], S, dst, HeapRange, NotUser), ~c[k].short
        PROVE  Grown(c[k - 1], c[k], S, dst, HeapRange, NotUser)
    <2> DEFINE x == c[k - 1]
               v == HeapLow + k - 1
               phys == x.mem[src][Index(v, 1)]
    <2>1. x \in WalkType /\ x.mem \in Memory
      <3>1. k - 1 \in 0..HeapPages
        BY <1>3
      <3> QED
        BY <1>3, <3>1 DEF WalkType
    <2>2. v \in HeapRange /\ v \in Virt /\ v \in Nat
      <3>1. v \in HeapRange /\ v \in Nat
        BY Sizes DEF HeapRange
      <3> QED
        BY <3>1, HeapLayout
    <2>3. Treed(x, S) /\ x.mem[src] = w.mem[src]
      BY <1>2, <1>4, GrownParts
    <2>4. c[k] = MapPage(x, dst, v, phys, NotUser)
      BY <1>2 DEF CopyPage, NotUser
    <2> HIDE DEF v
    <2>5. Index(v, 1) \in Slot
      BY <2>2, IndexType
    <2>6. phys \in Entry /\ ~phys.u
      BY <1>1, <2>1, <2>3, <2>5, EntryTypes
    <2> HIDE DEF x, phys
    <2>7. Grown(x, c[k], S, dst, HeapRange, NotUser)
      BY <1>4, <2>1, <2>2, <2>3, <2>4, <2>6, MapPageGrows, NotUserFalse
    <2> QED
      BY <2>7 DEF x
  <1>5. Treed(c[0], S) /\ ~c[HeapPages].short
    BY <1>2
  <1>6. \A k \in 0..HeapPages : Grown(c[0], c[k], S, dst, HeapRange, NotUser)
    BY <1>2, <1>3, <1>4, <1>5, LoopGrows
  <1> QED
    BY <1>2, <1>3, <1>6

\* The entry of a page of the kernel.
Kernel(i) == [to |-> i, p |-> TRUE, u |-> NotUser]

\* The pages map_spec() maps in its first loop.
LowRange == Low \cup {PhysOffset + i : i \in Low}

\* map_spec(), one page in its two places.
LEMMA MapBothGrows ==
  ASSUME NEW w \in WalkType, NEW S, Treed(w, S), NEW r \in S, NEW i \in Low, ~MapBoth(w, r, i).short
  PROVE  LET n == MapBoth(w, r, i) IN
         /\ Grown(w, n, S, r, LowRange, NotUser)
         /\ Translate(n.mem, r, i) = Kernel(i) /\ Translate(n.mem, r, PhysOffset + i) = Kernel(i)
         /\ \A x \in Virt \ {i, PhysOffset + i} : Translate(n.mem, r, x) = Translate(w.mem, r, x)
  <1> DEFINE v == PhysOffset + i
             p == Phys(i)
             k == MapPage(w, r, v, p, NotUser)
             n == MapPage(k, r, i, p, NotUser)
  <1>1. /\ v \in Virt /\ v \in LowRange /\ i \in Virt /\ i \in LowRange /\ v # i
        /\ i \in Nat /\ v \in Nat
    BY Layout, Sizes DEF LowRange
  <1>2. p \in Entry /\ p.to = i /\ ~p.u
    BY FrameTypes DEF Phys, Low
  <1>3. MapBoth(w, r, i) = n
    BY DEF MapBoth, NotUser
  <1>4. r \in Frames
    BY TreedRoots
  <1>5. ~n.short
    BY <1>3
  <1> HIDE DEF v, p
  <1>6. k \in WalkType
    BY <1>1, <1>2, <1>4, MapPageType, NotUserFalse
  <1> HIDE DEF k
  <1>7. ~k.short
    BY <1>1, <1>2, <1>4, <1>5, <1>6, MapPageType, NotUserFalse
  <1>8. /\ Grown(w, k, S, r, LowRange, NotUser)
        /\ Translate(k.mem, r, v) = [to |-> p.to, p |-> TRUE, u |-> NotUser]
        /\ \A x \in Virt \ {v} : Translate(k.mem, r, x) = Translate(w.mem, r, x)
    BY <1>1, <1>2, <1>7, MapPageGrows, NotUserFalse DEF k
  <1>9. Treed(k, S)
    BY <1>8, GrownParts
  <1>10. /\ Grown(k, n, S, r, LowRange, NotUser)
         /\ Translate(n.mem, r, i) = [to |-> p.to, p |-> TRUE, u |-> NotUser]
         /\ \A x \in Virt \ {i} : Translate(n.mem, r, x) = Translate(k.mem, r, x)
    BY <1>1, <1>2, <1>5, <1>6, <1>9, MapPageGrows, NotUserFalse
  <1> HIDE DEF n
  <1>11. Grown(w, n, S, r, LowRange, NotUser)
    BY <1>8, <1>10, GrownTwice
  <1>12. /\ Translate(n.mem, r, i) = Kernel(i) /\ Translate(n.mem, r, v) = Kernel(i)
    BY <1>1, <1>2, <1>8, <1>10 DEF Kernel
  <1>13. \A x \in Virt \ {i, v} : Translate(n.mem, r, x) = Translate(w.mem, r, x)
    BY <1>8, <1>10
  <1> QED
    BY <1>3, <1>11, <1>12, <1>13 DEF v

\* The first loop of map_spec().
LEMMA MapLowGrows ==
  ASSUME NEW w \in WalkType, NEW S, Treed(w, S), NEW r \in S, ~MapLow(w, r).short
  PROVE  LET n == MapLow(w, r) IN
         /\ Grown(w, n, S, r, LowRange, NotUser)
         /\ \A i \in Low : /\ Translate(n.mem, r, i) = Kernel(i)
                           /\ Translate(n.mem, r, PhysOffset + i) = Kernel(i)
  <1>1. r \in Frames
    BY TreedRoots
  <1>2. PICK c : /\ c[0] = w /\ Walks(c, LowPages) /\ MapLow(w, r) = c[LowPages]
                 /\ \A k \in 1..LowPages : c[k] = MapBoth(c[k - 1], r, k - 1)
    BY <1>1, MapLowRun
  <1>3. (\A k \in 0..LowPages : c[k] \in WalkType) /\ LowPages \in Nat
    BY <1>2, Sizes DEF Walks
  <1>4. ASSUME NEW k \in 1..LowPages, Treed(c[k - 1], S), ~c[k].short
        PROVE  /\ Grown(c[k - 1], c[k], S, r, LowRange, NotUser)
               /\ Translate(c[k].mem, r, k - 1) = Kernel(k - 1)
               /\ Translate(c[k].mem, r, PhysOffset + (k - 1)) = Kernel(k - 1)
               /\ \A x \in Virt \ {k - 1, PhysOffset + (k - 1)} :
                     Translate(c[k].mem, r, x) = Translate(c[k - 1].mem, r, x)
    <2>1. c[k - 1] \in WalkType /\ k - 1 \in Low
      <3>1. k - 1 \in 0..LowPages /\ k - 1 \in Low
        BY <1>3 DEF Low
      <3> QED
        BY <1>3, <3>1
    <2>2. c[k] = MapBoth(c[k - 1], r, k - 1)
      BY <1>2
    <2> DEFINE j == k - 1
    <2>3. j \in Low /\ c[j] \in WalkType /\ Treed(c[j], S) /\ c[k] = MapBoth(c[j], r, j)
      BY <1>4, <2>1, <2>2
    <2> HIDE DEF j
    <2>4. /\ Grown(c[j], c[k], S, r, LowRange, NotUser)
          /\ Translate(c[k].mem, r, j) = Kernel(j)
          /\ Translate(c[k].mem, r, PhysOffset + j) = Kernel(j)
          /\ \A x \in Virt \ {j, PhysOffset + j} :
                Translate(c[k].mem, r, x) = Translate(c[j].mem, r, x)
      BY <1>4, <2>3, MapBothGrows
    <2> QED
      BY <2>4 DEF j
  <1>5. \A k \in 0..LowPages : Grown(w, c[k], S, r, LowRange, NotUser) /\ ~c[k].short
    <2>1. \A k \in 1..LowPages : Grown(c[0], c[k - 1], S, r, LowRange, NotUser) /\ ~c[k].short
                            => Grown(c[k - 1], c[k], S, r, LowRange, NotUser)
      BY <1>4 DEF Grown
    <2>2. Treed(c[0], S) /\ ~c[LowPages].short
      BY <1>2
    <2> QED
      BY <1>2, <1>3, <2>1, <2>2, LoopGrows
  <1> DEFINE Both(k, i) == /\ Translate(c[k].mem, r, i) = Kernel(i)
                           /\ Translate(c[k].mem, r, PhysOffset + i) = Kernel(i)
             T == {k \in 0..LowPages : \A i \in 0..(k - 1) : Both(k, i)}
  <1>6. 0 \in T
    BY <1>3
  <1>7. ASSUME NEW k \in 0..(LowPages - 1), k \in T PROVE k + 1 \in T
    <2>1. k + 1 \in 1..LowPages /\ (k + 1) - 1 = k /\ k + 1 \in 0..LowPages /\ k \in 0..LowPages
      BY <1>3
    <2>2. Treed(c[k], S) /\ ~c[k + 1].short
      BY <1>5, <2>1 DEF Grown
    <2>3. /\ Translate(c[k + 1].mem, r, k) = Kernel(k)
          /\ Translate(c[k + 1].mem, r, PhysOffset + k) = Kernel(k)
          /\ \A x \in Virt \ {k, PhysOffset + k} :
                Translate(c[k + 1].mem, r, x) = Translate(c[k].mem, r, x)
      BY <1>4, <2>1, <2>2
    <2>4. ASSUME NEW i \in 0..k PROVE Both(k + 1, i)
      <3>1. CASE i = k
        BY <2>3, <3>1
      <3>2. CASE i # k
        <4>1. i \in 0..(k - 1) /\ k \in Low /\ i \in Low
          BY <1>3, <3>2 DEF Low
        <4>2. i \in Virt \ {k, PhysOffset + k} /\ PhysOffset + i \in Virt \ {k, PhysOffset + k}
          BY <3>2, <4>1, Layout, Sizes
        <4>3. Both(k, i)
          BY <1>7, <4>1
        <4> QED
          BY <2>3, <4>2, <4>3
      <3> QED
        BY <3>1, <3>2
    <2>5. 0..((k + 1) - 1) = 0..k
      OBVIOUS
    <2> HIDE DEF Both
    <2> QED
      BY <2>1, <2>4, <2>5
  <1> HIDE DEF T
  <1>8. 0..LowPages \subseteq T
    BY <1>3, <1>6, <1>7, UpTo
  <1>9. \A i \in Low : Both(LowPages, i)
    <2>1. LowPages \in T
      BY <1>3, <1>8
    <2> QED
      BY <2>1 DEF T, Low
  <1> QED
    BY <1>2, <1>3, <1>5, <1>9

KernRange == {KernOffset + i : i \in 0..(KernPages - 1)}

\* The second loop of map_spec().
LEMMA MapKernGrows ==
  ASSUME NEW w \in WalkType, NEW S, Treed(w, S), NEW r \in S, ~MapKern(w, r).short
  PROVE  LET n == MapKern(w, r) IN
         /\ Grown(w, n, S, r, KernRange, NotUser)
         /\ \A i \in 0..(KernPages - 1) : Translate(n.mem, r, KernOffset + i) = Kernel(i)
         /\ \A x \in Virt \ KernRange : Translate(n.mem, r, x) = Translate(w.mem, r, x)
  <1>1. r \in Frames
    BY TreedRoots
  <1>2. PICK c : /\ c[0] = w /\ Walks(c, KernPages) /\ MapKern(w, r) = c[KernPages]
                 /\ \A k \in 1..KernPages :
                       c[k] = MapPage(c[k - 1], r, KernOffset + k - 1, Phys(k - 1), FALSE)
    BY <1>1, MapKernRun
  <1>3. (\A k \in 0..KernPages : c[k] \in WalkType) /\ KernPages \in Nat /\ KernOffset \in Nat
    BY <1>2, Sizes DEF Walks
  <1>4. ASSUME NEW k \in 1..KernPages, Treed(c[k - 1], S), ~c[k].short
        PROVE  /\ Grown(c[k - 1], c[k], S, r, KernRange, NotUser)
               /\ Translate(c[k].mem, r, KernOffset + (k - 1)) = Kernel(k - 1)
               /\ \A x \in Virt \ {KernOffset + (k - 1)} :
                     Translate(c[k].mem, r, x) = Translate(c[k - 1].mem, r, x)
    <2> DEFINE j == k - 1
               v == KernOffset + j
               p == Phys(j)
    <2>1. j \in 0..KernPages /\ j \in 0..(KernPages - 1) /\ v = KernOffset + k - 1
      BY <1>3
    <2>2. c[j] \in WalkType /\ Treed(c[j], S)
      BY <1>3, <1>4, <2>1
    <2>3. c[k] = MapPage(c[j], r, v, p, NotUser)
      BY <1>2, <2>1 DEF NotUser
    <2> HIDE DEF j
    <2>4. v \in Virt /\ v \in KernRange /\ j \in Low
      BY <2>1, Layout DEF KernRange
    <2>5. p \in Entry /\ p.to = j /\ ~p.u
      BY <2>4, FrameTypes DEF Phys, Low
    <2> HIDE DEF v, p
    <2>6. /\ Grown(c[j], c[k], S, r, KernRange, NotUser)
          /\ Translate(c[k].mem, r, v) = [to |-> p.to, p |-> TRUE, u |-> NotUser]
          /\ \A x \in Virt \ {v} : Translate(c[k].mem, r, x) = Translate(c[j].mem, r, x)
      BY <1>4, <2>2, <2>3, <2>4, <2>5, MapPageGrows, NotUserFalse
    <2>7. Translate(c[k].mem, r, v) = Kernel(j)
      BY <2>5, <2>6 DEF Kernel, NotUser
    <2> QED
      BY <2>6, <2>7 DEF j, v
  <1>5. \A k \in 0..KernPages : Grown(w, c[k], S, r, KernRange, NotUser) /\ ~c[k].short
    <2>1. \A k \in 1..KernPages : Grown(c[0], c[k - 1], S, r, KernRange, NotUser) /\ ~c[k].short
                            => Grown(c[k - 1], c[k], S, r, KernRange, NotUser)
      BY <1>4 DEF Grown
    <2>2. Treed(c[0], S) /\ ~c[KernPages].short
      BY <1>2
    <2> QED
      BY <1>2, <1>3, <2>1, <2>2, LoopGrows
  <1> DEFINE Good(k) == /\ \A i \in 0..(k - 1) : Translate(c[k].mem, r, KernOffset + i) = Kernel(i)
                        /\ \A x \in Virt \ KernRange : Translate(c[k].mem, r, x) = Translate(w.mem, r, x)
             T == {k \in 0..KernPages : Good(k)}
  <1>6. 0 \in T
    BY <1>2, <1>3
  <1>7. ASSUME NEW k \in 0..(KernPages - 1), k \in T PROVE k + 1 \in T
    <2>1. k + 1 \in 1..KernPages /\ (k + 1) - 1 = k /\ k + 1 \in 0..KernPages /\ k \in 0..KernPages
      BY <1>3
    <2>2. Treed(c[k], S) /\ ~c[k + 1].short
      BY <1>5, <2>1 DEF Grown
    <2>3. /\ Translate(c[k + 1].mem, r, KernOffset + k) = Kernel(k)
          /\ \A x \in Virt \ {KernOffset + k} :
                Translate(c[k + 1].mem, r, x) = Translate(c[k].mem, r, x)
      BY <1>4, <2>1, <2>2
    <2>4. ASSUME NEW i \in 0..k PROVE Translate(c[k + 1].mem, r, KernOffset + i) = Kernel(i)
      <3>1. CASE i = k
        BY <2>3, <3>1
      <3>2. CASE i # k
        <4>1. i \in 0..(k - 1) /\ i \in 0..(KernPages - 1)
          BY <1>3, <3>2
        <4>2. KernOffset + i \in Virt \ {KernOffset + k}
          BY <1>3, <3>2, <4>1, Layout
        <4>3. Translate(c[k].mem, r, KernOffset + i) = Kernel(i)
          BY <1>7, <4>1
        <4> QED
          BY <2>3, <4>2, <4>3
      <3> QED
        BY <3>1, <3>2
    <2>5. ASSUME NEW x \in Virt \ KernRange PROVE Translate(c[k + 1].mem, r, x) = Translate(w.mem, r, x)
      <3>1. x # KernOffset + k
        BY <2>5 DEF KernRange
      <3> QED
        BY <1>7, <2>3, <3>1
    <2>6. 0..((k + 1) - 1) = 0..k
      OBVIOUS
    <2> QED
      BY <2>1, <2>4, <2>5, <2>6
  <1> HIDE DEF T
  <1>8. 0..KernPages \subseteq T
    BY <1>3, <1>6, <1>7, UpTo
  <1>9. Good(KernPages)
    <2>1. KernPages \in T
      BY <1>3, <1>8
    <2> QED
      BY <2>1 DEF T
  <1> QED
    BY <1>2, <1>3, <1>5, <1>9

\* The pages of the kernel as they are in every space.
HasKernel(m, r) ==
    /\ \A i \in Low : Translate(m, r, PhysOffset + i) = Kernel(i)
    /\ \A i \in 0..(KernPages - 1) : Translate(m, r, KernOffset + i) = Kernel(i)

HasLow(m, r) == \A i \in Low : Translate(m, r, i) = Kernel(i)

SpecRange == LowRange \cup KernRange

LEMMA MapSpecGrows ==
  ASSUME NEW w \in WalkType, NEW S, Treed(w, S), NEW r \in S, ~MapSpec(w, r).short
  PROVE  LET n == MapSpec(w, r) IN
         /\ Grown(w, n, S, r, SpecRange, NotUser)
         /\ HasKernel(n.mem, r) /\ HasLow(n.mem, r)
  <1> DEFINE k == MapLow(w, r)
             n == MapKern(k, r)
  <1>1. MapSpec(w, r) = n
    BY DEF MapSpec
  <1>2. k \in WalkType /\ r \in Frames
    <2>1. r \in Frames
      BY TreedRoots
    <2>2. PICK c : Walks(c, LowPages) /\ k = c[LowPages]
      BY <2>1, MapLowRun
    <2> QED
      BY <2>1, <2>2, Sizes DEF Walks
  <1>3. ~n.short
    BY <1>1
  <1>4. ~k.short
    <2> HIDE DEF k
    <2>1. PICK c : /\ c[0] = k /\ Walks(c, KernPages) /\ n = c[KernPages]
                   /\ \A i \in 1..KernPages :
                         c[i] = MapPage(c[i - 1], r, KernOffset + i - 1, Phys(i - 1), FALSE)
      BY <1>2, MapKernRun
    <2>2. KernPages \in Nat /\ KernPages \in 0..KernPages
      BY Sizes
    <2> HIDE DEF n
    <2> QED
      BY <1>3, <2>1, <2>2, WalksOn
  <1>5. /\ Grown(w, k, S, r, LowRange, NotUser)
        /\ \A i \in Low : /\ Translate(k.mem, r, i) = Kernel(i)
                          /\ Translate(k.mem, r, PhysOffset + i) = Kernel(i)
    BY <1>4, MapLowGrows
  <1> HIDE DEF k
  <1>6. Treed(k, S)
    BY <1>5, GrownParts
  <1>7. /\ Grown(k, n, S, r, KernRange, NotUser)
        /\ \A i \in 0..(KernPages - 1) : Translate(n.mem, r, KernOffset + i) = Kernel(i)
        /\ \A x \in Virt \ KernRange : Translate(n.mem, r, x) = Translate(k.mem, r, x)
    BY <1>2, <1>3, <1>6, MapKernGrows
  <1> HIDE DEF n
  <1>8. Grown(w, n, S, r, SpecRange, NotUser)
    <2>1. Grown(w, k, S, r, SpecRange, NotUser) /\ Grown(k, n, S, r, SpecRange, NotUser)
      BY <1>5, <1>7, GrownMore DEF SpecRange
    <2> QED
      BY <2>1, GrownTwice
  <1>9. \A i \in Low : i \in Virt \ KernRange /\ PhysOffset + i \in Virt \ KernRange
    <2>1. \A i \in Low : /\ i < PhysOffset + LowPages /\ PhysOffset + i < PhysOffset + LowPages
                         /\ i \in Virt /\ PhysOffset + i \in Virt
      BY Layout, Sizes DEF Low
    <2>2. \A x \in KernRange : x >= PhysOffset + LowPages
      BY Layout DEF KernRange
    <2>3. \A i \in Low, x \in KernRange : i # x /\ PhysOffset + i # x
      <3>1. ASSUME NEW a \in Nat, NEW b, a < PhysOffset + LowPages, b >= PhysOffset + LowPages PROVE a # b
        BY <3>1, Sizes
      <3>2. \A i \in Low : i \in Nat /\ PhysOffset + i \in Nat
        BY Sizes DEF Low
      <3> QED
        BY <2>1, <2>2, <3>1, <3>2
    <2> QED
      BY <2>1, <2>3
  <1>10. HasKernel(n.mem, r) /\ HasLow(n.mem, r)
    BY <1>5, <1>7, <1>9 DEF HasKernel, HasLow
  <1> QED
    BY <1>1, <1>8, <1>10

-----------------------------------------------------------------------------
(* A new space                                                             *)

\* A cleared root that was no table is a tree of its own, in which nothing is mapped.
LEMMA NewRootGrows ==
  ASSUME NEW w \in WalkType, NEW S, Treed(w, S), w.free # {}
  PROVE  LET f == PmmAllocPage(w)
             n == NewRoot(Taken(w), f) IN
         /\ n \in WalkType /\ n.free = w.free \ {f} /\ n.short = w.short
         /\ f \in w.free /\ f \notin S
         /\ Treed(n, S \cup {f})
         /\ \A q \in S : n.mem[q] = w.mem[q]
         /\ \A q \in S, x \in Virt : Translate(n.mem, q, x) = Translate(w.mem, q, x)
         /\ \A x \in Virt : Translate(n.mem, f, x) = Unmapped
         /\ \A e \in Slot : ~n.mem[f][e].u
  <1> DEFINE f == PmmAllocPage(w)
             root == [Empty EXCEPT ![Root] = [to |-> f, p |-> FALSE, u |-> FALSE]]
             n == NewRoot(Taken(w), f)
  <1>1. f \in w.free /\ f \in Frame /\ f \in Frames /\ f # 0
    <2>1. f \in w.free /\ f \in Frame
      BY AllocType DEF WalkType
    <2> QED
      BY <2>1, FrameTypes
  <1>2. /\ Taken(w) \in WalkType /\ Taken(w).mem = w.mem
        /\ Taken(w).free = w.free \ {f} /\ Taken(w).short = (w.short \/ w.free = {})
    BY TakenType
  <1>3. w.short \in BOOLEAN /\ w.mem \in Memory
    BY DEF WalkType
  <1> HIDE DEF f
  <1>4. root \in Table /\ \A e \in Slot : ~root[e].p /\ ~root[e].u
    <2>1. [to |-> f, p |-> FALSE, u |-> FALSE] \in Entry
      BY <1>1 DEF Entry
    <2>2. Empty \in Table /\ \A e \in Slot : ~Empty[e].p /\ ~Empty[e].u
      BY FrameTypes DEF Empty, Slot
    <2> DEFINE ent == [to |-> f, p |-> FALSE, u |-> FALSE]
    <2>3. ent \in Entry /\ ~ent.p /\ ~ent.u
      BY <2>1
    <2>4. root = [Empty EXCEPT ![Root] = ent]
      OBVIOUS
    <2> HIDE DEF ent, root
    <2>5. root \in Table /\ \A e \in Slot : root[e] = ent \/ root[e] = Empty[e]
      BY <2>2, <2>3, <2>4 DEF Table, Slot
    <2> QED
      BY <2>2, <2>3, <2>5
  <1>5. n = [Taken(w) EXCEPT !.mem[f] = root]
    BY DEF NewRoot
  <1> HIDE DEF root, n
  <1>6. /\ n \in WalkType /\ n.free = w.free \ {f} /\ n.short = Taken(w).short
        /\ n.mem = [w.mem EXCEPT ![f] = root]
    <2> DEFINE t == Taken(w)
    <2>1. /\ t \in WalkType /\ t.mem \in Memory /\ t.mem = w.mem /\ t.free = w.free \ {f}
          /\ t = [mem |-> t.mem, free |-> t.free, at |-> t.at, short |-> t.short]
      BY <1>2, <1>3 DEF WalkType
    <2> HIDE DEF t
    <2>2. n = [t EXCEPT !.mem = [t.mem EXCEPT ![f] = root]]
      BY <1>5, <2>1 DEF t
    <2>3. [t.mem EXCEPT ![f] = root] \in Memory
      BY <1>1, <1>4, <2>1 DEF Memory
    <2>4. n = [mem |-> [t.mem EXCEPT ![f] = root], free |-> t.free, at |-> t.at, short |-> t.short]
      BY <2>1, <2>2
    <2>5. /\ n \in WalkType /\ n.free = t.free /\ n.short = t.short
          /\ n.mem = [t.mem EXCEPT ![f] = root]
      BY <2>1, <2>3, <2>4 DEF WalkType
    <2> QED
      BY <2>1, <2>5 DEF t
  <1>7. n.mem \in Memory /\ n.mem[f] = root /\ \A g \in Frames \ {f} : n.mem[g] = w.mem[g]
    BY <1>1, <1>3, <1>4, <1>6 DEF Memory
  <1>8. PICK lev, own, up : Tree(w.mem, w.free, S, lev, own, up)
    BY DEF Treed
  <1>9. lev[f] = 0 /\ f \notin S
    BY <1>1, <1>8, TreeTypes
  <1>10. \A q \in S : n.mem[q] = w.mem[q]
    BY <1>7, <1>9, TreedRoots
  <1>11. \A q \in S, x \in Virt : Translate(n.mem, q, x) = Translate(w.mem, q, x)
    <2>1. \A g \in Frames, d \in Slot : lev[g] >= 1 => n.mem[g][d] = w.mem[g][d]
      BY <1>7, <1>9
    <2>2. \A q \in S, x \in Nat : Translate(n.mem, q, x) = Translate(w.mem, q, x)
      BY <1>3, <1>7, <1>8, <2>1, Unseen
    <2> QED
      BY <2>2, Capacity DEF Virt
  <1>12. \A x \in Virt : Translate(n.mem, f, x) = Unmapped
    <2>1. Blank(n.mem, f)
      BY <1>4, <1>7 DEF Blank
    <2>2. \A x \in Virt : x \in Nat
      BY Capacity DEF Virt
    <2> QED
      BY <2>1, <2>2, BlankUnmapped, LevelByLevel
  <1>13. Treed(n, S \cup {f})
    <2> DEFINE lev2 == [lev EXCEPT ![f] = 4]
               own2 == [own EXCEPT ![f] = f]
    <2>1. /\ lev \in [Frames -> 0..4] /\ own \in [Frames -> Frames] /\ up \in [Frames -> Frames \X Slot]
          /\ \A g \in w.free \cup {0} : lev[g] = 0
          /\ \A q \in S : q \in Frames /\ lev[q] = 4 /\ own[q] = q
      BY <1>8, TreeTypes
    <2>2. /\ lev2 \in [Frames -> 0..4] /\ own2 \in [Frames -> Frames]
          /\ lev2[f] = 4 /\ own2[f] = f
          /\ \A g \in Frames : g # f => lev2[g] = lev[g] /\ own2[g] = own[g]
      BY <1>1, <2>1
    <2> HIDE DEF lev2, own2
    <2>3. \A g \in n.free \cup {0} : lev2[g] = 0
      <3>1. ASSUME NEW g \in n.free \cup {0} PROVE lev2[g] = 0
        <4>1. g \in w.free \cup {0} /\ g # f /\ g \in Frames
          BY <1>1, <1>6, FrameTypes DEF WalkType
        <4> QED
          BY <2>1, <2>2, <4>1
      <3> QED
        BY <3>1
    <2>4. \A q \in S \cup {f} : q \in Frames /\ lev2[q] = 4 /\ own2[q] = q
      BY <1>1, <2>1, <2>2
    <2>5. ASSUME NEW g \in Frames, NEW d \in Slot, lev2[g] >= 2, n.mem[g][d].p
          PROVE  /\ lev2[n.mem[g][d].to] = lev2[g] - 1
                 /\ own2[n.mem[g][d].to] = own2[g]
                 /\ up[n.mem[g][d].to] = <<g, d>>
      <3>1. g # f
        BY <1>4, <1>7, <2>5
      <3>2. n.mem[g] = w.mem[g] /\ lev[g] >= 2 /\ w.mem[g][d].p /\ lev2[g] = lev[g] /\ own2[g] = own[g]
        BY <1>7, <2>2, <2>5, <3>1
      <3> DEFINE h == w.mem[g][d].to
      <3>3. lev[h] = lev[g] - 1 /\ own[h] = own[g] /\ up[h] = <<g, d>>
        BY <1>8, <3>2, TreeLink, SMTT(30)
      <3>4. h \in Frames /\ h # f
        <4>1. lev[g] \in 0..4
          BY <2>1
        <4> QED
          BY <1>3, <1>9, <3>2, <3>3, <4>1, EntryTypes
      <3>5. n.mem[g][d].to = h
        BY <3>2
      <3> HIDE DEF h
      <3> QED
        BY <2>2, <3>2, <3>3, <3>4, <3>5
    <2>6. Tree(n.mem, n.free, S \cup {f}, lev2, own2, up)
      <3>1. \A g \in Frames, d \in Slot :
               lev2[g] >= 2 /\ n.mem[g][d].p =>
                   /\ lev2[n.mem[g][d].to] = lev2[g] - 1
                   /\ own2[n.mem[g][d].to] = own2[g]
                   /\ up[n.mem[g][d].to] = <<g, d>>
        BY <2>5
      <3> QED
        BY <2>1, <2>2, <2>3, <2>4, <3>1, TreeMade, Zenon
    <2> QED
      BY <2>6 DEF Treed
  <1>14. n.short = w.short
    BY <1>1, <1>2, <1>3, <1>6
  <1>15. \A e \in Slot : ~n.mem[f][e].u
    BY <1>4, <1>7
  <1> QED
    BY <1>1, <1>6, <1>9, <1>10, <1>11, <1>12, <1>13, <1>14, <1>15 DEF n, f

\* A walk that comes after another has no frame more.
Follows(w, n) == n \in WalkType /\ n.free \subseteq w.free /\ (w.short => n.short)

LEMMA FollowsOn ==
  ASSUME NEW w, NEW n, NEW k, Follows(w, n), Follows(n, k)
  PROVE  Follows(w, k)
  BY DEF Follows

LEMMA WalksFollow ==
  ASSUME NEW n \in Nat, NEW c, Walks(c, n)
  PROVE  Follows(c[0], c[n])
  BY WalksOn DEF Follows, Walks

LEMMA LoopsFollow ==
  ASSUME NEW w \in WalkType, NEW r \in Frames
  PROVE  /\ Follows(w, MapLow(w, r)) /\ Follows(w, MapKern(w, r)) /\ Follows(w, MapSpec(w, r))
         /\ \A q \in Frames : Follows(w, CopyHeap(w, q, r))
         /\ \A base \in Nat, n \in Nat, user \in BOOLEAN : Follows(w, MapRange(w, r, base, n, user))
  <1>0. LowPages \in Nat /\ KernPages \in Nat /\ HeapPages \in Nat
    BY Sizes
  <1>1. Follows(w, MapLow(w, r))
    <2>1. PICK c : /\ c[0] = w /\ Walks(c, LowPages) /\ MapLow(w, r) = c[LowPages]
                   /\ \A k \in 1..LowPages : c[k] = MapBoth(c[k - 1], r, k - 1)
      BY MapLowRun
    <2> QED
      BY <1>0, <2>1, WalksFollow
  <1>2. ASSUME NEW x \in WalkType PROVE Follows(x, MapKern(x, r))
    <2>1. PICK c : /\ c[0] = x /\ Walks(c, KernPages) /\ MapKern(x, r) = c[KernPages]
                   /\ \A k \in 1..KernPages :
                         c[k] = MapPage(c[k - 1], r, KernOffset + k - 1, Phys(k - 1), FALSE)
      BY MapKernRun
    <2> QED
      BY <1>0, <2>1, WalksFollow
  <1>3. Follows(w, MapSpec(w, r))
    <2>1. MapLow(w, r) \in WalkType
      BY <1>1 DEF Follows
    <2>2. Follows(MapLow(w, r), MapSpec(w, r))
      BY <1>2, <2>1 DEF MapSpec
    <2> QED
      BY <1>1, <2>2, FollowsOn
  <1>4. ASSUME NEW q \in Frames PROVE Follows(w, CopyHeap(w, q, r))
    <2>1. PICK c : /\ c[0] = w /\ Walks(c, HeapPages) /\ CopyHeap(w, q, r) = c[HeapPages]
                   /\ \A k \in 1..HeapPages : c[k] = CopyPage(c[k - 1], q, r, HeapLow + k - 1)
      BY CopyHeapRun
    <2> QED
      BY <1>0, <2>1, WalksFollow
  <1>5. ASSUME NEW base \in Nat, NEW n \in Nat, NEW user \in BOOLEAN
        PROVE  Follows(w, MapRange(w, r, base, n, user))
    <2>1. PICK c : c[0] = w /\ Walks(c, n) /\ MapRange(w, r, base, n, user) = c[n]
      BY MapRangeRun
    <2> QED
      BY <2>1, WalksFollow
  <1> QED
    BY <1>1, <1>2, <1>3, <1>4, <1>5

LEMMA NewRootFollows ==
  ASSUME NEW w \in WalkType
  PROVE  LET f == PmmAllocPage(w) IN
         /\ f \in Frames /\ Follows(w, NewRoot(Taken(w), f))
         /\ w.free = {} => NewRoot(Taken(w), f).short
  <1> DEFINE f == PmmAllocPage(w)
             t == Taken(w)
             root == [Empty EXCEPT ![Root] = [to |-> f, p |-> FALSE, u |-> FALSE]]
             n == NewRoot(t, f)
  <1>1. f \in Frames
    BY AllocType
  <1>2. /\ t \in WalkType /\ t.free = w.free \ {f} /\ t.short = (w.short \/ w.free = {})
    BY TakenType
  <1> HIDE DEF f, t
  <1>3. /\ t.mem \in Memory /\ t.free \in SUBSET Frame /\ t.at \in Frames /\ t.short \in BOOLEAN
        /\ t = [mem |-> t.mem, free |-> t.free, at |-> t.at, short |-> t.short]
    BY <1>2 DEF WalkType
  <1>4. [to |-> f, p |-> FALSE, u |-> FALSE] \in Entry
    BY <1>1 DEF Entry
  <1>5. root \in Table
    <2> DEFINE ent == [to |-> f, p |-> FALSE, u |-> FALSE]
    <2>1. ent \in Entry
      BY <1>4
    <2> HIDE DEF ent
    <2>2. [Empty EXCEPT ![Root] = ent] \in Table
      BY <2>1, FrameTypes DEF Table
    <2> QED
      BY <2>2 DEF ent
  <1>6. n = [t EXCEPT !.mem[f] = root]
    BY DEF NewRoot
  <1> HIDE DEF root, n
  <1>7. [t.mem EXCEPT ![f] = root] \in Memory
    BY <1>1, <1>3, <1>5 DEF Memory
  <1>8. n = [mem |-> [t.mem EXCEPT ![f] = root], free |-> t.free, at |-> t.at, short |-> t.short]
    BY <1>3, <1>6
  <1>9. n \in WalkType /\ n.free = t.free /\ n.short = t.short
    BY <1>3, <1>7, <1>8 DEF WalkType
  <1>10. Follows(w, n) /\ (w.free = {} => n.short)
    BY <1>2, <1>9 DEF Follows
  <1> QED
    BY <1>1, <1>10 DEF n, t, f

\* Booted and Created, step by step.
LEMMA BootedFollows ==
  ASSUME NEW w \in WalkType
  PROVE  LET f == PmmAllocPage(w)
             a == NewRoot(Taken(w), f)
             b == MapSpec(a, f)
             n == Booted(w, f) IN
         /\ f \in Frames /\ Follows(w, a) /\ Follows(a, b) /\ Follows(b, n)
         /\ n = MapRange(b, f, HeapLow, HeapPages, NotUser)
         /\ w.free = {} => a.short
  <1> DEFINE f == PmmAllocPage(w)
             a == NewRoot(Taken(w), f)
             b == MapSpec(a, f)
             n == Booted(w, f)
  <1>1. f \in Frames /\ Follows(w, a) /\ (w.free = {} => a.short)
    BY NewRootFollows
  <1>2. n = MapRange(b, f, HeapLow, HeapPages, NotUser)
    BY DEF Booted, NotUser
  <1> HIDE DEF f, a, n
  <1>3. Follows(a, b)
    BY <1>1, LoopsFollow DEF Follows
  <1> HIDE DEF b
  <1>4. HeapLow \in Nat /\ HeapPages \in Nat /\ b \in WalkType
    BY <1>3, Sizes DEF Follows
  <1>5. Follows(b, n)
    BY <1>1, <1>2, <1>4, LoopsFollow, NotUserFalse
  <1> QED
    BY <1>1, <1>2, <1>3, <1>5 DEF f, a, b, n

\* The user flag of what is a task's.
IsUser == TRUE

LEMMA IsUserTrue == IsUser \in BOOLEAN /\ IsUser
  BY DEF IsUser

LEMMA CreatedFollows ==
  ASSUME NEW w \in WalkType, pml4 \in Frames
  PROVE  LET f == PmmAllocPage(w)
             a == NewRoot(Taken(w), f)
             b == MapSpec(a, f)
             c == CopyHeap(b, pml4, f)
             d == MapRange(c, f, StackLow, StackPages, IsUser)
             n == Created(w, f) IN
         /\ f \in Frames /\ Follows(w, a) /\ Follows(a, b) /\ Follows(b, c) /\ Follows(c, d)
         /\ Follows(d, n) /\ n = MapRange(d, f, ProcHeapLow, ProcHeapPages, IsUser)
         /\ w.free = {} => a.short
  <1> DEFINE f == PmmAllocPage(w)
             a == NewRoot(Taken(w), f)
             b == MapSpec(a, f)
             c == CopyHeap(b, pml4, f)
             d == MapRange(c, f, StackLow, StackPages, IsUser)
             n == Created(w, f)
  <1>1. f \in Frames /\ Follows(w, a) /\ (w.free = {} => a.short)
    BY NewRootFollows
  <1>2. n = MapRange(d, f, ProcHeapLow, ProcHeapPages, IsUser)
    BY DEF Created, UserVirtMap, IsUser
  <1> HIDE DEF f, a, n
  <1>3. Follows(a, b)
    BY <1>1, LoopsFollow DEF Follows
  <1> HIDE DEF b
  <1>4. Follows(b, c)
    BY <1>1, <1>3, LoopsFollow DEF Follows
  <1> HIDE DEF c
  <1>5. c \in WalkType /\ StackLow \in Nat /\ StackPages \in Nat
    BY <1>4, Sizes DEF Follows
  <1>6. Follows(c, d)
    BY <1>1, <1>5, LoopsFollow, IsUserTrue
  <1> HIDE DEF d
  <1>7. d \in WalkType /\ ProcHeapLow \in Nat /\ ProcHeapPages \in Nat
    BY <1>6, Sizes DEF Follows
  <1>8. Follows(d, n)
    BY <1>1, <1>2, <1>7, LoopsFollow, IsUserTrue
  <1> QED
    BY <1>1, <1>2, <1>3, <1>4, <1>6, <1>8 DEF f, a, b, c, d, n

\* What lies above the pages of D stays.
LEMMA KernelKept ==
  ASSUME NEW w, NEW n, NEW S, NEW r, NEW D, NEW user, Grown(w, n, S, r, D, user),
         \A v \in D : v < PhysOffset, D \subseteq Virt, NEW q \in S, HasKernel(w.mem, q)
  PROVE  HasKernel(n.mem, q)
  <1>1. \A x \in Virt : x \notin D => Translate(n.mem, q, x) = Translate(w.mem, q, x)
    BY GrownParts
  <1>2. ASSUME NEW x \in Virt, x >= PhysOffset PROVE x \notin D
    <2>1. x \in Nat
      BY Capacity DEF Virt
    <2> QED
      BY <1>2, <2>1, Sizes
  <1>3. \A i \in Low : PhysOffset + i \in Virt \ D
    <2>1. \A i \in Low : PhysOffset + i \in Virt /\ PhysOffset + i >= PhysOffset
      BY Layout, Sizes
    <2> QED
      BY <1>2, <2>1
  <1>4. \A i \in 0..(KernPages - 1) : KernOffset + i \in Virt \ D
    <2>1. \A i \in 0..(KernPages - 1) : KernOffset + i \in Virt /\ KernOffset + i >= PhysOffset
      BY Layout, Sizes
    <2> QED
      BY <1>2, <2>1
  <1> QED
    BY <1>1, <1>3, <1>4 DEF HasKernel

\* The memory of a task lies below the view of physical memory.
LEMMA TaskLayout ==
  /\ StackLow..(StackLow + StackPages - 1) \subseteq Virt
  /\ \A v \in StackLow..(StackLow + StackPages - 1) : v < PhysOffset
  /\ ProcHeapLow..(ProcHeapLow + ProcHeapPages - 1) \subseteq Virt
  /\ \A v \in ProcHeapLow..(ProcHeapLow + ProcHeapPages - 1) : v < PhysOffset
  /\ \A s \in Segments : /\ s.page \in Nat /\ PageBytes * s.pages \in Nat
                         /\ s.page..(s.page + PageBytes * s.pages - 1) \subseteq Virt
                         /\ \A v \in s.page..(s.page + PageBytes * s.pages - 1) : v < PhysOffset
  <1>1. ASSUME NEW a \in Nat, NEW n \in Nat, a + n <= PhysOffset
        PROVE  a..(a + n - 1) \subseteq Virt /\ \A v \in a..(a + n - 1) : v < PhysOffset
    <2>1. \A v \in a..(a + n - 1) : v \in Nat /\ v < PhysOffset
      BY <1>1, Sizes
    <2> QED
      BY <2>1, Layout
  <1>2. ASSUME NEW a \in Nat, NEW n \in Nat PROVE a * n \in Nat
    OBVIOUS
  <1>3. \A s \in Segments : /\ s.page \in Nat /\ s.pages \in Nat /\ PageBytes \in Nat
                            /\ s.page + PageBytes * s.pages <= PhysOffset
    BY VmmAssumption, VmmLayout
  <1>4. \A s \in Segments : PageBytes * s.pages \in Nat
    BY <1>2, <1>3
  <1>5. /\ StackLow + StackPages <= PhysOffset /\ ProcHeapLow + ProcHeapPages <= PhysOffset
        /\ StackLow \in Nat /\ StackPages \in Nat /\ ProcHeapLow \in Nat /\ ProcHeapPages \in Nat
    BY Sizes, VmmLayout
  <1>6. /\ StackLow..(StackLow + StackPages - 1) \subseteq Virt
        /\ \A v \in StackLow..(StackLow + StackPages - 1) : v < PhysOffset
    BY <1>1, <1>5
  <1>7. /\ ProcHeapLow..(ProcHeapLow + ProcHeapPages - 1) \subseteq Virt
        /\ \A v \in ProcHeapLow..(ProcHeapLow + ProcHeapPages - 1) : v < PhysOffset
    BY <1>1, <1>5
  <1>8. ASSUME NEW s \in Segments
        PROVE  /\ s.page..(s.page + PageBytes * s.pages - 1) \subseteq Virt
               /\ \A v \in s.page..(s.page + PageBytes * s.pages - 1) : v < PhysOffset
    BY <1>1, <1>3, <1>4
  <1> QED
    BY <1>3, <1>4, <1>6, <1>7, <1>8

\* The first space.
LEMMA BootedGrows ==
  ASSUME NEW w \in WalkType, Treed(w, {}), ~Booted(w, PmmAllocPage(w)).short
  PROVE  LET f == PmmAllocPage(w)
             n == Booted(w, f) IN
         /\ n \in WalkType /\ Treed(n, {f}) /\ Owned(n, {f})
         /\ HasKernel(n.mem, f) /\ HasLow(n.mem, f)
         /\ \A e \in Slot : ~n.mem[f][e].u
         /\ \A x \in Virt : ~Translate(n.mem, f, x).u
  <1> DEFINE f == PmmAllocPage(w)
             a == NewRoot(Taken(w), f)
             b == MapSpec(a, f)
             n == Booted(w, f)
             S == {f}
  <1>1. /\ f \in Frames /\ Follows(w, a) /\ Follows(a, b) /\ Follows(b, n)
        /\ n = MapRange(b, f, HeapLow, HeapPages, NotUser)
        /\ w.free = {} => a.short
    BY BootedFollows
  <1>2. ~n.short /\ ~b.short /\ ~a.short /\ w.free # {}
    <2>1. ~n.short
      OBVIOUS
    <2> HIDE DEF n, b, a
    <2> QED
      BY <1>1, <2>1 DEF Follows
  <1>3. a \in WalkType /\ b \in WalkType /\ n \in WalkType /\ a.free \subseteq w.free
    BY <1>1 DEF Follows
  <1>4. /\ Treed(a, {} \cup {f})
        /\ \A x \in Virt : Translate(a.mem, f, x) = Unmapped
        /\ \A e \in Slot : ~a.mem[f][e].u
    BY <1>2, NewRootGrows
  <1>5. Treed(a, S) /\ f \in S
    <2>1. {} \cup {f} = S
      OBVIOUS
    <2> QED
      BY <1>4, <2>1
  <1> HIDE DEF f, a, n, S
  <1>6. Grown(a, b, S, f, SpecRange, NotUser) /\ HasKernel(b.mem, f) /\ HasLow(b.mem, f)
    BY <1>2, <1>3, <1>5, MapSpecGrows
  <1> HIDE DEF b
  <1>7. Grown(b, n, S, f, HeapRange, NotUser)
    <2>1. /\ Treed(b, S) /\ HeapLow \in Nat /\ HeapPages \in Nat
          /\ HeapLow..(HeapLow + HeapPages - 1) \subseteq Virt
      BY <1>6, GrownParts, Sizes, HeapLayout DEF HeapRange
    <2>2. ~MapRange(b, f, HeapLow, HeapPages, NotUser).short
      BY <1>1, <1>2
    <2> QED
      BY <1>1, <1>3, <1>5, <2>1, <2>2, MapRangeGrows, NotUserFalse DEF HeapRange
  <1>8. HasKernel(n.mem, f)
    <2>1. HeapRange \subseteq Virt /\ \A v \in HeapRange : v < PhysOffset
      BY HeapLayout
    <2> QED
      BY <1>5, <1>6, <1>7, <2>1, KernelKept
  <1>9. HasLow(n.mem, f)
    <2>1. \A i \in Low : i \in Virt /\ i \notin HeapRange
      BY HeapLayout, Layout
    <2>2. \A i \in Low : Translate(n.mem, f, i) = Translate(b.mem, f, i)
      BY <1>5, <1>7, <2>1, GrownParts
    <2> QED
      BY <1>6, <2>2 DEF HasLow
  <1>10. \A e \in Slot : ~n.mem[f][e].u
    <2>1. \A e \in Slot : ~b.mem[f][e].u
      BY <1>4, <1>6, GrownParts, NotUserFalse
    <2> QED
      BY <1>7, <2>1, GrownParts, NotUserFalse
  <1>11. \A x \in Virt : ~Translate(n.mem, f, x).u
    <2>1. \A x \in Virt : ~Translate(a.mem, f, x).u
      BY <1>4 DEF Unmapped
    <2>2. \A x \in Virt : ~Translate(b.mem, f, x).u
      BY <1>5, <1>6, <2>1, GrownParts, NotUserFalse
    <2> QED
      BY <1>5, <1>7, <2>2, GrownParts, NotUserFalse
  <1>12. Owned(n, S)
    BY <1>11 DEF Owned, S
  <1>13. Treed(n, S)
    BY <1>7, GrownParts
  <1> QED
    BY <1>3, <1>8, <1>9, <1>10, <1>11, <1>12, <1>13 DEF f, n, S

\* A new context: a space of its own, and no change of the others.
LEMMA CreatedGrows ==
  ASSUME NEW w \in WalkType, NEW S, Treed(w, S), pml4 \in S, Owned(w, S),
         \A e \in Slot : ~w.mem[pml4][e].u,
         ~Created(w, PmmAllocPage(w)).short
  PROVE  LET f == PmmAllocPage(w)
             n == Created(w, f) IN
         /\ n \in WalkType /\ f \notin S
         /\ Treed(n, S \cup {f}) /\ Owned(n, S \cup {f}) /\ HasKernel(n.mem, f)
         /\ \A q \in S : n.mem[q] = w.mem[q]
         /\ \A q \in S, x \in Virt : Translate(n.mem, q, x) = Translate(w.mem, q, x)
  <1> DEFINE f == PmmAllocPage(w)
             a == NewRoot(Taken(w), f)
             b == MapSpec(a, f)
             c == CopyHeap(b, pml4, f)
             d == MapRange(c, f, StackLow, StackPages, IsUser)
             n == Created(w, f)
             T == S \cup {f}
  <1>0. pml4 \in Frames
    BY TreedRoots
  <1>1. /\ f \in Frames /\ Follows(w, a) /\ Follows(a, b) /\ Follows(b, c) /\ Follows(c, d)
        /\ Follows(d, n) /\ n = MapRange(d, f, ProcHeapLow, ProcHeapPages, IsUser)
        /\ w.free = {} => a.short
    BY <1>0, CreatedFollows
  <1>2. ~n.short /\ ~d.short /\ ~c.short /\ ~b.short /\ ~a.short /\ w.free # {}
    <2>1. ~n.short
      OBVIOUS
    <2> HIDE DEF n, d, c, b, a
    <2> QED
      BY <1>1, <2>1 DEF Follows
  <1>3. /\ a \in WalkType /\ b \in WalkType /\ c \in WalkType /\ d \in WalkType /\ n \in WalkType
        /\ b.free \subseteq a.free /\ c.free \subseteq b.free
    BY <1>1 DEF Follows
  <1>4. /\ a.free = w.free \ {f} /\ f \notin S
        /\ Treed(a, S \cup {f})
        /\ \A q \in S : a.mem[q] = w.mem[q]
        /\ \A q \in S, x \in Virt : Translate(a.mem, q, x) = Translate(w.mem, q, x)
        /\ \A x \in Virt : Translate(a.mem, f, x) = Unmapped
    BY <1>2, NewRootGrows
  <1>5. /\ f \in T /\ Treed(a, T) /\ pml4 \in T /\ pml4 # f
        /\ \A q \in T : q \in S \/ q = f
        /\ \A q \in S : q \in T /\ q # f
    BY <1>4
  <1> HIDE DEF f, a, n, T
  <1>6. Owned(a, T)
    <2>1. ASSUME NEW q \in T, NEW x \in Virt, Translate(a.mem, q, x).u
          PROVE  q \in S /\ Translate(a.mem, q, x) = Translate(w.mem, q, x)
      <3>1. q # f
        BY <1>4, <2>1 DEF Unmapped
      <3> QED
        BY <1>4, <1>5, <3>1
    <2>2. ASSUME NEW q \in T, NEW x \in Virt, Translate(a.mem, q, x).u
          PROVE  /\ Translate(a.mem, q, x).to \in Frame \ a.free
                 /\ \A s \in T, y \in Virt :
                       Translate(a.mem, s, y).u /\ Translate(a.mem, s, y).to = Translate(a.mem, q, x).to
                           => s = q /\ y = x
      <3>1. q \in S /\ Translate(a.mem, q, x) = Translate(w.mem, q, x)
        BY <2>1, <2>2
      <3>2. Translate(a.mem, q, x).to \in Frame \ a.free
        BY <1>4, <2>2, <3>1 DEF Owned
      <3>3. ASSUME NEW s \in T, NEW y \in Virt, Translate(a.mem, s, y).u,
                   Translate(a.mem, s, y).to = Translate(a.mem, q, x).to
            PROVE  s = q /\ y = x
        <4>1. s \in S /\ Translate(a.mem, s, y) = Translate(w.mem, s, y)
          BY <2>1, <3>3
        <4> QED
          BY <2>2, <3>1, <3>3, <4>1 DEF Owned
      <3> QED
        BY <3>2, <3>3
    <2> QED
      BY <2>2 DEF Owned
  <1>7. Grown(a, b, T, f, SpecRange, NotUser) /\ HasKernel(b.mem, f)
    BY <1>2, <1>3, <1>5, MapSpecGrows
  <1> HIDE DEF b
  <1>8. Owned(b, T) /\ Treed(b, T)
    BY <1>3, <1>6, <1>7, GrownOwned, GrownParts
  <1>9. Grown(b, c, T, f, HeapRange, NotUser)
    <2>1. b.mem[pml4] = w.mem[pml4]
      BY <1>4, <1>5, <1>7, GrownParts
    <2>2. \A e \in Slot : ~b.mem[pml4][e].u
      BY <2>1
    <2> QED
      BY <1>2, <1>3, <1>5, <1>8, <2>2, CopyHeapGrows
  <1> HIDE DEF c
  <1>10. Owned(c, T) /\ Treed(c, T)
    BY <1>3, <1>8, <1>9, GrownOwned, GrownParts
  <1>11. HasKernel(c.mem, f)
    <2>1. HeapRange \subseteq Virt /\ \A v \in HeapRange : v < PhysOffset
      BY HeapLayout
    <2> QED
      BY <1>5, <1>7, <1>9, <2>1, KernelKept
  <1> DEFINE R1 == StackLow..(StackLow + StackPages - 1)
             R2 == ProcHeapLow..(ProcHeapLow + ProcHeapPages - 1)
  <1>12. /\ R1 \subseteq Virt /\ (\A v \in R1 : v < PhysOffset)
         /\ R2 \subseteq Virt /\ (\A v \in R2 : v < PhysOffset)
         /\ StackLow \in Nat /\ StackPages \in Nat /\ ProcHeapLow \in Nat /\ ProcHeapPages \in Nat
    BY TaskLayout, Sizes
  <1>13. Grown(c, d, T, f, R1, IsUser) /\ Owned(d, T)
    BY <1>2, <1>3, <1>5, <1>10, <1>12, MapRangeGrows, IsUserTrue
  <1> HIDE DEF d
  <1>14. Treed(d, T)
    BY <1>13, GrownParts
  <1>15. Grown(d, n, T, f, R2, IsUser) /\ Owned(n, T)
    <2>1. ~MapRange(d, f, ProcHeapLow, ProcHeapPages, IsUser).short
      BY <1>1, <1>2
    <2>2. LET k == MapRange(d, f, ProcHeapLow, ProcHeapPages, IsUser) IN
          Grown(d, k, T, f, R2, IsUser) /\ (Owned(d, T) => Owned(k, T))
      BY <1>3, <1>5, <1>12, <1>14, <2>1, MapRangeGrows, IsUserTrue
    <2> QED
      BY <1>1, <1>13, <2>2
  <1> HIDE DEF R1, R2
  <1>16. HasKernel(n.mem, f)
    <2>1. HasKernel(d.mem, f)
      BY <1>5, <1>11, <1>12, <1>13, KernelKept
    <2> QED
      BY <1>5, <1>12, <1>15, <2>1, KernelKept
  <1>17. ASSUME NEW q \in S PROVE n.mem[q] = w.mem[q]
    <2>1. q \in T /\ q # f
      BY <1>5
    <2>2. b.mem[q] = a.mem[q]
      BY <1>7, <2>1, GrownParts
    <2>3. c.mem[q] = b.mem[q]
      BY <1>9, <2>1, GrownParts
    <2>4. d.mem[q] = c.mem[q]
      BY <1>13, <2>1, GrownParts
    <2>5. n.mem[q] = d.mem[q]
      BY <1>15, <2>1, GrownParts
    <2> QED
      BY <1>4, <2>2, <2>3, <2>4, <2>5
  <1>18. ASSUME NEW q \in S, NEW x \in Virt PROVE Translate(n.mem, q, x) = Translate(w.mem, q, x)
    <2>1. q \in T /\ q # f
      BY <1>5
    <2>2. Translate(b.mem, q, x) = Translate(a.mem, q, x)
      BY <1>7, <2>1, GrownParts
    <2>3. Translate(c.mem, q, x) = Translate(b.mem, q, x)
      BY <1>9, <2>1, GrownParts
    <2>4. Translate(d.mem, q, x) = Translate(c.mem, q, x)
      BY <1>13, <2>1, GrownParts
    <2>5. Translate(n.mem, q, x) = Translate(d.mem, q, x)
      BY <1>15, <2>1, GrownParts
    <2> QED
      BY <1>4, <2>2, <2>3, <2>4, <2>5
  <1>19. Treed(n, T)
    BY <1>15, GrownParts
  <1> QED
    BY <1>3, <1>4, <1>15, <1>16, <1>17, <1>18, <1>19 DEF f, n, T

-----------------------------------------------------------------------------
(* The invariant of the virtual memory manager                             *)

\* The spaces S, of which p is the kernel's own, in the walk w.
Sound(w, S, p) ==
    /\ Treed(w, S)
    /\ Owned(w, S)
    /\ \A r \in S : HasKernel(w.mem, r)
    /\ p \in S /\ HasLow(w.mem, p)
    /\ \A e \in Slot : ~w.mem[p][e].u

VmmInv ==
    /\ VmmTypeOK
    /\ outcome = "ok" => Sound(Walk, Spaced, pml4) /\ pml4 \notin roots

LEMMA SoundParts ==
  ASSUME NEW w, NEW S, NEW p, Sound(w, S, p)
  PROVE  /\ Treed(w, S) /\ Owned(w, S) /\ (\A r \in S : HasKernel(w.mem, r))
         /\ p \in S /\ HasLow(w.mem, p) /\ \A e \in Slot : ~w.mem[p][e].u
  BY DEF Sound

LEMMA SoundLess ==
  ASSUME NEW w, NEW n, NEW S, NEW T, NEW p, Sound(w, S, p), n.mem = w.mem, n.free \subseteq w.free,
         T \subseteq S, p \in T
  PROVE  Sound(n, T, p)
  <1>1. Treed(n, T)
    <2>1. PICK lev, own, up : Tree(w.mem, w.free, S, lev, own, up)
      BY DEF Sound, Treed
    <2>2. /\ lev \in [Frames -> 0..4] /\ own \in [Frames -> Frames]
          /\ up \in [Frames -> Frames \X Slot]
          /\ (\A f \in n.free \cup {0} : lev[f] = 0)
          /\ \A r \in T : r \in Frames /\ lev[r] = 4 /\ own[r] = r
      BY <2>1, TreeTypes
    <2>3. \A f \in Frames, e \in Slot :
             lev[f] >= 2 /\ n.mem[f][e].p =>
                 /\ lev[n.mem[f][e].to] = lev[f] - 1
                 /\ own[n.mem[f][e].to] = own[f]
                 /\ up[n.mem[f][e].to] = <<f, e>>
      <3>1. ASSUME NEW f \in Frames, NEW e \in Slot, lev[f] >= 2, w.mem[f][e].p
            PROVE  /\ lev[w.mem[f][e].to] = lev[f] - 1
                   /\ own[w.mem[f][e].to] = own[f]
                   /\ up[w.mem[f][e].to] = <<f, e>>
        BY <2>1, <3>1, TreeLink
      <3> QED
        BY <3>1
    <2>4. Tree(n.mem, n.free, T, lev, own, up)
      BY <2>2, <2>3, TreeMade, Zenon
    <2> QED
      BY <2>4 DEF Treed
  <1>2. Owned(n, T)
    <2>1. Owned(w, S)
      BY DEF Sound
    <2> QED
      BY <2>1 DEF Owned
  <1>3. \A r \in T : HasKernel(n.mem, r)
    BY DEF Sound
  <1>4. HasLow(n.mem, p) /\ \A e \in Slot : ~n.mem[p][e].u
    BY DEF Sound
  <1> QED
    BY <1>1, <1>2, <1>3, <1>4 DEF Sound

\* New pages of a task.
LEMMA GrownSound ==
  ASSUME NEW w, NEW n, NEW S, NEW p, NEW r, NEW D, NEW user, Sound(w, S, p),
         Grown(w, n, S, r, D, user), Owned(n, S),
         D \subseteq Virt, \A v \in D : v < PhysOffset, r # p
  PROVE  Sound(n, S, p)
  <1>1. \A q \in S : HasKernel(n.mem, q)
    BY SoundParts, KernelKept
  <1>2. HasLow(n.mem, p)
    <2>1. \A i \in Low : Translate(n.mem, p, i) = Translate(w.mem, p, i)
      BY SoundParts, GrownParts, Layout
    <2> QED
      BY <2>1, SoundParts DEF HasLow
  <1>3. \A e \in Slot : ~n.mem[p][e].u
    <2>1. n.mem[p] = w.mem[p]
      BY SoundParts, GrownParts
    <2> QED
      BY <2>1, SoundParts
  <1> QED
    BY <1>1, <1>2, <1>3, SoundParts, GrownParts DEF Sound

LEMMA WalkParts ==
  /\ Walk.mem = mem /\ Walk.free = free /\ ~Walk.short
  /\ VmmTypeOK => Walk \in WalkType /\ mem \in Memory /\ pml4 \in Frames /\ pml4 \in Spaced
  <1>1. Walk = [mem |-> mem, free |-> free, at |-> 0, short |-> FALSE]
    BY DEF Walk
  <1>2. VmmTypeOK => mem \in Memory /\ free \in SUBSET Frame /\ pml4 \in Frames
    BY DEF VmmTypeOK, Memory
  <1> QED
    BY <1>1, <1>2, FrameTypes DEF WalkType, Spaced

\* The memory in which vmm_init() starts.
LEMMA FirstWalk ==
  LET w == [mem |-> [f \in Frames |-> Dirty], free |-> Frame, at |-> 0, short |-> FALSE] IN
  w \in WalkType /\ w.short = FALSE /\ Treed(w, {})
  <1> DEFINE w == [mem |-> [f \in Frames |-> Dirty], free |-> Frame, at |-> 0, short |-> FALSE]
             lev == [f \in Frames |-> 0]
             own == [f \in Frames |-> f]
             up  == [f \in Frames |-> <<f, 0>>]
  <1>1. w \in WalkType
    <2>1. [f \in Frames |-> Dirty] \in Memory
      BY FrameTypes DEF Memory
    <2> QED
      BY <2>1, FrameTypes DEF WalkType
  <1>2. /\ lev \in [Frames -> 0..4] /\ own \in [Frames -> Frames] /\ up \in [Frames -> Frames \X Slot]
    BY Sizes DEF Slot
  <1>3. \A f \in Frames : lev[f] = 0
    OBVIOUS
  <1>4. w.free \cup {0} \subseteq Frames
    BY FrameTypes
  <1> HIDE DEF lev, own, up
  <1>5. \A f \in w.free \cup {0} : lev[f] = 0
    BY <1>3, <1>4
  <1>6. \A f \in Frames, e \in Slot :
           lev[f] >= 2 /\ w.mem[f][e].p =>
               /\ lev[w.mem[f][e].to] = lev[f] - 1
               /\ own[w.mem[f][e].to] = own[f]
               /\ up[w.mem[f][e].to] = <<f, e>>
    BY <1>3
  <1>7. \A r \in {} : r \in Frames /\ lev[r] = 4 /\ own[r] = r
    OBVIOUS
  <1>8. w.short = FALSE
    OBVIOUS
  <1> HIDE DEF w
  <1>9. Tree(w.mem, w.free, {}, lev, own, up)
    BY <1>2, <1>5, <1>6, <1>7, TreeMade, Zenon
  <1> QED
    BY <1>1, <1>8, <1>9 DEF Treed, w

\* Init: memory after vmm_init().
LEMMA VmmInitInv == VmmInit => VmmInv
  <1> SUFFICES ASSUME VmmInit PROVE VmmInv
    OBVIOUS
  <1> DEFINE w == [mem |-> [f \in Frames |-> Dirty], free |-> Frame, at |-> 0, short |-> FALSE]
             root == PmmAllocPage(w)
             n == Booted(w, root)
  <1>1. w \in WalkType /\ Treed(w, {})
    BY FirstWalk
  <1>2. /\ mem = n.mem /\ free = n.free /\ pml4 = root /\ roots = {}
        /\ cr3 = [c \in Cpu |-> root] /\ isBsp \in [Cpu -> BOOLEAN] /\ left = {} /\ calls = 0
        /\ outcome = IF n.short THEN "starved" ELSE "ok"
    BY DEF VmmInit
  <1> HIDE DEF w
  <1>3. root \in Frames /\ n \in WalkType
    BY <1>1, BootedFollows DEF Follows
  <1>4. n.short \/ /\ Treed(n, {root}) /\ Owned(n, {root})
                   /\ HasKernel(n.mem, root) /\ HasLow(n.mem, root)
                   /\ \A e \in Slot : ~n.mem[root][e].u
    BY <1>1, BootedGrows
  <1> HIDE DEF root, n
  <1>5. VmmTypeOK
    <2>1. mem \in [Frames -> Table] /\ free \subseteq Frame
      BY <1>2, <1>3 DEF WalkType, Memory
    <2>2. MaxCalls \in Nat
      BY Sizes
    <2> QED
      BY <1>2, <1>3, <2>1, <2>2 DEF VmmTypeOK
  <1>6. ASSUME outcome = "ok" PROVE Sound(Walk, Spaced, pml4) /\ pml4 \notin roots
    <2>1. ~n.short
      BY <1>2, <1>6
    <2>2. Sound(n, {root}, root)
      BY <1>4, <2>1 DEF Sound
    <2>3. Walk.mem = n.mem /\ Walk.free = n.free /\ Spaced = {root}
      BY <1>2, WalkParts DEF Spaced
    <2>4. Sound(Walk, {root}, root)
      BY <2>2, <2>3, SoundLess
    <2> QED
      BY <1>2, <2>3, <2>4
  <1> QED
    BY <1>5, <1>6 DEF VmmInv

\* The step that walked w, of a call that was not short.
LEMMA DoneSound ==
  ASSUME NEW n, NEW T, mem' = n.mem, free' = n.free, Sound(n, T, pml4), pml4' = pml4,
         Spaced' = T
  PROVE  Sound(Walk, Spaced, pml4)'
  <1>1. Walk' = [mem |-> mem', free |-> free', at |-> 0, short |-> FALSE]
    BY DEF Walk
  <1>2. (Walk').mem = n.mem /\ (Walk').free = n.free
    BY <1>1
  <1>3. Sound(Walk', T, pml4)
    BY <1>2, SoundLess, SoundParts
  <1>4. Sound(Walk, Spaced, pml4)' <=> Sound(Walk', Spaced', pml4')
    BY DEF Sound, Treed, Tree, Owned, Translate, Present, EntriesOf, HasKernel, HasLow
  <1> QED
    BY <1>3, <1>4

\* mmap_current() maps what is mapped already.
LEMMA MmapCurrentWalks ==
  ASSUME VmmTypeOK, NEW d \in Device
  PROVE  LET n == MapPage(Walk, pml4, d, Phys(d), FALSE) IN
         /\ Follows(Walk, n)
         /\ Sound(Walk, Spaced, pml4) /\ ~n.short =>
               /\ Sound(n, Spaced, pml4)
               /\ \A q \in Spaced, x \in Virt : Translate(n.mem, q, x) = Translate(mem, q, x)
  <1> DEFINE p == Phys(d)
             w == Walk
             n == MapPage(w, pml4, d, p, NotUser)
             S == Spaced
  <1>0. n = MapPage(Walk, pml4, d, Phys(d), FALSE)
    BY DEF NotUser
  <1>1. d \in Low /\ d \in Virt /\ d \in Nat /\ d < PhysOffset
    BY Sizes, Layout
  <1>2. p \in Entry /\ p.to = d /\ ~p.u
    BY <1>1, FrameTypes DEF Phys, Low
  <1>3. w \in WalkType /\ w.mem = mem /\ pml4 \in Frames /\ pml4 \in S
    BY WalkParts
  <1> HIDE DEF p, w, S
  <1>4. Follows(w, n)
    BY <1>1, <1>2, <1>3, MapPageType, NotUserFalse DEF Follows
  <1>5. ASSUME Sound(w, S, pml4), ~n.short
        PROVE  /\ Sound(n, S, pml4)
               /\ \A q \in S, x \in Virt : Translate(n.mem, q, x) = Translate(mem, q, x)
    <2>1. Treed(w, S) /\ Owned(w, S) /\ Translate(w.mem, pml4, d) = Kernel(d)
      BY <1>1, <1>5, SoundParts DEF HasLow
    <2>2. d \in {d}
      OBVIOUS
    <2>3. /\ Grown(w, n, S, pml4, {d}, NotUser)
          /\ Translate(n.mem, pml4, d) = [to |-> p.to, p |-> TRUE, u |-> NotUser]
          /\ \A x \in Virt \ {d} : Translate(n.mem, pml4, x) = Translate(w.mem, pml4, x)
      BY <1>1, <1>2, <1>3, <1>5, <2>1, <2>2, MapPageGrows, NotUserFalse
    <2>4. Translate(n.mem, pml4, d) = Kernel(d)
      BY <1>2, <2>3 DEF Kernel
    <2> HIDE DEF n
    <2>5. \A q \in S, x \in Virt : Translate(n.mem, q, x) = Translate(w.mem, q, x)
      BY <2>1, <2>3, <2>4, GrownParts
    <2>6. Owned(n, S)
      BY <1>4, <2>1, <2>3, GrownOwned DEF Follows
    <2>7. \A q \in S : HasKernel(n.mem, q)
      <3>1. {d} \subseteq Virt /\ \A v \in {d} : v < PhysOffset
        BY <1>1
      <3> QED
        BY <1>5, <2>3, <3>1, KernelKept, SoundParts
    <2>8. HasLow(n.mem, pml4)
      <3>1. HasLow(w.mem, pml4)
        BY <1>5, SoundParts
      <3> QED
        BY <1>3, <2>5, <3>1, Layout DEF HasLow
    <2>9. \A e \in Slot : ~n.mem[pml4][e].u
      BY <1>5, <2>3, GrownParts, NotUserFalse, SoundParts
    <2>10. Treed(n, S)
      BY <2>3, GrownParts
    <2> QED
      BY <1>3, <2>5, <2>6, <2>7, <2>8, <2>9, <2>10 DEF Sound
  <1> QED
    BY <1>0, <1>4, <1>5 DEF w, S

\* vmalloc() makes a space and leaves the others alone.
LEMMA VmallocWalks ==
  ASSUME VmmTypeOK
  PROVE  LET f == PmmAllocPage(Walk)
             n == Created(Walk, f) IN
         /\ f \in Frames /\ Follows(Walk, n)
         /\ Sound(Walk, Spaced, pml4) /\ ~n.short =>
               /\ Sound(n, Spaced \cup {f}, pml4) /\ f \notin Spaced
               /\ \A q \in Spaced, x \in Virt : Translate(n.mem, q, x) = Translate(mem, q, x)
  <1> DEFINE w == Walk
             f == PmmAllocPage(w)
             n == Created(w, f)
             S == Spaced
  <1>1. w \in WalkType /\ w.mem = mem /\ pml4 \in Frames /\ pml4 \in S
    BY WalkParts
  <1> HIDE DEF w, S
  <1>2. f \in Frames /\ Follows(w, n)
    <2> DEFINE a == NewRoot(Taken(w), f)
               b == MapSpec(a, f)
               c == CopyHeap(b, pml4, f)
               d == MapRange(c, f, StackLow, StackPages, IsUser)
    <2>1. /\ f \in Frames /\ Follows(w, a) /\ Follows(a, b) /\ Follows(b, c) /\ Follows(c, d)
          /\ Follows(d, n)
      BY <1>1, CreatedFollows
    <2> HIDE DEF a, b, c, d, n
    <2>2. Follows(w, c)
      BY <2>1, FollowsOn
    <2>3. Follows(c, n)
      BY <2>1, FollowsOn
    <2> QED
      BY <2>1, <2>2, <2>3, FollowsOn
  <1>3. ASSUME Sound(w, S, pml4), ~n.short
        PROVE  /\ Sound(n, S \cup {f}, pml4) /\ f \notin S
               /\ \A q \in S, x \in Virt : Translate(n.mem, q, x) = Translate(mem, q, x)
    <2>1. /\ Treed(w, S) /\ Owned(w, S) /\ (\A q \in S : HasKernel(w.mem, q))
          /\ HasLow(w.mem, pml4) /\ \A e \in Slot : ~w.mem[pml4][e].u
      BY <1>3, SoundParts
    <2>2. /\ f \notin S
          /\ Treed(n, S \cup {f}) /\ Owned(n, S \cup {f}) /\ HasKernel(n.mem, f)
          /\ \A q \in S : n.mem[q] = w.mem[q]
          /\ \A q \in S, x \in Virt : Translate(n.mem, q, x) = Translate(w.mem, q, x)
      BY <1>1, <1>3, <2>1, CreatedGrows
    <2> HIDE DEF n, f
    <2>3. \A q \in S : HasKernel(n.mem, q)
      BY <2>1, <2>2, Layout DEF HasKernel
    <2>4. HasLow(n.mem, pml4) /\ \A e \in Slot : ~n.mem[pml4][e].u
      BY <1>1, <2>1, <2>2, Layout DEF HasLow
    <2> QED
      BY <1>1, <2>2, <2>3, <2>4 DEF Sound
  <1> QED
    BY <1>2, <1>3 DEF w, f, n, S

\* elf_load(), the pages of a segment.
LEMMA LoadSegmentWalks ==
  ASSUME VmmTypeOK, NEW r \in roots, NEW s \in Segments
  PROVE  LET n == UserVirtMap(Walk, r, s.page, PageBytes * s.pages) IN
         /\ Follows(Walk, n)
         /\ Sound(Walk, Spaced, pml4) /\ pml4 \notin roots /\ ~n.short =>
               /\ Sound(n, Spaced, pml4)
               /\ \A q \in Spaced, x \in Virt :
                     \/ Translate(n.mem, q, x) = Translate(mem, q, x)
                     \/ q = r /\ Translate(n.mem, q, x).u
  <1> DEFINE w == Walk
             len == PageBytes * s.pages
             D == s.page..(s.page + len - 1)
             n == MapRange(w, r, s.page, len, IsUser)
             S == Spaced
  <1>0. UserVirtMap(Walk, r, s.page, PageBytes * s.pages) = n
    BY DEF UserVirtMap, IsUser
  <1>1. w \in WalkType /\ w.mem = mem /\ pml4 \in S /\ r \in Frames /\ r \in S
    BY WalkParts DEF VmmTypeOK, Spaced
  <1>2. s.page \in Nat /\ len \in Nat /\ D \subseteq Virt /\ \A v \in D : v < PhysOffset
    BY TaskLayout
  <1> HIDE DEF w, len, S
  <1>3. Follows(w, n)
    BY <1>1, <1>2, LoopsFollow, IsUserTrue
  <1>4. ASSUME Sound(w, S, pml4), pml4 \notin roots, ~n.short
        PROVE  /\ Sound(n, S, pml4)
               /\ \A q \in S, x \in Virt :
                     \/ Translate(n.mem, q, x) = Translate(mem, q, x)
                     \/ q = r /\ Translate(n.mem, q, x).u
    <2>1. Treed(w, S) /\ Owned(w, S) /\ r # pml4
      BY <1>4, SoundParts
    <2>2. Grown(w, n, S, r, D, IsUser) /\ Owned(n, S)
      BY <1>1, <1>2, <1>4, <2>1, MapRangeGrows, IsUserTrue
    <2> HIDE DEF n, D
    <2>3. Sound(n, S, pml4)
      BY <1>2, <1>4, <2>1, <2>2, GrownSound
    <2>4. \A q \in S, x \in Virt :
                     \/ Translate(n.mem, q, x) = Translate(mem, q, x)
                     \/ q = r /\ Translate(n.mem, q, x).u
      <3>1. \A q \in S, x \in Virt :
               \/ Translate(n.mem, q, x) = Translate(w.mem, q, x)
               \/ q = r /\ x \in D /\ Translate(n.mem, q, x).u = IsUser
        BY <2>2, GrownParts
      <3> QED
        BY <1>1, <3>1, IsUserTrue
    <2> QED
      BY <2>3, <2>4
  <1> QED
    BY <1>0, <1>3, <1>4 DEF w, S

\* Every step keeps the types.
LEMMA DoneType ==
  ASSUME VmmTypeOK, NEW n, Follows(Walk, n), mem' = n.mem, free' = n.free
  PROVE  mem' \in [Frames -> Table] /\ free' \subseteq Frame
  BY DEF Follows, WalkType, Memory

\* The entry whose present bit pmm_free() clears is one of a table.
LEMMA PresentCleared ==
  ASSUME NEW r \in Frame, mem \in [Frames -> Table], ClearPresent(FrameOfBit(r), EntryOfBit(r))
  PROVE  mem' \in [Frames -> Table]
  <1> DEFINE f == FrameOfBit(r)
             e == EntryOfBit(r)
  <1>1. e \in 0..(Entries - 1)
    <2>1. Entries \in Nat /\ Entries > 0
      BY Sizes
    <2>2. OffsetOf(r) \in Int
      <3>1. Frame \subseteq Nat /\ Frame # {}
        BY Sizes
      <3>2. Min(Frame) \in Nat
        BY <3>1, MinIn
      <3> QED
        BY <3>1, <3>2 DEF OffsetOf
    <2>3. PICK x \in 0..7 : x = OffsetOf(r) % 8
      BY <2>2
    <2>4. Entries * x \in Nat /\ Entries * x < 8 * Entries
      <3>1. \/ x = 0 \/ x = 1 \/ x = 2 \/ x = 3 \/ x = 4 \/ x = 5 \/ x = 6 \/ x = 7
        BY <2>3
      <3> QED
        BY <2>1, <3>1
    <2>5. PICK y \in Nat : y = Entries * x
      BY <2>4
    <2>6. y \div 8 \in 0..(Entries - 1)
      BY <2>1, <2>4, <2>5
    <2> QED
      BY <2>3, <2>5, <2>6 DEF EntryOfBit
  <1> HIDE DEF f, e
  <1>2. CASE f \in Frames
    <2>1. mem[f] \in Table /\ mem[f][e] \in Entry
      BY <1>1, <1>2 DEF Table
    <2>2. [mem[f][e] EXCEPT !.p = FALSE] \in Entry
      BY <2>1 DEF Entry
    <2>3. [mem[f] EXCEPT ![e] = [mem[f][e] EXCEPT !.p = FALSE]] \in Table
      BY <1>1, <2>1, <2>2 DEF Table
    <2>4. mem' = [mem EXCEPT ![f] = [mem[f] EXCEPT ![e] = [mem[f][e] EXCEPT !.p = FALSE]]]
      BY <1>2 DEF ClearPresent, f, e
    <2> QED
      BY <1>2, <2>3, <2>4
  <1>3. CASE f \notin Frames
    BY <1>3 DEF ClearPresent, f
  <1> QED
    BY <1>2, <1>3

LEMMA VmmNextType == VmmTypeOK /\ [VmmNext]_vmmVars => VmmTypeOK'
  <1> SUFFICES ASSUME VmmTypeOK, [VmmNext]_vmmVars PROVE VmmTypeOK'
    OBVIOUS
  <1>0. MaxCalls \in Nat
    BY Sizes
  <1>1. /\ mem \in [Frames -> Table] /\ free \subseteq Frame
        /\ pml4 \in Frames /\ roots \subseteq Frames
        /\ cr3 \in [Cpu -> roots \cup {pml4}] /\ isBsp \in [Cpu -> BOOLEAN]
        /\ left \subseteq Cpu /\ calls \in 0..MaxCalls
        /\ outcome \in {"ok", "starved", "overwritten", "overrun"}
    BY DEF VmmTypeOK
  <1>2. ASSUME NEW d \in Device, MmapCurrent(d) PROVE VmmTypeOK'
    <2> DEFINE n == MapPage(Walk, pml4, d, Phys(d), FALSE)
    <2>1. Follows(Walk, n)
      BY MmapCurrentWalks
    <2>2. /\ mem' = n.mem /\ free' = n.free /\ calls' = calls + 1 /\ calls < MaxCalls
          /\ outcome' \in {"starved", outcome}
          /\ UNCHANGED <<pml4, roots, cr3, isBsp, left>>
      BY <1>2 DEF MmapCurrent, Done, InKernel
    <2> HIDE DEF n
    <2>3. mem' \in [Frames -> Table] /\ free' \subseteq Frame
      BY <2>1, <2>2, DoneType
    <2> QED
      BY <1>0, <1>1, <2>2, <2>3 DEF VmmTypeOK
  <1>3. ASSUME Vmalloc PROVE VmmTypeOK'
    <2> DEFINE f == PmmAllocPage(Walk)
               n == Created(Walk, f)
    <2>1. f \in Frames /\ Follows(Walk, n)
      BY VmallocWalks
    <2>2. /\ mem' = n.mem /\ free' = n.free /\ calls' = calls + 1 /\ calls < MaxCalls
          /\ outcome' \in {"starved", outcome}
          /\ roots' = roots \cup {f}
          /\ UNCHANGED <<pml4, cr3, isBsp, left>>
      BY <1>3 DEF Vmalloc, Done, InKernel
    <2> HIDE DEF f, n
    <2>3. mem' \in [Frames -> Table] /\ free' \subseteq Frame
      BY <2>1, <2>2, DoneType
    <2>4. cr3' \in [Cpu -> roots' \cup {pml4'}]
      BY <1>1, <2>2
    <2> QED
      BY <1>0, <1>1, <2>1, <2>2, <2>3, <2>4 DEF VmmTypeOK
  <1>4. ASSUME NEW r \in roots, NEW s \in Segments, LoadSegment(r, s) PROVE VmmTypeOK'
    <2> DEFINE n == UserVirtMap(Walk, r, s.page, PageBytes * s.pages)
    <2>1. Follows(Walk, n)
      BY LoadSegmentWalks
    <2>2. /\ mem' = n.mem /\ free' = n.free /\ calls' = calls + 1 /\ calls < MaxCalls
          /\ outcome' \in {"overwritten", "starved", outcome}
          /\ UNCHANGED <<pml4, roots, cr3, isBsp, left>>
      BY <1>4 DEF LoadSegment, InKernel
    <2> HIDE DEF n
    <2>3. mem' \in [Frames -> Table] /\ free' \subseteq Frame
      BY <2>1, <2>2, DoneType
    <2> QED
      BY <1>0, <1>1, <2>2, <2>3 DEF VmmTypeOK
  <1>5. ASSUME NEW r \in roots, Vfree(r) PROVE VmmTypeOK'
    <2>1. /\ calls' = calls + 1 /\ calls < MaxCalls /\ roots' = roots \ {r} /\ free' \subseteq free
          /\ r \notin {cr3[c] : c \in Cpu}
          /\ outcome' \in {outcome, "overrun"}
          /\ UNCHANGED <<pml4, cr3, isBsp, left>>
      BY <1>5 DEF Vfree, InKernel
    <2>2. cr3' \in [Cpu -> roots' \cup {pml4'}]
      BY <1>1, <2>1
    <2>3. mem' \in [Frames -> Table]
      <3>1. CASE mem' = mem
        BY <1>1, <3>1
      <3>2. CASE r \in Frame /\ ClearPresent(FrameOfBit(r), EntryOfBit(r))
        BY <1>1, <3>2, PresentCleared
      <3> QED
        BY <1>5, <3>1, <3>2 DEF Vfree
    <2> QED
      BY <1>0, <1>1, <2>1, <2>2, <2>3 DEF VmmTypeOK
  <1>6. ASSUME NEW r \in roots, NEW c \in Cpu, Switch(c, r) PROVE VmmTypeOK'
    BY <1>1, <1>6 DEF Switch, VmmTypeOK
  <1>7. ASSUME UNCHANGED vmmVars PROVE VmmTypeOK'
    BY <1>1, <1>7 DEF vmmVars, VmmTypeOK
  <1> QED
    BY <1>2, <1>3, <1>4, <1>5, <1>6, <1>7 DEF VmmNext

\* Every step keeps the spaces in order.
LEMMA VmmNextInv == VmmInv /\ [VmmNext]_vmmVars => VmmInv'
  <1> SUFFICES ASSUME VmmInv, [VmmNext]_vmmVars PROVE VmmInv'
    OBVIOUS
  <1>1. VmmTypeOK /\ VmmTypeOK'
    BY VmmNextType DEF VmmInv
  <1>2. outcome = "ok" => Sound(Walk, Spaced, pml4) /\ pml4 \notin roots
    BY DEF VmmInv
  <1>3. SUFFICES ASSUME outcome' = "ok" PROVE Sound(Walk, Spaced, pml4)' /\ pml4' \notin roots'
    BY <1>1 DEF VmmInv
  <1>4. Walk \in WalkType /\ Walk.mem = mem /\ Walk.free = free
    BY <1>1, WalkParts
  <1>5. ASSUME NEW d \in Device, MmapCurrent(d) PROVE Sound(Walk, Spaced, pml4)' /\ pml4' \notin roots'
    <2> DEFINE n == MapPage(Walk, pml4, d, Phys(d), FALSE)
    <2>1. /\ mem' = n.mem /\ free' = n.free /\ outcome' = IF n.short THEN "starved" ELSE outcome
          /\ pml4' = pml4 /\ roots' = roots
      BY <1>5 DEF MmapCurrent, Done
    <2>2. outcome = "ok" /\ ~n.short
      BY <1>3, <2>1
    <2>3. Sound(n, Spaced, pml4)
      BY <1>1, <1>2, <2>2, MmapCurrentWalks
    <2> HIDE DEF n
    <2>4. Spaced' = Spaced
      BY <2>1 DEF Spaced
    <2> QED
      BY <1>2, <2>1, <2>2, <2>3, <2>4, DoneSound
  <1>6. ASSUME Vmalloc PROVE Sound(Walk, Spaced, pml4)' /\ pml4' \notin roots'
    <2> DEFINE f == PmmAllocPage(Walk)
               n == Created(Walk, f)
    <2>1. /\ mem' = n.mem /\ free' = n.free /\ outcome' = IF n.short THEN "starved" ELSE outcome
          /\ pml4' = pml4 /\ roots' = roots \cup {f}
      BY <1>6 DEF Vmalloc, Done
    <2>2. outcome = "ok" /\ ~n.short
      BY <1>3, <2>1
    <2>3. Sound(n, Spaced \cup {f}, pml4) /\ f \notin Spaced
      BY <1>1, <1>2, <2>2, VmallocWalks
    <2> HIDE DEF f, n
    <2>4. Spaced' = Spaced \cup {f} /\ f # pml4
      BY <2>1, <2>3 DEF Spaced
    <2> QED
      BY <1>2, <2>1, <2>2, <2>3, <2>4, DoneSound
  <1>7. ASSUME NEW r \in roots, NEW s \in Segments, LoadSegment(r, s)
        PROVE  Sound(Walk, Spaced, pml4)' /\ pml4' \notin roots'
    <2> DEFINE n == UserVirtMap(Walk, r, s.page, PageBytes * s.pages)
    <2>1. /\ mem' = n.mem /\ free' = n.free
          /\ outcome' = "overwritten" \/ outcome' = IF n.short THEN "starved" ELSE outcome
          /\ pml4' = pml4 /\ roots' = roots
      BY <1>7 DEF LoadSegment
    <2>2. outcome = "ok" /\ ~n.short
      BY <1>3, <2>1
    <2>3. Sound(n, Spaced, pml4)
      BY <1>1, <1>2, <2>2, LoadSegmentWalks
    <2> HIDE DEF n
    <2>4. Spaced' = Spaced
      BY <2>1 DEF Spaced
    <2> QED
      BY <1>2, <2>1, <2>2, <2>3, <2>4, DoneSound
  <1>8. ASSUME NEW r \in roots, Vfree(r) PROVE Sound(Walk, Spaced, pml4)' /\ pml4' \notin roots'
    <2>1. /\ roots' = roots \ {r} /\ free' \subseteq free
          /\ UNCHANGED <<mem, pml4, outcome>>
      BY <1>3, <1>8 DEF Vfree
    <2> DEFINE n == [mem |-> mem, free |-> free', at |-> 0, short |-> FALSE]
    <2>2. n.mem = mem /\ n.free = free'
      OBVIOUS
    <2> HIDE DEF n
    <2>3. Spaced' \subseteq Spaced /\ pml4 \in Spaced'
      BY <2>1 DEF Spaced
    <2>4. outcome = "ok"
      BY <1>3, <2>1
    <2>5. Sound(n, Spaced', pml4)
      BY <1>2, <1>4, <2>1, <2>2, <2>3, <2>4, SoundLess
    <2> DEFINE T == Spaced'
    <2>6. mem' = n.mem /\ free' = n.free /\ Sound(n, T, pml4) /\ pml4' = pml4 /\ Spaced' = T
      BY <2>1, <2>2, <2>5
    <2> HIDE DEF T
    <2> QED
      BY <1>2, <2>1, <2>4, <2>6, DoneSound
  <1>9. ASSUME UNCHANGED <<mem, free, pml4, roots, outcome>>
        PROVE  Sound(Walk, Spaced, pml4)' /\ pml4' \notin roots'
    <2>1. outcome = "ok" /\ Spaced' = Spaced
      BY <1>3, <1>9 DEF Spaced
    <2> QED
      BY <1>2, <1>4, <1>9, <2>1, DoneSound
  <1>10. ASSUME NEW r \in roots, NEW c \in Cpu, Switch(c, r)
         PROVE  UNCHANGED <<mem, free, pml4, roots, outcome>>
    BY <1>10 DEF Switch
  <1>11. ASSUME UNCHANGED vmmVars PROVE UNCHANGED <<mem, free, pml4, roots, outcome>>
    BY <1>11 DEF vmmVars
  <1> QED
    BY <1>5, <1>6, <1>7, <1>8, <1>9, <1>10, <1>11 DEF VmmNext

LEMMA VmmAlways == VmmSpec => []VmmInv
  <1> QED
    BY VmmInitInv, VmmNextInv, PTL DEF VmmSpec

-----------------------------------------------------------------------------
(* What is promised                                                        *)

\* Types: memory holds tables, what is free was handed out by nobody, and every
\* core is in a space there is.
THEOREM VmmTypes == VmmSpec => []VmmTypeOK
  <1>1. VmmInv => VmmTypeOK
    BY DEF VmmInv
  <1> QED
    BY <1>1, VmmAlways, PTL

LEMMA HalfOf ==
  ASSUME NEW m, NEW r, HasKernel(m, r)
  PROVE  \A v \in DOMAIN KernelHalf : v \in Virt /\ Translate(m, r, v) = KernelHalf[v]
  <1> DEFINE D == {PhysOffset + i : i \in Low} \cup {KernOffset + i : i \in 0..(KernPages - 1)}
             K == [v \in D |-> [to |-> IF v >= KernOffset THEN v - KernOffset ELSE v - PhysOffset,
                                p |-> TRUE, u |-> FALSE]]
  <1>1. KernelHalf = K
    BY DEF KernelHalf
  <1>2. ASSUME NEW i \in Low PROVE K[PhysOffset + i] = Kernel(i)
    <2>1. PhysOffset + i < KernOffset /\ (PhysOffset + i) - PhysOffset = i /\ PhysOffset + i \in D
      BY Sizes, VmmLayout DEF Low
    <2>2. ~(PhysOffset + i >= KernOffset)
      BY <2>1, Sizes DEF Low
    <2> HIDE DEF D
    <2> QED
      BY <2>1, <2>2 DEF Kernel, NotUser
  <1>3. ASSUME NEW i \in 0..(KernPages - 1) PROVE K[KernOffset + i] = Kernel(i)
    <2>1. KernOffset + i >= KernOffset /\ (KernOffset + i) - KernOffset = i /\ KernOffset + i \in D
      BY Sizes
    <2> HIDE DEF D
    <2> QED
      BY <2>1 DEF Kernel, NotUser
  <1>4. DOMAIN K = D
    OBVIOUS
  <1> HIDE DEF K
  <1>5. ASSUME NEW v \in D PROVE v \in Virt /\ Translate(m, r, v) = K[v]
    <2>1. CASE \E i \in Low : v = PhysOffset + i
      BY <1>2, <2>1, Layout DEF HasKernel
    <2>2. CASE \E i \in 0..(KernPages - 1) : v = KernOffset + i
      BY <1>3, <2>2, Layout DEF HasKernel
    <2> QED
      BY <2>1, <2>2
  <1> QED
    BY <1>1, <1>4, <1>5

\* vmm.c:53, "Map all memory needed by the processor": whatever space a core is
\* in, the kernel's code and the view of physical memory are where they were,
\* and not for users.
THEOREM KernelMapped == VmmSpec => []KernelStaysMapped
  <1>1. VmmInv => KernelStaysMapped
    BY HalfOf, WalkParts, SoundParts DEF VmmInv, KernelStaysMapped
  <1> QED
    BY <1>1, VmmAlways, PTL

LEMMA FramesFinite == IsFiniteSet(Frames) /\ IsFiniteSet(Slot) /\ IsFiniteSet(Virt)
  <1>1. IsFiniteSet(Low)
    BY Sizes, FS_Interval DEF Low
  <1>2. IsFiniteSet(Slot)
    BY Sizes, FS_Interval DEF Slot
  <1>3. IsFiniteSet(Virt)
    <2> DEFINE top == Entries * Entries * Entries * Entries
    <2>1. top \in Nat /\ Virt = 0..(top - 1)
      BY Capacity DEF Virt
    <2> HIDE DEF top
    <2> QED
      BY <2>1, FS_Interval
  <1> QED
    BY <1>1, <1>2, <1>3, Sizes, FS_Union DEF Frames

\* Sets with a function from one to the other that hits every element once.
LEMMA SameSize ==
  ASSUME NEW S, NEW T, IsFiniteSet(S), NEW g \in [S -> T],
         \A x \in S, y \in S : g[x] = g[y] => x = y,
         \A t \in T : \E x \in S : g[x] = t
  PROVE  IsFiniteSet(T) /\ Cardinality(T) = Cardinality(S)
  <1>1. g \in Bijection(S, T)
    BY DEF Bijection, Injection, Surjection, IsInjective
  <1>2. ExistsBijection(S, T)
    BY <1>1 DEF ExistsBijection
  <1> QED
    BY <1>2, FS_Bijection

\* The tables of one space.
LEMMA TablesOf ==
  ASSUME NEW m \in Memory, NEW fr, NEW S, NEW lev, NEW own, NEW up,
         Tree(m, fr, S, lev, own, up), NEW r \in S
  PROVE  /\ \A f \in Tables(m, r) : f \in Frames /\ lev[f] >= 1 /\ own[f] = r
         /\ Cardinality(Tables(m, r)) = 1 + Cardinality(Links(m, UpperTables(m, r)))
  <1> DEFINE l3 == Below(m, {r})
             l2 == Below(m, l3)
             U == UpperTables(m, r)
             l1 == Below(m, U)
             L == Links(m, U)
  <1>1. r \in Frames /\ lev[r] = 4 /\ own[r] = r /\ lev \in [Frames -> 0..4]
    BY TreeTypes
  <1>2. ASSUME NEW A, \A f \in A : f \in Frames /\ lev[f] >= 2 /\ own[f] = r
        PROVE  \A f \in Below(m, A) :
                  f \in Frames /\ own[f] = r /\ \E g \in A : lev[f] = lev[g] - 1
    <2>1. ASSUME NEW f \in Below(m, A)
          PROVE  f \in Frames /\ own[f] = r /\ \E g \in A : lev[f] = lev[g] - 1
      <3>1. PICK g \in A, e \in Slot : m[g][e].p /\ f = m[g][e].to
        BY DEF Below, Links, Slot
      <3>2. g \in Frames /\ own[g] = r /\ lev[g] >= 2
        BY <1>2
      <3>3. lev[f] = lev[g] - 1 /\ own[f] = own[g]
        BY <3>1, <3>2, TreeLink
      <3> QED
        BY <3>1, <3>2, <3>3, EntryTypes
    <2> QED
      BY <2>1
  <1>3. \A f \in l3 : f \in Frames /\ lev[f] = 3 /\ own[f] = r
    <2>1. \A f \in {r} : f \in Frames /\ lev[f] = 4 /\ lev[f] >= 2 /\ own[f] = r
      BY <1>1
    <2>2. \A f \in l3 : f \in Frames /\ own[f] = r /\ \E g \in {r} : lev[f] = lev[g] - 1
      BY <1>2, <2>1
    <2> HIDE DEF l3
    <2> QED
      BY <2>1, <2>2
  <1>4. \A f \in l2 : f \in Frames /\ lev[f] = 2 /\ own[f] = r
    <2> HIDE DEF l3
    <2>1. \A f \in l3 : f \in Frames /\ lev[f] >= 2 /\ own[f] = r
      BY <1>3
    <2>2. \A f \in l2 : f \in Frames /\ own[f] = r /\ \E g \in l3 : lev[f] = lev[g] - 1
      BY <1>2, <2>1
    <2> HIDE DEF l2
    <2> QED
      BY <1>3, <2>2
  <1>5. U = {r} \cup l3 \cup l2
    BY DEF UpperTables
  <1> HIDE DEF U
  <1>6. \A f \in U : f \in Frames /\ lev[f] >= 2 /\ own[f] = r
    <2> HIDE DEF l3, l2
    <2> QED
      BY <1>1, <1>3, <1>4, <1>5
  <1>7. \A x \in L : /\ x = <<x[1], x[2]>> /\ x[1] \in U /\ x[2] \in Slot /\ m[x[1]][x[2]].p
    BY DEF Links, Slot
  <1>8. \A x \in L : LET f == m[x[1]][x[2]].to IN
            f \in Frames /\ lev[f] = lev[x[1]] - 1 /\ own[f] = r /\ up[f] = x
    <2>1. ASSUME NEW x \in L
          PROVE  LET f == m[x[1]][x[2]].to IN
                 f \in Frames /\ lev[f] = lev[x[1]] - 1 /\ own[f] = r /\ up[f] = x
      <3> DEFINE g == x[1]   e == x[2]
      <3>1. g \in Frames /\ lev[g] >= 2 /\ own[g] = r /\ e \in Slot /\ m[g][e].p /\ x = <<g, e>>
        BY <1>6, <1>7
      <3> HIDE DEF g, e
      <3>2. LET f == m[g][e].to IN f \in Frames /\ lev[f] = lev[g] - 1 /\ own[f] = own[g] /\ up[f] = <<g, e>>
        BY <3>1, TreeLink, EntryTypes
      <3> QED
        BY <3>1, <3>2 DEF g, e
    <2> QED
      BY <2>1
  <1>9. l1 = {m[x[1]][x[2]].to : x \in L}
    BY DEF Below
  <1> HIDE DEF L
  <1>10. \A f \in l1 : f \in Frames /\ lev[f] >= 1 /\ lev[f] <= 3 /\ own[f] = r
    <2>1. ASSUME NEW f \in l1 PROVE f \in Frames /\ lev[f] >= 1 /\ lev[f] <= 3 /\ own[f] = r
      <3>1. PICK x \in L : f = m[x[1]][x[2]].to
        BY <1>9
      <3>2. f \in Frames /\ lev[f] = lev[x[1]] - 1 /\ own[f] = r
        BY <1>8, <3>1
      <3>3. lev[x[1]] \in 0..4 /\ lev[x[1]] >= 2
        BY <1>1, <1>6, <1>7
      <3> QED
        BY <3>2, <3>3
    <2> QED
      BY <2>1
  <1>11. l3 \subseteq l1 /\ l2 \subseteq l1
    <2>1. ASSUME NEW A, A \subseteq U PROVE Below(m, A) \subseteq Below(m, U)
      BY <2>1 DEF Below, Links
    <2>2. {r} \subseteq U /\ l3 \subseteq U
      BY <1>5
    <2> QED
      BY <2>1, <2>2
  <1>12. Tables(m, r) = l1 \cup {r}
    <2>1. Tables(m, r) = U \cup l1
      BY DEF Tables, U
    <2> HIDE DEF l1, l2, l3
    <2> QED
      BY <1>5, <1>11, <2>1
  <1> HIDE DEF l1, l2, l3
  <1>13. \A f \in Tables(m, r) : f \in Frames /\ lev[f] >= 1 /\ own[f] = r
    BY <1>1, <1>10, <1>12
  <1>14. IsFiniteSet(L)
    <2>1. IsFiniteSet(Frames \X Slot)
      BY FramesFinite, FS_Product
    <2>2. L \in SUBSET (Frames \X Slot)
      BY <1>6, <1>7
    <2> QED
      BY <2>1, <2>2, FS_Subset
  <1>15. IsFiniteSet(l1) /\ Cardinality(l1) = Cardinality(L)
    <2> DEFINE g == [x \in L |-> m[x[1]][x[2]].to]
    <2>1. g \in [L -> l1] /\ \A t \in l1 : \E x \in L : g[x] = t
      BY <1>9
    <2>2. \A x \in L : up[g[x]] = x
      BY <1>8
    <2> HIDE DEF g
    <2>3. \A x \in L, y \in L : g[x] = g[y] => x = y
      BY <2>2
    <2> QED
      BY <1>14, <2>1, <2>3, SameSize
  <1>16. r \notin l1
    BY <1>1, <1>10
  <1>17. Cardinality(l1 \cup {r}) = Cardinality(l1) + 1
    BY <1>15, <1>16, FS_AddElement
  <1>18. Cardinality(L) \in Nat
    BY <1>14, FS_CardinalityType
  <1>19. Cardinality(Tables(m, r)) = 1 + Cardinality(L)
    BY <1>12, <1>15, <1>17, <1>18
  <1> QED
    BY <1>13, <1>19 DEF L, U

\* next_level_or_alloc(), pmm_alloc_page(): the tables of a space are a tree of
\* allocated frames, and no two spaces share one.
THEOREM TablesTrees == VmmSpec => []TablesAreTrees
  <1>1. VmmInv => TablesAreTrees
    <2> SUFFICES ASSUME VmmInv, outcome = "ok", NEW r \in Spaced
                 PROVE  /\ Tables(mem, r) \cap (free \cup {0}) = {}
                        /\ \A q \in Spaced \ {r} : Tables(mem, r) \cap Tables(mem, q) = {}
                        /\ Cardinality(Tables(mem, r)) = 1 + Cardinality(Links(mem, UpperTables(mem, r)))
      BY DEF TablesAreTrees
    <2>1. mem \in Memory /\ Walk.mem = mem /\ Walk.free = free /\ Treed(Walk, Spaced)
      BY WalkParts, SoundParts DEF VmmInv
    <2>2. PICK lev, own, up : Tree(mem, free, Spaced, lev, own, up)
      BY <2>1 DEF Treed
    <2>3. \A q \in Spaced : \A f \in Tables(mem, q) : f \in Frames /\ lev[f] >= 1 /\ own[f] = q
      BY <2>1, <2>2, TablesOf
    <2>4. Cardinality(Tables(mem, r)) = 1 + Cardinality(Links(mem, UpperTables(mem, r)))
      BY <2>1, <2>2, TablesOf
    <2>5. \A f \in free \cup {0} : lev[f] = 0
      BY <2>2, TreeTypes
    <2> QED
      BY <2>3, <2>4, <2>5
  <1> QED
    BY <1>1, VmmAlways, PTL

-----------------------------------------------------------------------------
(* Tables implement address spaces                                         *)

\* The spaces S in the memory m, page by page.
View(m, S) == [r \in S |-> [v \in VPages |-> Translate(m, r, v)]]

LEMMA PagesLayout == VPages \subseteq Virt /\ DOMAIN KernelHalf \subseteq VPages /\ IsFiniteSet(VPages)
  <1>1. DOMAIN KernelHalf = {PhysOffset + i : i \in Low} \cup {KernOffset + i : i \in 0..(KernPages - 1)}
    BY DEF KernelHalf
  <1>2. DOMAIN KernelHalf \subseteq Virt
    BY <1>1, Layout
  <1>3. Low \subseteq Virt
    BY Layout
  <1>4. HeapLow..(HeapLow + HeapPages - 1) \subseteq Virt
    BY HeapLayout DEF HeapRange
  <1>5. UNION {s.page..(s.page + PageBytes * s.pages - 1) : s \in Segments} \subseteq Virt
    BY TaskLayout
  <1>6. VPages \subseteq Virt
    BY <1>2, <1>3, <1>4, <1>5, TaskLayout, Zenon DEF VPages
  <1>7. DOMAIN KernelHalf \subseteq VPages
    BY Zenon DEF VPages
  <1> QED
    BY <1>6, <1>7, FramesFinite, FS_Subset

LEMMA ViewParts ==
  ASSUME NEW m, NEW S
  PROVE  /\ DOMAIN View(m, S) = S
         /\ \A r \in S : \A v \in VPages : View(m, S)[r][v] = Translate(m, r, v)
  BY DEF View

LEMMA SpacesView ==
  /\ outcome = "ok" => Spaces = View(mem, Spaced)
  /\ outcome # "ok" => DOMAIN Spaces = {}
  BY DEF Spaces, View

LEMMA SpacesViewNext ==
  /\ outcome' = "ok" => Spaces' = View(mem', Spaced')
  /\ outcome' # "ok" => DOMAIN Spaces' = {}
  BY DEF Spaces, View, Translate, Present, EntriesOf

\* The numbers of elements that AddressSpaces counts.
LEMMA SameCount ==
  ASSUME NEW T
  PROVE  AS!Cardinality(T) = Cardinality(T)
  BY DEF AS!Cardinality, Cardinality

\* Owned frames are private ones.
LEMMA ViewPrivate ==
  ASSUME NEW w, NEW S, Owned(w, S)
  PROVE  AS!Private(View(w.mem, S))
  <1> DEFINE V == View(w.mem, S)
             Pages(r) == {v \in VPages : V[r][v].u}
             Held(r) == {V[r][v].to : v \in Pages(r)}
  <1>1. DOMAIN V = S /\ \A r \in S : \A v \in VPages : V[r][v] = Translate(w.mem, r, v)
    BY ViewParts
  <1>2. VPages \subseteq Virt /\ IsFiniteSet(VPages)
    BY PagesLayout
  <1> HIDE DEF V
  <1>3. ASSUME NEW r \in S, NEW q \in S, NEW v \in Pages(r), NEW x \in Pages(q), V[r][v].to = V[q][x].to
        PROVE  r = q /\ v = x
    <2>1. v \in VPages /\ x \in VPages /\ v \in Virt /\ x \in Virt
      BY <1>2
    <2>2. /\ V[r][v] = Translate(w.mem, r, v) /\ V[q][x] = Translate(w.mem, q, x)
          /\ V[r][v].u /\ V[q][x].u
      BY <1>1, <2>1
    <2> QED
      BY <1>3, <2>1, <2>2 DEF Owned
  <1>4. ASSUME NEW r \in S PROVE Cardinality(Held(r)) = Cardinality(Pages(r))
    <2> DEFINE g == [v \in Pages(r) |-> V[r][v].to]
    <2>1. IsFiniteSet(Pages(r))
      BY <1>2, FS_Subset
    <2>2. g \in [Pages(r) -> Held(r)] /\ \A t \in Held(r) : \E v \in Pages(r) : g[v] = t
      OBVIOUS
    <2>3. \A v \in Pages(r), x \in Pages(r) : g[v] = g[x] => v = x
      BY <1>3
    <2> HIDE DEF g, Pages, Held
    <2> QED
      BY <2>1, <2>2, <2>3, SameSize
  <1>5. ASSUME NEW r \in S, NEW q \in S \ {r} PROVE Held(r) \cap Held(q) = {}
    <2>1. ASSUME NEW t \in Held(r), t \in Held(q) PROVE FALSE
      <3>1. PICK v \in Pages(r) : t = V[r][v].to
        BY <2>1
      <3>2. PICK x \in Pages(q) : t = V[q][x].to
        BY <2>1
      <3> HIDE DEF Pages
      <3> QED
        BY <1>3, <3>1, <3>2
    <2> QED
      BY <2>1
  <1>6. /\ \A r \in S : AS!UserPages(V[r]) = Pages(r) /\ AS!UserFrames(V[r]) = Held(r)
    BY DEF AS!UserPages, AS!UserFrames
  <1> HIDE DEF Pages, Held
  <1>7. AS!Private(V)
    <2>1. \A r \in S : Cardinality(AS!UserFrames(V[r])) = Cardinality(AS!UserPages(V[r]))
      BY <1>4, <1>6
    <2>2. ASSUME NEW r \in S, NEW q \in S \ {r} PROVE AS!UserFrames(V[r]) \cap AS!UserFrames(V[q]) = {}
      BY <1>5, <1>6
    <2>3. DOMAIN V = S
      BY <1>1
    <2>4. \A r \in DOMAIN V :
             /\ AS!Cardinality(AS!UserFrames(V[r])) = AS!Cardinality(AS!UserPages(V[r]))
             /\ \A q \in DOMAIN V \ {r} : AS!UserFrames(V[r]) \cap AS!UserFrames(V[q]) = {}
      BY <2>1, <2>2, <2>3, SameCount
    <2> QED
      BY <2>4, Zenon DEF AS!Private
  <1> QED
    BY <1>7 DEF V

LEMMA ViewFixed ==
  ASSUME NEW m, NEW S, NEW r \in S, HasKernel(m, r)
  PROVE  AS!HasFixed(View(m, S)[r])
  BY HalfOf, ViewParts, PagesLayout DEF AS!HasFixed

LEMMA ViewSame ==
  ASSUME NEW m, NEW n, NEW S, NEW T, NEW q \in S, q \in T,
         \A x \in Virt : Translate(n, q, x) = Translate(m, q, x)
  PROVE  View(n, T)[q] = View(m, S)[q]
  <1>1. \A x \in VPages : Translate(n, q, x) = Translate(m, q, x)
    BY PagesLayout
  <1>2. /\ View(n, T)[q] = [v \in VPages |-> Translate(n, q, v)]
        /\ View(m, S)[q] = [v \in VPages |-> Translate(m, q, v)]
    BY DEF View
  <1> QED
    BY <1>1, <1>2

\* vmm_init() leaves one space, without a page for users.
LEMMA InitSpaces == VmmInit => AS!Init
  <1> SUFFICES ASSUME VmmInit PROVE AS!Init
    OBVIOUS
  <1>1. VmmInv
    BY VmmInitInv
  <1>2. CASE outcome # "ok"
    BY <1>2, SpacesView DEF AS!Init
  <1>3. CASE outcome = "ok"
    <2> DEFINE w == [mem |-> [f \in Frames |-> Dirty], free |-> Frame, at |-> 0, short |-> FALSE]
               root == PmmAllocPage(w)
               n == Booted(w, root)
    <2>1. w \in WalkType /\ Treed(w, {})
      BY FirstWalk
    <2>2. mem = n.mem /\ pml4 = root /\ roots = {} /\ ~n.short
      BY <1>3 DEF VmmInit
    <2> HIDE DEF w
    <2>3. \A x \in Virt : ~Translate(n.mem, root, x).u
      BY <2>1, <2>2, BootedGrows
    <2> HIDE DEF root, n
    <2>4. Spaced = {pml4} /\ Spaces = View(mem, Spaced)
      BY <1>3, <2>2, SpacesView DEF Spaced
    <2> DEFINE V == View(mem, Spaced)
    <2>5. AS!HasFixed(V[pml4])
      <3>1. HasKernel(mem, pml4) /\ pml4 \in Spaced
        BY <1>1, <1>3, <2>4, SoundParts, WalkParts DEF VmmInv
      <3> QED
        BY <3>1, ViewFixed
    <2>6. AS!UserPages(V[pml4]) = {}
      <3>1. \A v \in VPages : ~V[pml4][v].u
        BY <2>2, <2>3, <2>4, ViewParts, PagesLayout
      <3> HIDE DEF V
      <3> QED
        BY <3>1 DEF AS!UserPages
    <2>7. DOMAIN V = {pml4}
      BY <2>4, ViewParts
    <2> HIDE DEF V
    <2>8. Spaces = V
      BY <2>4 DEF V
    <2>9. \A r \in DOMAIN V : AS!HasFixed(V[r]) /\ AS!UserPages(V[r]) = {}
      BY <2>5, <2>6, <2>7
    <2> QED
      BY <2>8, <2>9 DEF AS!Init
  <1> QED
    BY <1>2, <1>3

\* vmalloc() is a Create.
LEMMA VmallocSpaces ==
  ASSUME VmmInv, VmmInv', Vmalloc, outcome' = "ok"
  PROVE  AS!Create
  <1> DEFINE f == PmmAllocPage(Walk)
             n == Created(Walk, f)
  <1>1. /\ mem' = n.mem /\ free' = n.free /\ outcome' = IF n.short THEN "starved" ELSE outcome
        /\ pml4' = pml4 /\ roots' = roots \cup {f}
    BY DEF Vmalloc, Done
  <1>2. outcome = "ok" /\ ~n.short
    BY <1>1
  <1>3. VmmTypeOK /\ Sound(Walk, Spaced, pml4)
    BY <1>2 DEF VmmInv
  <1>4. /\ Sound(n, Spaced \cup {f}, pml4) /\ f \notin Spaced
        /\ \A q \in Spaced, x \in Virt : Translate(n.mem, q, x) = Translate(mem, q, x)
    BY <1>2, <1>3, VmallocWalks
  <1> HIDE DEF f, n
  <1>5. Spaced' = Spaced \cup {f}
    BY <1>1 DEF Spaced
  <1> DEFINE A == View(mem, Spaced)
             B == View(n.mem, Spaced \cup {f})
  <1>6. Spaces = A /\ Spaces' = B
    BY <1>1, <1>2, <1>5, SpacesView, SpacesViewNext
  <1>7. DOMAIN A = Spaced /\ DOMAIN B = Spaced \cup {f}
    BY ViewParts
  <1>8. AS!Private(B)
    BY <1>4, SoundParts, ViewPrivate
  <1>9. AS!HasFixed(B[f])
    BY <1>4, SoundParts, ViewFixed
  <1>10. \A q \in Spaced : B[q] = A[q]
    BY <1>4, ViewSame
  <1> HIDE DEF A, B
  <1>11. /\ f \in DOMAIN B \ DOMAIN A
         /\ DOMAIN B = DOMAIN A \cup {f}
         /\ \A q \in DOMAIN A : B[q] = A[q]
         /\ AS!HasFixed(B[f])
         /\ AS!Private(B)
    BY <1>4, <1>7, <1>8, <1>9, <1>10
  <1> QED
    BY <1>6, <1>11 DEF AS!Create

\* elf_load() of a segment is a MapUser.
LEMMA LoadSegmentSpaces ==
  ASSUME VmmInv, VmmInv', NEW r \in roots, NEW s \in Segments, LoadSegment(r, s), outcome' = "ok"
  PROVE  AS!MapUser
  <1> DEFINE n == UserVirtMap(Walk, r, s.page, PageBytes * s.pages)
  <1>1. /\ mem' = n.mem /\ free' = n.free
        /\ outcome' = "overwritten" \/ outcome' = IF n.short THEN "starved" ELSE outcome
        /\ pml4' = pml4 /\ roots' = roots
    BY DEF LoadSegment
  <1>2. outcome = "ok" /\ ~n.short
    BY <1>1
  <1>3. VmmTypeOK /\ Sound(Walk, Spaced, pml4) /\ pml4 \notin roots
    BY <1>2 DEF VmmInv
  <1>4. /\ Sound(n, Spaced, pml4)
        /\ \A q \in Spaced, x \in Virt :
              \/ Translate(n.mem, q, x) = Translate(mem, q, x)
              \/ q = r /\ Translate(n.mem, q, x).u
    BY <1>2, <1>3, LoadSegmentWalks
  <1> HIDE DEF n
  <1>5. Spaced' = Spaced /\ r \in Spaced
    BY <1>1 DEF Spaced
  <1> DEFINE A == View(mem, Spaced)
             B == View(n.mem, Spaced)
  <1>6. Spaces = A /\ Spaces' = B
    BY <1>1, <1>2, <1>5, SpacesView, SpacesViewNext
  <1>7. DOMAIN A = Spaced /\ DOMAIN B = Spaced
    BY ViewParts
  <1>8. AS!Private(B)
    BY <1>4, SoundParts, ViewPrivate
  <1>9. AS!HasFixed(B[r])
    BY <1>4, <1>5, SoundParts, ViewFixed
  <1>10. \A q \in Spaced \ {r} : B[q] = A[q]
    BY <1>4, ViewSame
  <1>11. \A v \in VPages : B[r][v] # A[r][v] => B[r][v].u
    <2>1. \A v \in VPages : B[r][v] = Translate(n.mem, r, v) /\ A[r][v] = Translate(mem, r, v)
      BY <1>5, ViewParts
    <2>2. VPages \subseteq Virt
      BY PagesLayout
    <2> HIDE DEF A, B
    <2> QED
      BY <1>4, <1>5, <2>1, <2>2
  <1> HIDE DEF A, B
  <1>12. /\ r \in DOMAIN A
         /\ DOMAIN B = DOMAIN A
         /\ \A q \in DOMAIN A \ {r} : B[q] = A[q]
         /\ \A v \in VPages : B[r][v] # A[r][v] => B[r][v].u
         /\ AS!HasFixed(B[r])
         /\ AS!Private(B)
    BY <1>5, <1>7, <1>8, <1>9, <1>10, <1>11
  <1> QED
    BY <1>6, <1>12 DEF AS!MapUser

\* vfree() is a Free.
LEMMA VfreeSpaces ==
  ASSUME VmmInv, VmmInv', NEW r \in roots, Vfree(r), outcome' = "ok"
  PROVE  AS!Free
  <1>1. /\ roots' = roots \ {r} /\ UNCHANGED <<mem, pml4, outcome>>
    BY DEF Vfree   \* a store outside the bitmap sets another outcome
  <1>2. outcome = "ok" /\ pml4 \notin roots
    BY <1>1 DEF VmmInv
  <1>3. Spaced' = Spaced \ {r} /\ r \in Spaced
    BY <1>1, <1>2 DEF Spaced
  <1> DEFINE A == View(mem, Spaced)
             B == View(mem, Spaced \ {r})
  <1>4. Spaces = A /\ Spaces' = B
    BY <1>1, <1>2, <1>3, SpacesView, SpacesViewNext
  <1>5. DOMAIN A = Spaced
    BY ViewParts
  <1>6. B = [q \in Spaced \ {r} |-> A[q]]
    BY DEF View
  <1> HIDE DEF A, B
  <1>7. r \in DOMAIN A /\ B = [q \in DOMAIN A \ {r} |-> A[q]]
    BY <1>3, <1>5, <1>6
  <1> QED
    BY <1>4, <1>7 DEF AS!Free

\* mmap_current() changes no space.
LEMMA MmapCurrentSpaces ==
  ASSUME VmmInv, VmmInv', NEW d \in Device, MmapCurrent(d), outcome' = "ok"
  PROVE  Spaces' = Spaces
  <1> DEFINE n == MapPage(Walk, pml4, d, Phys(d), FALSE)
  <1>1. /\ mem' = n.mem /\ free' = n.free /\ outcome' = IF n.short THEN "starved" ELSE outcome
        /\ pml4' = pml4 /\ roots' = roots
    BY DEF MmapCurrent, Done
  <1>2. outcome = "ok" /\ ~n.short
    BY <1>1
  <1>3. VmmTypeOK /\ Sound(Walk, Spaced, pml4)
    BY <1>2 DEF VmmInv
  <1>4. \A q \in Spaced, x \in Virt : Translate(n.mem, q, x) = Translate(mem, q, x)
    BY <1>2, <1>3, MmapCurrentWalks
  <1> HIDE DEF n
  <1>5. Spaced' = Spaced
    BY <1>1 DEF Spaced
  <1>6. Spaces = View(mem, Spaced) /\ Spaces' = View(n.mem, Spaced)
    BY <1>1, <1>2, <1>5, SpacesView, SpacesViewNext
  <1>7. \A q \in Spaced, v \in VPages : Translate(n.mem, q, v) = Translate(mem, q, v)
    BY <1>4, PagesLayout
  <1>8. View(n.mem, Spaced) = View(mem, Spaced)
    BY <1>7 DEF View
  <1> QED
    BY <1>6, <1>8

\* The tables implement address spaces: a call makes, frees or adds user pages to
\* one space, the kernel's half is in all, and no frame serves two users.
THEOREM TablesImplementSpaces == VmmSpec => ImplementsSpaces
  <1>1. VmmInv /\ VmmInv' /\ [VmmNext]_vmmVars => [AS!Next]_<<KernelHalf, Spaces>>
    <2> SUFFICES ASSUME VmmInv, VmmInv', [VmmNext]_vmmVars
                 PROVE  AS!Next \/ UNCHANGED <<KernelHalf, Spaces>>
      OBVIOUS
    <2>0. KernelHalf' = KernelHalf
      BY DEF KernelHalf, Low
    <2>1. CASE outcome' # "ok"
      BY <2>0, <2>1, SpacesViewNext DEF AS!Next, AS!NoPromise
    <2>2. CASE outcome' = "ok"
      <3>1. ASSUME NEW d \in Device, MmapCurrent(d) PROVE Spaces' = Spaces
        BY <2>2, <3>1, MmapCurrentSpaces
      <3>2. ASSUME Vmalloc PROVE AS!Create
        BY <2>2, <3>2, VmallocSpaces
      <3>3. ASSUME NEW r \in roots, NEW s \in Segments, LoadSegment(r, s) PROVE AS!MapUser
        BY <2>2, <3>3, LoadSegmentSpaces
      <3>4. ASSUME NEW r \in roots, Vfree(r) PROVE AS!Free
        BY <2>2, <3>4, VfreeSpaces
      <3>5. ASSUME UNCHANGED <<mem, pml4, roots, outcome>> PROVE Spaces' = Spaces
        <4>1. Spaced' = Spaced /\ outcome = "ok" /\ mem' = mem
          BY <2>2, <3>5 DEF Spaced
        <4> QED
          BY <2>2, <4>1, SpacesView, SpacesViewNext
      <3>6. ASSUME NEW r \in roots, NEW c \in Cpu, Switch(c, r) PROVE Spaces' = Spaces
        BY <3>5, <3>6 DEF Switch
      <3>7. ASSUME UNCHANGED vmmVars PROVE Spaces' = Spaces
        BY <3>5, <3>7 DEF vmmVars
      <3> QED
        BY <2>0, <3>1, <3>2, <3>3, <3>4, <3>6, <3>7 DEF VmmNext, AS!Next
    <2> QED
      BY <2>1, <2>2
  <1> QED
    BY <1>1, InitSpaces, VmmAlways, PTL DEF VmmSpec, ImplementsSpaces, AS!Spec
=============================================================================
