---------------------------- MODULE ConsoleProofs ----------------------------
(***************************************************************************)
(* The terminal's variables keep their types and no glyph is put beyond    *)
(* the width of its context, for any number of cores, any messages and any *)
(* context that is wide enough for one column.  The messages appear whole  *)
(* and in their colours: Console implements Terminal.                      *)
(***************************************************************************)
EXTENDS Console, Induction, FiniteSetTheorems, TLAPS

Char == Glyph \cup {"space", "tab", "newline"} \cup Escape

\* Whoever prints holds the lock.
LockInv ==
    \A c \in Core : pc[c] # "idle" => printf_lock = c /\ str[c] \in Messages

\* In the middle of a turn of the loop there is a character, and no escape.
PlaceInv ==
    \A c \in Core : pc[c] \in {"break", "put"} =>
        j[c] \in 1..Len(str[c]) /\ str[c][j[c]] \notin Escape

\* impl_newln counts at least the glyphs of the row; where one is drawn, the row
\* has room for it.
CursorInv ==
    /\ shrimp_x <= impl_newln
    /\ \A c \in Core : pc[c] = "put" /\ str[c][j[c]] # "newline" => impl_newln <= Limit

ColumnInv == \A x \in screen : x[2] <= Limit

IInv == TypeOK /\ LockInv /\ PlaceInv /\ CursorInv /\ ColumnInv

-----------------------------------------------------------------------------

LEMMA Sizes ==
  /\ Rows \in Nat \ {0} /\ Limit \in Nat
  /\ Width \in Nat /\ FontWidth \in Nat /\ Offset \in Nat
  /\ FontWidth >= 2 /\ Offset >= 2
  /\ (Width \div FontWidth) * FontWidth <= Width
  <1>1. /\ Width \in Nat /\ FontWidth \in Nat /\ Offset \in Nat /\ MaxPrints \in Nat
        /\ Height \in Nat /\ FontHeight \in Nat \ {0}
        /\ FontWidth >= 2 /\ Offset >= 2 /\ Width \div FontWidth >= Offset
        /\ Height >= FontHeight
    BY ConsoleAssumption
  <1>2. Rows \in Nat \ {0}
    BY <1>1 DEF Rows
  <1>3. Limit \in Nat
    BY <1>1 DEF Limit
  <1>4. (Width \div FontWidth) * FontWidth <= Width
    BY <1>1
  <1> QED
    BY <1>1, <1>2, <1>3, <1>4

LEMMA MessageChars ==
  ASSUME NEW m \in Messages
  PROVE  /\ Len(m) \in Nat
         /\ \A i \in 1..Len(m) : m[i] \in Char
         /\ \A i \in 1..Len(m) :
              m[i] \in Escape => i + 1 \in 1..Len(m) /\ m[i + 1] \notin Escape
  <1>1. m \in Seq(Char)
    BY ConsoleAssumption DEF Char
  <1>2. \A i \in 1..Len(m) : m[i] \in Escape => i < Len(m) /\ m[i + 1] \notin Escape
    BY ConsoleAssumption
  <1> QED
    BY <1>1, <1>2

\* Columns up to Limit lie inside the width.
LEMMA ColumnsFit ==
  ASSUME NEW x \in Nat, x <= Limit
  PROVE  Offset + (x + 1) * FontWidth <= Width
  <1> DEFINE q == Width \div FontWidth
  <1>1. q \in Nat /\ q * FontWidth <= Width /\ x + 1 <= q - (Offset - 1)
    BY Sizes DEF Limit
  <1> HIDE DEF q
  <1>2. (x + 1) * FontWidth <= (q - (Offset - 1)) * FontWidth
    BY <1>1, Sizes
  <1>3. (q - (Offset - 1)) * FontWidth = q * FontWidth - (Offset - 1) * FontWidth
    BY <1>1, Sizes
  <1>4. (Offset - 1) * FontWidth >= (Offset - 1) * 2
    BY Sizes
  <1>5. (Offset - 1) * 2 >= Offset
    BY Sizes
  <1>6. /\ (x + 1) * FontWidth \in Int /\ (Offset - 1) * FontWidth \in Int
        /\ q * FontWidth \in Int
    BY <1>1, Sizes
  <1> QED
    BY <1>1, <1>2, <1>3, <1>4, <1>5, <1>6, Sizes
-----------------------------------------------------------------------------

LEMMA InitInductive == Init => IInv
  <1> SUFFICES ASSUME Init PROVE IInv
    OBVIOUS
  <1>1. TypeOK
    BY Sizes, ConsoleAssumption DEF Init, TypeOK
  <1>2. LockInv /\ PlaceInv /\ CursorInv /\ ColumnInv
    BY DEF Init, LockInv, PlaceInv, CursorInv, ColumnInv
  <1> QED
    BY <1>1, <1>2 DEF IInv

\* shrimp_putc('\\n') leaves all cells on the screen, in their columns.
LEMMA NewLineMoves ==
  ASSUME TypeOK, ColumnInv, NewLine
  PROVE  /\ shrimp_x' = 0 /\ shrimp_y' \in 0..(Rows - 1)
         /\ \A x \in screen' :
              /\ x \in (0..(Rows - 1)) \X Nat \X (Glyph \cup {"space"})
                        \X (Colour \cup {"foreground"})
              /\ x[2] <= Limit
  <1>1. shrimp_x' = 0 /\ shrimp_y' \in 0..(Rows - 1)
    BY Sizes DEF TypeOK, NewLine
  <1>2. ASSUME NEW x \in screen', NEW z \in screen, z[1] > 0,
               x = <<z[1] - 1, z[2], z[3], z[4]>>
        PROVE  /\ x \in (0..(Rows - 1)) \X Nat \X (Glyph \cup {"space"})
                         \X (Colour \cup {"foreground"})
               /\ x[2] <= Limit
    <2>1. z[1] \in 0..(Rows - 1) /\ z[2] \in Nat /\ z[3] \in Glyph \cup {"space"}
          /\ z[4] \in Colour \cup {"foreground"} /\ z[2] <= Limit
      BY DEF TypeOK, ColumnInv
    <2>2. z[1] - 1 \in 0..(Rows - 1)
      BY <1>2, <2>1, Sizes
    <2> QED
      BY <1>2, <2>1, <2>2
  <1>3. \/ screen' = screen
        \/ screen' = {<<x[1] - 1, x[2], x[3], x[4]>> : x \in {z \in screen : z[1] > 0}}
    BY DEF NewLine
  <1>4. CASE screen' = screen
    BY <1>1, <1>4 DEF TypeOK, ColumnInv
  <1>5. CASE screen' = {<<x[1] - 1, x[2], x[3], x[4]>> : x \in {z \in screen : z[1] > 0}}
    <2>1. \A x \in screen' : \E z \in screen :
             z[1] > 0 /\ x = <<z[1] - 1, z[2], z[3], z[4]>>
      BY <1>5
    <2> QED
      BY <1>1, <1>2, <2>1
  <1> QED
    BY <1>3, <1>4, <1>5

LEMMA PrintkStep ==
  ASSUME IInv, NEW c \in Core, Printk(c)
  PROVE  IInv'
  <1> PICK m \in Messages : str' = [str EXCEPT ![c] = m]
    BY DEF Printk
  <1>1. TypeOK'
    <2>1. /\ str' \in [Core -> Messages \cup {<<>>}]
          /\ pc' \in [Core -> {"idle", "loop", "break", "put"}]
      BY DEF Printk, Goto, IInv, TypeOK
    <2>2. color' \in [Core -> Colour \cup {"foreground"}] /\ newline' \in [Core -> BOOLEAN]
      BY DEF Printk, IInv, TypeOK
    <2>3. prints' \in 0..MaxPrints /\ j' \in [Core -> Nat \ {0}]
      BY ConsoleAssumption DEF Printk, IInv, TypeOK
    <2> QED
      BY <2>1, <2>2, <2>3 DEF Printk, IInv, TypeOK
  <1>2. LockInv'
    <2>1. \A d \in Core : pc[d] = "idle"
      BY ConsoleAssumption DEF Printk, IInv, LockInv
    <2>2. /\ printf_lock' = c /\ str'[c] \in Messages
          /\ \A d \in Core \ {c} : pc'[d] = "idle"
      BY <2>1 DEF Printk, Goto, IInv, TypeOK
    <2> QED
      BY <2>2 DEF LockInv
  <1>3. PlaceInv' /\ CursorInv' /\ ColumnInv'
    BY DEF Printk, Goto, IInv, TypeOK, PlaceInv, CursorInv, ColumnInv
  <1> QED
    BY <1>1, <1>2, <1>3 DEF IInv

LEMMA PrintkEndsStep ==
  ASSUME IInv, NEW c \in Core, PrintkEnds(c)
  PROVE  IInv'
  <1>1. TypeOK'
    <2>1. /\ str' \in [Core -> Messages \cup {<<>>}]
          /\ pc' \in [Core -> {"idle", "loop", "break", "put"}]
      BY DEF PrintkEnds, Goto, IInv, TypeOK
    <2>2. saved_index' \in Nat /\ printf_lock' \in Core \cup {Nobody}
      BY DEF PrintkEnds
    <2> QED
      BY <2>1, <2>2 DEF PrintkEnds, IInv, TypeOK
  <1>2. LockInv'
    <2>1. \A d \in Core \ {c} : pc[d] = "idle"
      BY DEF PrintkEnds, IInv, LockInv
    <2>2. \A d \in Core : pc'[d] = "idle"
      BY <2>1 DEF PrintkEnds, Goto, IInv, TypeOK
    <2> QED
      BY <2>2 DEF LockInv
  <1>3. PlaceInv' /\ CursorInv' /\ ColumnInv'
    BY DEF PrintkEnds, Goto, IInv, TypeOK, PlaceInv, CursorInv, ColumnInv
  <1> QED
    BY <1>1, <1>2, <1>3 DEF IInv

LEMMA ParseStep ==
  ASSUME IInv, NEW c \in Core, Parse(c)
  PROVE  IInv'
  <1>1. str[c] \in Messages /\ Len(str[c]) \in Nat /\ j[c] \in 1..Len(str[c])
    BY MessageChars DEF Parse, IInv, TypeOK, LockInv
  <1>2. /\ color' \in [Core -> Colour \cup {"foreground"}]
        /\ saved_index' \in Nat
    <2>1. CASE UNCHANGED <<color, saved_index>>
      BY <2>1 DEF IInv, TypeOK
    <2>2. CASE AnsiParse(c)
      <3> DEFINE found == {i \in (saved_index + 1)..Len(str[c]) : str[c][i] \in Escape}
                 first == CHOOSE i \in found : \A k \in found : i <= k
      <3>1. found # {} => first \in Nat /\ str[c][first] \in Escape
        <4>1. ASSUME found # {} PROVE first \in found
          <5>1. found \subseteq Nat
            BY <1>1 DEF IInv, TypeOK
          <5>2. \E i \in found : \A k \in found : i <= k
            BY <4>1, <5>1, LeastNat
          <5> HIDE DEF found
          <5> QED
            BY <5>2, Zenon
        <4>2. \A i \in found : i \in Nat /\ str[c][i] \in Escape
          BY <1>1 DEF IInv, TypeOK
        <4> HIDE DEF found, first
        <4> QED
          BY <4>1, <4>2
      <3>2. \/ UNCHANGED <<color, saved_index>>
            \/ color' = [color EXCEPT ![c] = "foreground"] /\ UNCHANGED saved_index
            \/ /\ found # {} /\ str[c][first] # "reset"
               /\ color' = [color EXCEPT ![c] = str[c][first]] /\ saved_index' = first
        BY <2>2 DEF AnsiParse
      <3> HIDE DEF found, first
      <3> QED
        BY <3>1, <3>2 DEF IInv, TypeOK, Escape
    <2> QED
      BY <2>1, <2>2 DEF Parse
  <1>3. j' \in [Core -> Nat \ {0}]
    BY DEF Parse, Advance, IInv, TypeOK
  <1>4. TypeOK'
    BY <1>2, <1>3 DEF Parse, Goto, IInv, TypeOK
  <1>5. PlaceInv'
    <2>1. j'[c] \in 1..Len(str[c]) /\ str[c][j'[c]] \notin Escape
      BY <1>1, MessageChars DEF Parse, Advance, IInv, TypeOK
    <2>2. \A d \in Core \ {c} : j'[d] = j[d] /\ pc'[d] = pc[d]
      BY DEF Parse, Advance, Goto, IInv, TypeOK
    <2> QED
      BY <2>1, <2>2 DEF Parse, IInv, PlaceInv
  <1>6. CursorInv'
    <2>1. ASSUME NEW d \in Core, pc'[d] = "put" PROVE d # c /\ j'[d] = j[d] /\ pc[d] = "put"
      BY <2>1 DEF Parse, Advance, Goto, IInv, TypeOK
    <2> QED
      BY <2>1 DEF Parse, IInv, CursorInv
  <1>7. LockInv' /\ ColumnInv'
    BY DEF Parse, Goto, IInv, TypeOK, LockInv, ColumnInv
  <1> QED
    BY <1>4, <1>5, <1>6, <1>7 DEF IInv

LEMMA BreakStep ==
  ASSUME IInv, NEW c \in Core, Break(c)
  PROVE  IInv'
  <1> USE DEF Break
  <1>1. \A d \in Core \ {c} : pc[d] = "idle"
    BY DEF IInv, LockInv
  <1>2. /\ pc'[c] = "put" /\ \A d \in Core \ {c} : pc'[d] = "idle"
    BY <1>1 DEF Goto, IInv, TypeOK
  <1>3. CASE impl_newln > Limit /\ str[c][j[c]] # "newline"
    <2>1. TypeOK' /\ ColumnInv'
      <3>1. NewLine /\ impl_newln' = 0 /\ newline' = [newline EXCEPT ![c] = TRUE]
        BY <1>3
      <3>2. /\ shrimp_x' = 0 /\ shrimp_y' \in 0..(Rows - 1)
            /\ \A x \in screen' :
                 /\ x \in (0..(Rows - 1)) \X Nat \X (Glyph \cup {"space"})
                           \X (Colour \cup {"foreground"})
                 /\ x[2] <= Limit
        BY <3>1, NewLineMoves DEF IInv
      <3>3. newline' \in [Core -> BOOLEAN]
        BY <3>1 DEF IInv, TypeOK
      <3>4. pc' \in [Core -> {"idle", "loop", "break", "put"}]
        BY DEF Goto, IInv, TypeOK
      <3> QED
        BY <3>1, <3>2, <3>3, <3>4 DEF IInv, TypeOK, ColumnInv
    <2>2. CursorInv'
      BY <1>2, <1>3, NewLineMoves, Sizes DEF IInv, CursorInv
    <2> QED
      BY <1>2, <2>1, <2>2 DEF IInv, LockInv, PlaceInv
  <1>4. CASE ~(impl_newln > Limit /\ str[c][j[c]] # "newline")
    <2>1. TypeOK' /\ ColumnInv'
      BY <1>4 DEF Goto, IInv, TypeOK, ColumnInv
    <2>2. CursorInv'
      BY <1>2, <1>4, Sizes DEF IInv, TypeOK, CursorInv
    <2> QED
      BY <1>2, <2>1, <2>2 DEF IInv, LockInv, PlaceInv
  <1> QED
    BY <1>3, <1>4

LEMMA PutCharStep ==
  ASSUME IInv, NEW c \in Core, PutChar(c)
  PROVE  IInv'
  <1> DEFINE a == str[c][j[c]]
  <1>1. a \in Glyph \cup {"space", "tab", "newline"} /\ j[c] \in Nat
    BY MessageChars DEF PutChar, IInv, TypeOK, LockInv, PlaceInv, Char
  <1>2. \A d \in Core \ {c} : pc[d] = "idle"
    BY DEF PutChar, IInv, LockInv
  <1>3. pc'[c] = "loop" /\ \A d \in Core \ {c} : pc'[d] = "idle"
    BY <1>2 DEF PutChar, Goto, IInv, TypeOK
  <1>4. /\ shrimp_x' \in Nat /\ shrimp_y' \in 0..(Rows - 1)
        /\ impl_newln' \in Nat /\ shrimp_x' <= impl_newln'
        /\ \A x \in screen' :
             /\ x \in (0..(Rows - 1)) \X Nat \X (Glyph \cup {"space"})
                       \X (Colour \cup {"foreground"})
             /\ x[2] <= Limit
    <2>1. CASE Skipped(c)
      BY <2>1 DEF PutChar, IInv, TypeOK, CursorInv, ColumnInv
    <2>2. CASE ~Skipped(c) /\ a = "newline"
      BY <2>2, NewLineMoves DEF PutChar, IInv, TypeOK
    <2>3. CASE ~Skipped(c) /\ a = "tab"
      BY <2>3 DEF PutChar, IInv, TypeOK, CursorInv, ColumnInv
    <2>4. CASE ~Skipped(c) /\ a \notin {"newline", "tab"}
      <3>1. shrimp_x <= Limit /\ a \in Glyph \cup {"space"}
        BY <1>1, <2>4, Sizes DEF PutChar, IInv, TypeOK, CursorInv
      <3>2. /\ screen' = screen \cup {<<shrimp_y, shrimp_x, a, color[c]>>}
            /\ shrimp_x' = shrimp_x + 1 /\ impl_newln' = impl_newln + 1
            /\ shrimp_y' = shrimp_y
        BY <2>4 DEF PutChar
      <3>3. color[c] \in Colour \cup {"foreground"}
        BY DEF IInv, TypeOK
      <3> HIDE DEF a
      <3> QED
        BY <3>1, <3>2, <3>3 DEF IInv, TypeOK, CursorInv, ColumnInv
    <2> QED
      BY <2>1, <2>2, <2>3, <2>4
  <1>5. TypeOK'
    <2>1. j' \in [Core -> Nat \ {0}] /\ newline' \in [Core -> BOOLEAN]
      BY DEF PutChar, Advance, IInv, TypeOK
    <2> QED
      BY <1>4, <2>1 DEF PutChar, Goto, IInv, TypeOK
  <1>6. LockInv'
    BY <1>3 DEF PutChar, IInv, LockInv
  <1>7. PlaceInv' /\ CursorInv' /\ ColumnInv'
    BY <1>3, <1>4 DEF PlaceInv, CursorInv, ColumnInv
  <1> QED
    BY <1>5, <1>6, <1>7 DEF IInv

LEMMA StepInductive == IInv /\ [Next]_vars => IInv'
  <1>1. ASSUME IInv, Next PROVE IInv'
    BY <1>1, PrintkStep, PrintkEndsStep, ParseStep, BreakStep, PutCharStep DEF Next
  <1>2. ASSUME IInv, UNCHANGED vars PROVE IInv'
    BY <1>2 DEF vars, locals, IInv, TypeOK, LockInv, PlaceInv, CursorInv, ColumnInv
  <1> QED
    BY <1>1, <1>2

THEOREM Inductive == Spec => []IInv
  BY InitInductive, StepInductive, PTL DEF Spec

\* The variables of printk() and shrimp.c keep their types: no cell leaves the
\* screen when it scrolls.
THEOREM TypeCorrect == Spec => []TypeOK
  <1>1. IInv => TypeOK
    BY DEF IInv
  <1> QED
    BY Inductive, <1>1, PTL

\* shrimp_update(): no glyph is put beyond the width, whatever is printed.
THEOREM InsideWidth == Spec => []GlyphsInsideWidth
  <1>1. IInv => GlyphsInsideWidth
    BY ColumnsFit DEF IInv, TypeOK, ColumnInv, GlyphsInsideWidth
  <1> QED
    BY Inductive, <1>1, PTL
-----------------------------------------------------------------------------
(* Lines and cells                                                         *)

Paint == Colour \cup {"foreground"}
Mark == (Glyph \cup {"space"}) \X Paint

\* The cell of the k-th glyph of row r, and the cells s that show the lines L with
\* the cursor behind the last of them.
Cell(L, r, k) == <<r - 1, k - 1, L[r][k][1], L[r][k][2]>>

Shown(L, s, y, x) ==
    /\ L \in Seq(Seq(Mark)) /\ Len(L) = y + 1 /\ Len(L[y + 1]) = x
    /\ \A c \in s : \E r \in 1..Len(L) : \E k \in 1..Len(L[r]) : c = Cell(L, r, k)
    /\ \A r \in 1..Len(L) : \A k \in 1..Len(L[r]) : Cell(L, r, k) \in s

\* The rows that Line reads off the cells s.
CellsOf(s, r) == {c \in s : c[1] = r - 1}

RowOf(s, r) ==
    [k \in 1..Cardinality(CellsOf(s, r)) |->
        LET x == CHOOSE x \in CellsOf(s, r) : x[2] = k - 1 IN <<x[3], x[4]>>]

LinesOf(s, y) == [r \in 1..(y + 1) |-> RowOf(s, r)]

LEMMA CellParts ==
  ASSUME NEW L, NEW r \in Nat, NEW k \in Nat, L[r][k] \in Mark
  PROVE  /\ Cell(L, r, k)[1] = r - 1 /\ Cell(L, r, k)[2] = k - 1
         /\ <<Cell(L, r, k)[3], Cell(L, r, k)[4]>> = L[r][k]
  BY DEF Cell, Mark

LEMMA ShownTypes ==
  ASSUME NEW L, NEW s, NEW y \in Nat, NEW x, Shown(L, s, y, x)
  PROVE  /\ DOMAIN L = 1..(y + 1)
         /\ \A r \in 1..(y + 1) : L[r] \in Seq(Mark) /\ Len(L[r]) \in Nat
         /\ \A r \in 1..(y + 1) : \A k \in 1..Len(L[r]) : L[r][k] \in Mark
  <1>1. L \in Seq(Seq(Mark)) /\ Len(L) = y + 1
    BY DEF Shown
  <1>2. \A r \in 1..(y + 1) : L[r] \in Seq(Mark)
    BY <1>1
  <1> QED
    BY <1>1, <1>2

LEMMA RowShown ==
  ASSUME NEW L, NEW s, NEW y \in Nat, NEW x, Shown(L, s, y, x), NEW r \in 1..(y + 1)
  PROVE  RowOf(s, r) = L[r]
  <1> DEFINE n == Len(L[r])
             C == CellsOf(s, r)
             g == [k \in 1..n |-> Cell(L, r, k)]
  <1>1. L[r] \in Seq(Mark) /\ n \in Nat /\ \A k \in 1..n : L[r][k] \in Mark
    BY ShownTypes
  <1>2. \A k \in 1..n : /\ Cell(L, r, k)[1] = r - 1 /\ Cell(L, r, k)[2] = k - 1
                        /\ <<Cell(L, r, k)[3], Cell(L, r, k)[4]>> = L[r][k]
    BY <1>1, CellParts
  <1>3. \A k \in 1..n : Cell(L, r, k) \in C
    BY <1>2 DEF Shown, CellsOf
  <1>4. ASSUME NEW c \in C PROVE \E k \in 1..n : c = Cell(L, r, k)
    <2>0. PICK q \in 1..(y + 1) : \E k \in 1..Len(L[q]) : c = Cell(L, q, k)
      BY DEF Shown, CellsOf
    <2>1. PICK k \in 1..Len(L[q]) : c = Cell(L, q, k)
      BY <2>0
    <2>2. L[q][k] \in Mark
      BY ShownTypes
    <2>3. c[1] = q - 1
      BY <2>1, <2>2, ShownTypes, CellParts
    <2>4. q = r
      BY <2>3 DEF CellsOf
    <2> QED
      BY <2>1, <2>4
  <1>5. Cardinality(C) = n
    <2>1. \A k \in 1..n : g[k] = Cell(L, r, k)
      OBVIOUS
    <2>2. g \in Bijection(1..n, C)
      <3>1. g \in [1..n -> C]
        BY <1>3
      <3>2. \A k \in 1..n, q \in 1..n : g[k] = g[q] => k = q
        BY <1>2, <2>1
      <3>3. \A c \in C : \E k \in 1..n : g[k] = c
        BY <1>4, <2>1
      <3> HIDE DEF g, C
      <3> QED
        BY <3>1, <3>2, <3>3 DEF Bijection, Injection, Surjection, IsInjective
    <2> HIDE DEF g, C, n
    <2> QED
      BY <1>1, <2>2, FS_CountingElements DEF ExistsBijection
  <1>6. ASSUME NEW k \in 1..n
        PROVE  (LET x1 == CHOOSE x1 \in C : x1[2] = k - 1 IN <<x1[3], x1[4]>>) = L[r][k]
    <2>1. \A c \in C : c[2] = k - 1 => c = Cell(L, r, k)
      BY <1>1, <1>2, <1>4
    <2>2. (CHOOSE c \in C : c[2] = k - 1) = Cell(L, r, k)
      <3> HIDE DEF C
      <3> QED
        BY <1>2, <1>3, <2>1
    <2> HIDE DEF C
    <2> QED
      BY <1>2, <2>2
  <1>7. RowOf(s, r) = [k \in 1..n |-> L[r][k]]
    <2> HIDE DEF n
    <2> QED
      BY <1>5, <1>6 DEF RowOf
  <1> QED
    BY <1>1, <1>7

\* What is read off the cells are the lines they show.
LEMMA LinesShown ==
  ASSUME NEW L, NEW s, NEW y \in Nat, NEW x, Shown(L, s, y, x)
  PROVE  LinesOf(s, y) = L
  <1>1. \A r \in 1..(y + 1) : RowOf(s, r) = L[r]
    BY RowShown
  <1>2. L \in Seq(Seq(Mark)) /\ Len(L) = y + 1
    BY DEF Shown
  <1>3. LinesOf(s, y) = [r \in 1..(y + 1) |-> L[r]]
    BY <1>1 DEF LinesOf
  <1> QED
    BY <1>2, <1>3

LEMMA ShownParts ==
  ASSUME NEW L, NEW s, NEW y \in Nat, NEW x, Shown(L, s, y, x)
  PROVE  /\ L \in Seq(Seq(Mark)) /\ Len(L) = y + 1 /\ Len(L[y + 1]) = x
         /\ \A c \in s : \E r \in 1..(y + 1) : \E k \in 1..Len(L[r]) : c = Cell(L, r, k)
         /\ \A r \in 1..(y + 1) : \A k \in 1..Len(L[r]) : Cell(L, r, k) \in s
  BY DEF Shown

\* A glyph at the cursor is the next of the last line.
LEMMA ShownPut ==
  ASSUME NEW L, NEW s, NEW y \in Nat, NEW x \in Nat, Shown(L, s, y, x), NEW a \in Mark
  PROVE  Shown([L EXCEPT ![Len(L)] = Append(@, a)], s \cup {<<y, x, a[1], a[2]>>}, y, x + 1)
  <1> DEFINE M == [L EXCEPT ![Len(L)] = Append(@, a)]
             t == s \cup {<<y, x, a[1], a[2]>>}
             e == y + 1
  <1>1. /\ L \in Seq(Seq(Mark)) /\ Len(L) = e /\ Len(L[e]) = x /\ e \in 1..Len(L)
        /\ L[e] \in Seq(Mark)
    <2>1. L \in Seq(Seq(Mark)) /\ Len(L) = e /\ Len(L[e]) = x
      BY DEF Shown
    <2>2. e \in 1..e /\ e \in Nat
      OBVIOUS
    <2>3. L[e] \in Seq(Mark)
      BY <2>2, ShownTypes
    <2> QED
      BY <2>1, <2>2, <2>3
  <1>2. /\ M \in Seq(Seq(Mark)) /\ Len(M) = e
        /\ M[e] = Append(L[e], a) /\ \A r \in 1..e : r # e => M[r] = L[r]
    <2>1. Append(L[e], a) \in Seq(Mark) /\ e \in Nat
      BY <1>1
    <2>2. M = [L EXCEPT ![e] = Append(L[e], a)]
      BY <1>1
    <2> HIDE DEF M, e
    <2> QED
      BY <1>1, <2>1, <2>2
  <1>3. /\ Len(M[e]) = x + 1 /\ M[e][x + 1] = a
        /\ \A k \in 1..x : M[e][k] = L[e][k]
    <2> HIDE DEF M, e
    <2>1. Len(Append(L[e], a)) = x + 1 /\ Append(L[e], a)[x + 1] = a
      BY <1>1
    <2>2. \A k \in 1..x : Append(L[e], a)[k] = L[e][k]
      BY <1>1
    <2> QED
      BY <1>2, <2>1, <2>2
  <1> HIDE DEF M
  <1>4. \A r \in 1..e : \A k \in 1..Len(L[r]) : k \in 1..Len(M[r]) /\ Cell(M, r, k) = Cell(L, r, k)
    <2>1. ASSUME NEW r \in 1..e, NEW k \in 1..Len(L[r])
          PROVE  k \in 1..Len(M[r]) /\ Cell(M, r, k) = Cell(L, r, k)
      <3>1. CASE r = e
        BY <1>1, <1>3, <3>1 DEF Cell
      <3>2. CASE r # e
        BY <1>2, <3>2 DEF Cell
      <3> QED
        BY <3>1, <3>2
    <2> QED
      BY <2>1
  <1>5. Cell(M, e, x + 1) = <<y, x, a[1], a[2]>>
    BY <1>3 DEF Cell
  <1>6. ASSUME NEW c \in t PROVE \E r \in 1..e : \E k \in 1..Len(M[r]) : c = Cell(M, r, k)
    <2>1. CASE c = <<y, x, a[1], a[2]>>
      <3>1. e \in 1..e
        BY <1>1
      <3>2. x + 1 \in 1..Len(M[e])
        BY <1>3
      <3> QED
        BY <1>5, <2>1, <3>1, <3>2
    <2>2. CASE c \in s
      <3>0. PICK r \in 1..e : \E k \in 1..Len(L[r]) : c = Cell(L, r, k)
        BY <2>2 DEF Shown
      <3>1. PICK k \in 1..Len(L[r]) : c = Cell(L, r, k)
        BY <3>0
      <3> QED
        BY <1>4, <3>1
    <2> QED
      BY <2>1, <2>2
  <1>7. ASSUME NEW r \in 1..e, NEW k \in 1..Len(M[r]) PROVE Cell(M, r, k) \in t
    <2>1. CASE r = e /\ k = x + 1
      BY <1>5, <2>1
    <2>2. CASE ~(r = e /\ k = x + 1)
      <3>1. k \in 1..Len(L[r])
        BY <1>1, <1>2, <1>3, <2>2
      <3>2. Cell(L, r, k) \in s
        BY <3>1, ShownParts
      <3> QED
        BY <1>4, <3>1, <3>2
    <2> QED
      BY <2>1, <2>2
  <1> HIDE DEF t
  <1> QED
    BY <1>2, <1>3, <1>6, <1>7 DEF Shown, M, t

LEMMA SameLength ==
  ASSUME NEW L \in Seq(Seq(Mark)), Len(L) \in Nat \ {0}
  PROVE  /\ Tail(L) \in Seq(Seq(Mark)) /\ Len(Tail(L)) = Len(L) - 1
         /\ \A r \in 1..(Len(L) - 1) : Tail(L)[r] = L[r + 1]
  OBVIOUS

\* A row that is begun below the others.
LEMMA ShownNewRow ==
  ASSUME NEW L, NEW s, NEW y \in Nat, NEW x, Shown(L, s, y, x)
  PROVE  Shown(Append(L, <<>>), s, y + 1, 0)
  <1> DEFINE M == Append(L, <<>>)
             e == y + 1
  <1>1. L \in Seq(Seq(Mark)) /\ Len(L) = e /\ e \in Nat
    BY DEF Shown
  <1>2. /\ M \in Seq(Seq(Mark)) /\ Len(M) = e + 1 /\ M[e + 1] = <<>>
        /\ \A r \in 1..e : M[r] = L[r]
    <2> HIDE DEF e
    <2>1. <<>> \in Seq(Mark)
      OBVIOUS
    <2> QED
      BY <1>1, <2>1
  <1> HIDE DEF M
  <1>3. \A r \in 1..e : \A k \in Nat : Cell(M, r, k) = Cell(L, r, k)
    BY <1>2 DEF Cell
  <1>4. ASSUME NEW c \in s PROVE \E r \in 1..(e + 1) : \E k \in 1..Len(M[r]) : c = Cell(M, r, k)
    <2>1. PICK r \in 1..e : \E k \in 1..Len(L[r]) : c = Cell(L, r, k)
      BY DEF Shown
    <2>2. PICK k \in 1..Len(L[r]) : c = Cell(L, r, k)
      BY <2>1
    <2>3. r \in 1..(e + 1) /\ k \in 1..Len(M[r]) /\ k \in Nat
      BY <1>1, <1>2
    <2> QED
      BY <1>3, <2>2, <2>3
  <1>5. ASSUME NEW r \in 1..(e + 1), NEW k \in 1..Len(M[r]) PROVE Cell(M, r, k) \in s
    <2>1. r # e + 1
      BY <1>2
    <2>2. r \in 1..e
      BY <1>1, <2>1
    <2>3. k \in 1..Len(L[r]) /\ k \in Nat
      BY <1>2, <2>2
    <2>4. Cell(L, r, k) \in s
      BY <2>2, <2>3 DEF Shown
    <2> QED
      BY <1>3, <2>2, <2>3, <2>4
  <1>6. Len(M[(y + 1) + 1]) = 0 /\ Len(M) = (y + 1) + 1
    BY <1>2
  <1>7. \A c \in s : \E r \in 1..Len(M) : \E k \in 1..Len(M[r]) : c = Cell(M, r, k)
    BY <1>4, <1>6
  <1>8. \A r \in 1..Len(M) : \A k \in 1..Len(M[r]) : Cell(M, r, k) \in s
    BY <1>5, <1>6
  <1>9. Shown(M, s, y + 1, 0)
    BY <1>2, <1>6, <1>7, <1>8 DEF Shown
  <1> QED
    BY <1>9 DEF M

\* The cells after a scroll.
Scrolled(s) == {<<c[1] - 1, c[2], c[3], c[4]>> : c \in {z \in s : z[1] > 0}}

LEMMA ShownScrolled ==
  ASSUME NEW L, NEW s, NEW y \in Nat, NEW x, Shown(L, s, y, x)
  PROVE  Shown(Append(Tail(L), <<>>), Scrolled(s), y, 0)
  <1> DEFINE M == Append(Tail(L), <<>>)
             e == y + 1
  <1>1. L \in Seq(Seq(Mark)) /\ Len(L) = e /\ e \in Nat
    BY DEF Shown
  <1>2. /\ Tail(L) \in Seq(Seq(Mark)) /\ Len(Tail(L)) = y
        /\ \A r \in 1..y : Tail(L)[r] = L[r + 1]
    BY <1>1, SameLength
  <1>3. /\ M \in Seq(Seq(Mark)) /\ Len(M) = e /\ M[e] = <<>>
        /\ \A r \in 1..y : M[r] = L[r + 1]
    <2>1. <<>> \in Seq(Mark)
      OBVIOUS
    <2> DEFINE t == Tail(L)
    <2> HIDE DEF t
    <2>2. M = Append(t, <<>>)
      BY DEF t
    <2> HIDE DEF M
    <2> QED
      BY <1>2, <2>1, <2>2 DEF t
  <1> HIDE DEF M
  <1>4. \A r \in 2..e : \A k \in Nat :
           /\ Cell(M, r - 1, k) = <<(r - 1) - 1, k - 1, L[r][k][1], L[r][k][2]>>
           /\ Len(M[r - 1]) = Len(L[r])
    <2>1. ASSUME NEW r \in 2..e PROVE M[r - 1] = L[r]
      <3>1. r - 1 \in 1..y /\ (r - 1) + 1 = r
        OBVIOUS
      <3> QED
        BY <1>3, <3>1
    <2> QED
      BY <2>1 DEF Cell
  <1>5. ASSUME NEW c \in Scrolled(s)
        PROVE  \E r \in 1..e : \E k \in 1..Len(M[r]) : c = Cell(M, r, k)
    <2>1. PICK z \in s : z[1] > 0 /\ c = <<z[1] - 1, z[2], z[3], z[4]>>
      BY DEF Scrolled
    <2>2. PICK r \in 1..e : \E k \in 1..Len(L[r]) : z = Cell(L, r, k)
      BY DEF Shown
    <2>3. PICK k \in 1..Len(L[r]) : z = Cell(L, r, k)
      BY <2>2
    <2>4. /\ z[1] = r - 1 /\ z[2] = k - 1 /\ z[3] = L[r][k][1] /\ z[4] = L[r][k][2]
      BY <2>3 DEF Cell
    <2>5. r \in 2..e /\ r - 1 \in 1..e /\ k \in Nat
      BY <2>1, <2>4
    <2>6. c = Cell(M, r - 1, k) /\ k \in 1..Len(M[r - 1])
      BY <1>4, <2>1, <2>4, <2>5
    <2> QED
      BY <2>5, <2>6
  <1>6. ASSUME NEW r \in 1..e, NEW k \in 1..Len(M[r]) PROVE Cell(M, r, k) \in Scrolled(s)
    <2>1. r # e
      BY <1>3
    <2>2. r + 1 \in 2..e /\ (r + 1) - 1 = r /\ k \in Nat
      BY <2>1
    <2>3. k \in 1..Len(L[r + 1])
      BY <1>4, <2>2
    <2>4. Cell(L, r + 1, k) \in s
      BY <2>2, <2>3 DEF Shown
    <2> DEFINE z == Cell(L, r + 1, k)
    <2>5. /\ z[1] = r /\ z[2] = k - 1 /\ z[3] = L[r + 1][k][1] /\ z[4] = L[r + 1][k][2]
      BY <2>2 DEF Cell
    <2> HIDE DEF z
    <2>6. Cell(M, r, k) = <<z[1] - 1, z[2], z[3], z[4]>>
      <3>1. Cell(M, (r + 1) - 1, k) = <<((r + 1) - 1) - 1, k - 1, L[r + 1][k][1], L[r + 1][k][2]>>
        BY <1>4, <2>2
      <3> QED
        BY <2>2, <2>5, <3>1
    <2>7. z \in s /\ z[1] > 0
      BY <2>4, <2>5 DEF z
    <2> QED
      BY <2>6, <2>7 DEF Scrolled
  <1>7. Len(M[y + 1]) = 0 /\ Len(M) = y + 1
    BY <1>3
  <1> QED
    BY <1>3, <1>5, <1>6, <1>7 DEF Shown, M
-----------------------------------------------------------------------------
(* Texts                                                                   *)

\* The colour that the escapes at the places b leave behind; that of a character.
ColourOf(m, b) ==
    LET last == CHOOSE k \in b : \A l \in b : l <= k
    IN  IF b = {} \/ m[last] = "reset" THEN "foreground" ELSE m[last]

ColourAt(m, i) == ColourOf(m, {k \in 1..(i - 1) : m[k] \in Escape})

LEMMA ColouredAt ==
  ASSUME NEW m, NEW i \in 1..Len(m)
  PROVE  Coloured(m)[i] = <<m[i], ColourAt(m, i)>>
  BY DEF Coloured, ColourAt, ColourOf

\* The colour changes behind an escape only.
LEMMA ColourNext ==
  ASSUME NEW m, NEW i \in Nat \ {0}
  PROVE  /\ m[i] \notin Escape => ColourAt(m, i + 1) = ColourAt(m, i)
         /\ m[i] \in Escape =>
              ColourAt(m, i + 1) = IF m[i] = "reset" THEN "foreground" ELSE m[i]
  <1> DEFINE before(n) == {k \in 1..(n - 1) : m[k] \in Escape}
  <1>1. ASSUME m[i] \notin Escape PROVE ColourAt(m, i + 1) = ColourAt(m, i)
    <2>1. {k \in 1..((i + 1) - 1) : m[k] \in Escape} = {k \in 1..(i - 1) : m[k] \in Escape}
      BY <1>1
    <2> QED
      BY <2>1 DEF ColourAt
  <1>2. ASSUME m[i] \in Escape
        PROVE  ColourAt(m, i + 1) = IF m[i] = "reset" THEN "foreground" ELSE m[i]
    <2> DEFINE b == before(i + 1)
               last == CHOOSE k \in b : \A l \in b : l <= k
    <2>1. i \in b /\ \A k \in b : k \in Nat /\ k <= i
      BY <1>2
    <2>2. \A k \in b : (\A l \in b : l <= k) => k = i
      <3> HIDE DEF b
      <3> QED
        BY <2>1
    <2>3. last = i
      <3> HIDE DEF b
      <3> QED
        BY <2>1, <2>2
    <2>4. ColourAt(m, i + 1) = IF b = {} \/ m[last] = "reset" THEN "foreground" ELSE m[last]
      BY DEF ColourAt, ColourOf
    <2> HIDE DEF b, last
    <2> QED
      BY <2>1, <2>3, <2>4
  <1> QED
    BY <1>1, <1>2

LEMMA ColourFirst ==
  ASSUME NEW m
  PROVE  ColourAt(m, 1) = "foreground"
  <1>1. {k \in 1..(1 - 1) : m[k] \in Escape} = {}
    OBVIOUS
  <1> QED
    BY <1>1 DEF ColourAt, ColourOf

\* The text is that of the rest, with the character in front unless it is an escape.
LEMMA TextSteps ==
  ASSUME NEW m \in Messages
  PROVE  /\ TextFrom(m, Len(m) + 1) = <<>>
         /\ \A i \in 1..Len(m) :
              TextFrom(m, i) = IF m[i] \in Escape THEN TextFrom(m, i + 1)
                               ELSE <<Coloured(m)[i]>> \o TextFrom(m, i + 1)
         /\ \A i \in 1..(Len(m) + 1) : TextFrom(m, i) \in Seq({Coloured(m)[k] : k \in 1..Len(m)})
  <1> DEFINE n == Len(m)
             X == Seq({Coloured(m)[k] : k \in 1..n})
             Step(t, i) == IF m[i] \in Escape THEN t ELSE <<Coloured(m)[i]>> \o t
             G == [x \in X \X (1..n) |-> Step(x[1], n + 1 - x[2])]
             Body(f, k) == IF k = 0 THEN <<>> ELSE Step(f[k - 1], n + 1 - k)
             Runs(f) == f = [k \in 0..n |-> Body(f, k)]
             chosen == CHOOSE f : Runs(f)
  <1>0. n \in Nat
    BY MessageChars
  <1>1. ASSUME NEW t \in X, NEW i \in 1..n PROVE Step(t, i) \in X
    <2>1. Coloured(m)[i] \in {Coloured(m)[k] : k \in 1..n}
      OBVIOUS
    <2> DEFINE Y == {Coloured(m)[k] : k \in 1..n}
               a == Coloured(m)[i]
    <2> HIDE DEF Y, a
    <2>2. a \in Y /\ t \in Seq(Y)
      BY <2>1 DEF Y, a
    <2>3. <<a>> \o t \in Seq(Y)
      BY <2>2
    <2> QED
      BY <2>2, <2>3 DEF Y, a
  <1>2. \A t \in X, k \in 1..n : G[<<t, k>>] = Step(t, n + 1 - k) /\ G[<<t, k>>] \in X
    <2>1. \A k \in 1..n : n + 1 - k \in 1..n
      BY <1>0
    <2> HIDE DEF Step, X, n
    <2> QED
      BY <1>1, <2>1
  <1>3. PICK f \in [0..n -> X] : f[0] = <<>> /\ \A k \in 1..n : f[k] = G[<<f[k - 1], k>>]
    <2>1. <<>> \in X
      OBVIOUS
    <2> HIDE DEF G, X, n
    <2>2. \E f : IsRun(f, X, <<>>, G, n)
      BY <1>0, <1>2, <2>1, Iterated
    <2> QED
      BY <2>2 DEF IsRun
  <1>4. Runs(f)
    <2>1. ASSUME NEW k \in 0..n PROVE f[k] = Body(f, k)
      <3>1. CASE k = 0
        BY <1>3, <3>1
      <3>2. CASE k # 0
        <4>1. k \in 1..n /\ k - 1 \in 0..n
          BY <1>0, <3>2
        <4> HIDE DEF G, Step, X, n
        <4>2. f[k] = Step(f[k - 1], n + 1 - k)
          BY <1>2, <1>3, <4>1
        <4> QED
          BY <3>2, <4>2
      <3> QED
        BY <3>1, <3>2
    <2> HIDE DEF Body, G, X, n
    <2> QED
      BY <1>3, <2>1
  <1>5. Runs(chosen)
    BY <1>4
  <1>6. \A i : TextFrom(m, i) = chosen[n + 1 - i]
    BY DEF TextFrom
  <1> HIDE DEF chosen
  <1>7. chosen[0] = <<>>
    BY <1>0, <1>5
  <1>8. ASSUME NEW k \in 1..n PROVE chosen[k] = Step(chosen[k - 1], n + 1 - k)
    <2>1. k \in 0..n /\ k # 0
      BY <1>0
    <2>2. chosen[k] = Body(chosen, k)
      <3> HIDE DEF Body, n
      <3> QED
        BY <1>5, <2>1
    <2> QED
      BY <2>1, <2>2
  <1>9. chosen = f
    <2> DEFINE S == {k \in 0..n : chosen[k] = f[k]}
    <2>1. 0 \in S
      BY <1>0, <1>3, <1>7
    <2>2. ASSUME NEW k \in 0..(n - 1), k \in S PROVE k + 1 \in S
      <3>1. k + 1 \in 1..n /\ (k + 1) - 1 = k /\ k \in 0..n
        BY <1>0
      <3> HIDE DEF G, Step, X, n
      <3>2. chosen[k + 1] = Step(chosen[k], n + 1 - (k + 1))
        BY <1>8, <3>1
      <3>3. f[k + 1] = Step(f[k], n + 1 - (k + 1))
        BY <1>2, <1>3, <3>1
      <3> QED
        BY <2>2, <3>1, <3>2, <3>3
    <2>3. \A k \in 0..n : k \in S
      <3> HIDE DEF S, n
      <3> QED
        BY <1>0, <2>1, <2>2, UpTo
    <2>4. chosen = [k \in 0..n |-> f[k]]
      <3>1. \A k \in 0..n : chosen[k] = f[k]
        BY <2>3
      <3>2. chosen = [k \in 0..n |-> chosen[k]]
        <4>1. \A k \in 0..n : chosen[k] = Body(chosen, k)
          <5> HIDE DEF Body, n
          <5> QED
            BY <1>5
        <4> HIDE DEF Body, n
        <4> QED
          BY <1>5, <4>1
      <3> HIDE DEF n
      <3> QED
        BY <3>1, <3>2
    <2> HIDE DEF n
    <2> QED
      BY <1>3, <2>4
  <1>10. \A i \in 1..n : TextFrom(m, i) = Step(TextFrom(m, i + 1), i)
    <2>1. ASSUME NEW i \in 1..n PROVE TextFrom(m, i) = Step(TextFrom(m, i + 1), i)
      <3>1. n + 1 - i \in 1..n /\ (n + 1 - i) - 1 = n + 1 - (i + 1) /\ n + 1 - (n + 1 - i) = i
        BY <1>0
      <3> HIDE DEF Step, n
      <3>2. chosen[n + 1 - i] = Step(chosen[n + 1 - (i + 1)], i)
        BY <1>8, <3>1
      <3> QED
        BY <1>6, <3>2
    <2> QED
      BY <2>1
  <1>11. \A i \in 1..(n + 1) : TextFrom(m, i) \in X
    <2>1. \A i \in 1..(n + 1) : n + 1 - i \in 0..n
      BY <1>0
    <2> HIDE DEF X, n
    <2> QED
      BY <1>3, <1>6, <1>9, <2>1
  <1>12. TextFrom(m, n + 1) = <<>>
    <2>1. n + 1 - (n + 1) = 0
      BY <1>0
    <2> HIDE DEF n
    <2> QED
      BY <1>6, <1>7, <2>1
  <1> HIDE DEF chosen
  <1> QED
    BY <1>10, <1>11, <1>12
-----------------------------------------------------------------------------
(* The steps of Console and those of Terminal                              *)

\* "A reset leaves that place as it is": no message has a colour after a reset.
ResetsLast ==
    \A m \in Messages : \A i \in 1..Len(m) : \A k \in 1..Len(m) :
        i < k /\ m[i] = "reset" => m[k] \notin Colour

\* The screen shows lines whose last one ends at the cursor.
ScreenInv == Shown(LinesOf(screen, shrimp_y), screen, shrimp_y, shrimp_x)

\* Behind the place where ansi_parse() goes on only resets have been passed, and
\* the colour is that of the next character.
ColourInv ==
    /\ (\A c \in Core : pc[c] = "idle") => saved_index = 0
    /\ \A c \in Core : pc[c] # "idle" =>
         /\ saved_index < j[c] /\ j[c] <= Len(str[c]) + 1
         /\ \A k \in (saved_index + 1)..(j[c] - 1) : str[c][k] \in Escape => str[c][k] = "reset"
         /\ color[c] = ColourAt(str[c], j[c])

TInv == IInv /\ ScreenInv /\ ColourInv

\* The text that is missing, as a function of the cores' places.
RestOf(p, s, i) ==
    LET printing == {c \in Core : p[c] # "idle"} IN
    IF printing = {} THEN <<>>
    ELSE LET c == CHOOSE c \in printing : TRUE IN TextFrom(s[c], i[c])

LEMMA RestIdle ==
  ASSUME NEW p, NEW s, NEW i, \A c \in Core : p[c] = "idle"
  PROVE  RestOf(p, s, i) = <<>>
  <1>1. {c \in Core : p[c] # "idle"} = {}
    OBVIOUS
  <1> QED
    BY <1>1 DEF RestOf

LEMMA RestPrinting ==
  ASSUME NEW p, NEW s, NEW i, NEW c \in Core, p[c] # "idle",
         \A d \in Core : p[d] # "idle" => d = c
  PROVE  RestOf(p, s, i) = TextFrom(s[c], i[c])
  <1> DEFINE printing == {d \in Core : p[d] # "idle"}
             d0 == CHOOSE d \in printing : TRUE
  <1>1. d0 = c /\ printing # {}
    OBVIOUS
  <1>2. RestOf(p, s, i) = IF printing = {} THEN <<>> ELSE TextFrom(s[d0], i[d0])
    BY DEF RestOf
  <1> HIDE DEF d0, printing
  <1> QED
    BY <1>1, <1>2

\* What the mapping gives for the abstract variables.
LEMMA Mapping ==
  /\ [i \in 1..(shrimp_y + 1) |-> Line(i - 1)] = LinesOf(screen, shrimp_y)
  /\ Rest = RestOf(pc, str, j)
  <1>1. [i \in 1..(shrimp_y + 1) |-> Line(i - 1)] = LinesOf(screen, shrimp_y)
    BY DEF Line, LinesOf, RowOf, CellsOf
  <1>2. Rest = RestOf(pc, str, j)
    BY DEF Rest, RestOf
  <1> QED
    BY <1>1, <1>2

LEMMA MappingNext ==
  /\ [i \in 1..(shrimp_y + 1) |-> Line(i - 1)]' = LinesOf(screen', shrimp_y')
  /\ Rest' = RestOf(pc', str', j')
  <1>1. [i \in 1..(shrimp_y + 1) |-> Line(i - 1)]' = LinesOf(screen', shrimp_y')
    BY DEF Line, LinesOf, RowOf, CellsOf
  <1>2. Rest' = RestOf(pc', str', j')
    BY DEF Rest, RestOf
  <1> QED
    BY <1>1, <1>2

LEMMA OnePrints ==
  ASSUME IInv, NEW c \in Core, pc[c] # "idle"
  PROVE  /\ \A d \in Core : pc[d] # "idle" => d = c
         /\ str[c] \in Messages
  BY DEF IInv, LockInv

LEMMA NewLineShows ==
  ASSUME TypeOK, ScreenInv, NewLine
  PROVE  /\ ScreenInv'
         /\ LET L == LinesOf(screen, shrimp_y)
            IN  LinesOf(screen', shrimp_y') =
                  IF Len(L) < Rows THEN Append(L, <<>>) ELSE Append(Tail(L), <<>>)
  <1> DEFINE L == LinesOf(screen, shrimp_y)
  <1>1. Shown(L, screen, shrimp_y, shrimp_x) /\ Len(L) = shrimp_y + 1
    BY DEF ScreenInv, Shown
  <1>2. shrimp_y \in Nat /\ shrimp_y <= Rows - 1 /\ Rows \in Nat
    BY Sizes DEF TypeOK
  <1> HIDE DEF L
  <1>3. CASE shrimp_y + 1 >= Rows
    <2>1. /\ shrimp_y' = shrimp_y /\ shrimp_x' = 0
          /\ screen' = Scrolled(screen)
      BY <1>2, <1>3 DEF NewLine, Scrolled
    <2>2. Shown(Append(Tail(L), <<>>), screen', shrimp_y', shrimp_x')
      BY <1>1, <1>2, <2>1, ShownScrolled
    <2>3. LinesOf(screen', shrimp_y') = Append(Tail(L), <<>>)
      BY <1>2, <2>1, <2>2, LinesShown
    <2> QED
      BY <1>1, <1>2, <1>3, <2>2, <2>3 DEF ScreenInv, L
  <1>4. CASE ~(shrimp_y + 1 >= Rows)
    <2>1. shrimp_y' = shrimp_y + 1 /\ shrimp_x' = 0 /\ screen' = screen
      BY <1>4 DEF NewLine
    <2>2. Shown(Append(L, <<>>), screen', shrimp_y', shrimp_x')
      BY <1>1, <1>2, <2>1, ShownNewRow
    <2> DEFINE M == Append(L, <<>>)
    <2>3. shrimp_y' \in Nat /\ Shown(M, screen', shrimp_y', shrimp_x')
      BY <1>2, <2>1, <2>2
    <2> HIDE DEF M
    <2>4. LinesOf(screen', shrimp_y') = M
      BY <2>3, LinesShown
    <2> QED
      BY <1>1, <1>2, <1>4, <2>2, <2>4 DEF ScreenInv, L, M
  <1> QED
    BY <1>3, <1>4

LEMMA PutShows ==
  ASSUME TypeOK, ScreenInv, NEW a \in Mark,
         screen' = screen \cup {<<shrimp_y, shrimp_x, a[1], a[2]>>},
         shrimp_x' = shrimp_x + 1, shrimp_y' = shrimp_y
  PROVE  /\ ScreenInv'
         /\ LET L == LinesOf(screen, shrimp_y)
            IN  LinesOf(screen', shrimp_y') = [L EXCEPT ![Len(L)] = Append(@, a)]
  <1> DEFINE L == LinesOf(screen, shrimp_y)
             M == [L EXCEPT ![Len(L)] = Append(@, a)]
  <1>1. Shown(L, screen, shrimp_y, shrimp_x)
    BY DEF ScreenInv
  <1>2. shrimp_y \in Nat /\ shrimp_x \in Nat
    BY Sizes DEF TypeOK
  <1> HIDE DEF L
  <1>3. Shown(M, screen', shrimp_y', shrimp_x')
    BY <1>1, <1>2, ShownPut
  <1> HIDE DEF M
  <1>4. LinesOf(screen', shrimp_y') = M
    BY <1>2, <1>3, LinesShown
  <1>5. ScreenInv'
    BY <1>3, <1>4 DEF ScreenInv
  <1> QED
    BY <1>4, <1>5 DEF M, L

LEMMA ScreenKept ==
  ASSUME ScreenInv, UNCHANGED <<screen, shrimp_x, shrimp_y>>
  PROVE  ScreenInv' /\ LinesOf(screen', shrimp_y') = LinesOf(screen, shrimp_y)
  BY DEF ScreenInv

\* The head of the text, where no escape stands.
LEMMA TextHead ==
  ASSUME NEW m \in Messages, NEW i \in 1..Len(m), m[i] \notin Escape
  PROVE  LET t == TextFrom(m, i)
         IN  t # <<>> /\ Head(t) = <<m[i], ColourAt(m, i)>> /\ Tail(t) = TextFrom(m, i + 1)
  <1> DEFINE X == {Coloured(m)[k] : k \in 1..Len(m)}
             a == Coloured(m)[i]
             t == TextFrom(m, i + 1)
  <1>1. i + 1 \in 1..(Len(m) + 1)
    BY MessageChars
  <1>2. t \in Seq(X) /\ a \in X /\ TextFrom(m, i) = <<a>> \o t
    BY <1>1, TextSteps
  <1>3. a = <<m[i], ColourAt(m, i)>>
    BY ColouredAt
  <1> HIDE DEF X, a, t
  <1>4. <<a>> \o t # <<>> /\ Head(<<a>> \o t) = a /\ Tail(<<a>> \o t) = t
    BY <1>2
  <1> QED
    BY <1>2, <1>3, <1>4 DEF t

LEMMA InitShows == Init => ScreenInv /\ ColourInv /\ T!Init
  <1> SUFFICES ASSUME Init PROVE ScreenInv /\ ColourInv /\ T!Init
    OBVIOUS
  <1> DEFINE L == << <<>> >>
  <1>1. screen = {} /\ shrimp_y = 0 /\ shrimp_x = 0 /\ saved_index = 0
        /\ \A c \in Core : pc[c] = "idle"
    BY DEF Init
  <1>2. Shown(L, screen, shrimp_y, shrimp_x)
    <2>1. Len(L) = 1 /\ L[1] = <<>> /\ <<>> \in Seq(Mark)
      OBVIOUS
    <2>2. L \in Seq(Seq(Mark))
      BY <2>1
    <2> HIDE DEF L
    <2>3. Len(L) = shrimp_y + 1 /\ Len(L[shrimp_y + 1]) = shrimp_x
      BY <1>1, <2>1
    <2>4. \A r \in 1..Len(L) : Len(L[r]) = 0
      BY <2>1
    <2> QED
      BY <1>1, <2>2, <2>3, <2>4 DEF Shown
  <1>3. LinesOf(screen, shrimp_y) = L
    <2> HIDE DEF L
    <2> QED
      BY <1>1, <1>2, LinesShown
  <1>4. ScreenInv
    <2> HIDE DEF L
    <2> QED
      BY <1>2, <1>3 DEF ScreenInv
  <1>5. ColourInv
    BY <1>1 DEF ColourInv
  <1>6. T!Init
    <2>1. RestOf(pc, str, j) = <<>>
      BY <1>1, RestIdle
    <2> QED
      BY <1>3, <2>1, Mapping DEF T!Init
  <1> QED
    BY <1>4, <1>5, <1>6

LEMMA PrintkShows ==
  ASSUME TInv, NEW c \in Core, Printk(c)
  PROVE  ScreenInv' /\ ColourInv' /\ T!Begin
  <1>1. PICK m \in Messages : str' = [str EXCEPT ![c] = m]
    BY DEF Printk
  <1>2. /\ \A d \in Core : pc[d] = "idle"
        /\ pc \in [Core -> {"idle", "loop", "break", "put"}] /\ pc' = [pc EXCEPT ![c] = "loop"]
        /\ str \in [Core -> Messages \cup {<<>>}] /\ j \in [Core -> Nat \ {0}]
        /\ color \in [Core -> Colour \cup {"foreground"}]
        /\ j' = [j EXCEPT ![c] = 1] /\ color' = [color EXCEPT ![c] = "foreground"]
        /\ saved_index' = saved_index
        /\ UNCHANGED <<screen, shrimp_x, shrimp_y>>
    BY ConsoleAssumption DEF TInv, IInv, TypeOK, LockInv, Printk, Goto
  <1>3. ScreenInv' /\ LinesOf(screen', shrimp_y') = LinesOf(screen, shrimp_y)
    BY <1>2, ScreenKept DEF TInv
  <1>4. /\ pc'[c] # "idle" /\ \A d \in Core : pc'[d] # "idle" => d = c
        /\ str'[c] = m /\ j'[c] = 1 /\ color'[c] = "foreground"
    BY <1>1, <1>2
  <1>5. ColourInv'
    <2>1. saved_index' = 0
      BY <1>2 DEF TInv, ColourInv
    <2>2. Len(m) \in Nat
      BY MessageChars
    <2> QED
      BY <1>4, <2>1, <2>2, ColourFirst DEF ColourInv
  <1>6. T!Begin
    <2>1. RestOf(pc, str, j) = <<>>
      BY <1>2, RestIdle
    <2>2. RestOf(pc', str', j') = TextFrom(m, 1)
      BY <1>4, RestPrinting
    <2> QED
      BY <1>3, <2>1, <2>2, Mapping, MappingNext DEF T!Begin
  <1> QED
    BY <1>3, <1>5, <1>6

LEMMA EndsShows ==
  ASSUME TInv, NEW c \in Core, PrintkEnds(c)
  PROVE  ScreenInv' /\ ColourInv' /\ UNCHANGED T!vars
  <1>1. /\ pc \in [Core -> {"idle", "loop", "break", "put"}] /\ pc' = [pc EXCEPT ![c] = "idle"]
        /\ pc[c] # "idle" /\ saved_index' = 0 /\ j[c] > Len(str[c]) /\ j[c] \in Nat
        /\ UNCHANGED <<screen, shrimp_x, shrimp_y>>
    BY DEF TInv, IInv, TypeOK, PrintkEnds, Goto
  <1>2. ScreenInv' /\ LinesOf(screen', shrimp_y') = LinesOf(screen, shrimp_y)
    BY <1>1, ScreenKept DEF TInv
  <1>3. (\A d \in Core : pc[d] # "idle" => d = c) /\ str[c] \in Messages
    BY <1>1, OnePrints DEF TInv
  <1>4. \A d \in Core : pc'[d] = "idle"
    BY <1>1, <1>3
  <1>5. ColourInv'
    BY <1>1, <1>4 DEF ColourInv
  <1>6. RestOf(pc, str, j) = <<>>
    <2>1. j[c] = Len(str[c]) + 1
      BY <1>1, <1>3, MessageChars DEF TInv, ColourInv
    <2>2. TextFrom(str[c], j[c]) = <<>>
      BY <1>3, <2>1, TextSteps
    <2> QED
      BY <1>1, <1>3, <2>2, RestPrinting
  <1>7. RestOf(pc', str', j') = <<>>
    BY <1>4, RestIdle
  <1>8. UNCHANGED T!vars
    BY <1>2, <1>6, <1>7, Mapping, MappingNext DEF T!vars
  <1> QED
    BY <1>2, <1>5, <1>8

\* While c prints, the rest of its message is missing, before and after its step.
LEMMA RestHere ==
  ASSUME IInv, NEW c \in Core, pc[c] # "idle"
  PROVE  Rest = TextFrom(str[c], j[c])
  <1>1. \A d \in Core : pc[d] # "idle" => d = c
    BY OnePrints
  <1>2. RestOf(pc, str, j) = TextFrom(str[c], j[c])
    BY <1>1, RestPrinting
  <1> QED
    BY <1>2, Mapping

LEMMA RestThere ==
  ASSUME IInv, NEW c \in Core, pc[c] # "idle", str' = str,
         NEW l, l # "idle", pc' = [pc EXCEPT ![c] = l]
  PROVE  Rest' = TextFrom(str[c], j'[c])
  <1>1. pc'[c] # "idle" /\ \A d \in Core : pc'[d] # "idle" => d = c
    BY OnePrints DEF IInv, TypeOK
  <1> DEFINE p == pc'
             i == j'
  <1>2. RestOf(p, str, i) = TextFrom(str[c], i[c])
    <2>1. p[c] # "idle" /\ \A d \in Core : p[d] # "idle" => d = c
      BY <1>1
    <2> HIDE DEF p, i
    <2> QED
      BY <2>1, RestPrinting
  <1> QED
    BY <1>2, MappingNext


\* ansi_parse() at an escape: the colour becomes that of the next character.
LEMMA ParsedColour ==
  ASSUME ResetsLast, TInv, NEW c \in Core, pc[c] = "loop", j[c] <= Len(str[c]),
         str[c][j[c]] \in Escape, AnsiParse(c)
  PROVE  /\ color' = [color EXCEPT ![c] = ColourAt(str[c], j[c] + 1)]
         /\ saved_index' < j[c] + 1
         /\ \A k \in (saved_index' + 1)..j[c] : str[c][k] \in Escape => str[c][k] = "reset"
  <1> DEFINE m == str[c]
             n == j[c]
             found == {i \in (saved_index + 1)..Len(m) : m[i] \in Escape}
             first == CHOOSE i \in found : \A k \in found : i <= k
  <1>1. /\ m \in Messages /\ n \in 1..Len(m) /\ Len(m) \in Nat
        /\ saved_index \in Nat /\ saved_index < n /\ m[n] \in Escape
        /\ \A k \in (saved_index + 1)..(n - 1) : m[k] \in Escape => m[k] = "reset"
    <2>1. m \in Messages
      BY OnePrints DEF TInv
    <2>2. saved_index \in Nat /\ n \in Nat \ {0}
      BY DEF TInv, IInv, TypeOK
    <2>3. /\ saved_index < n
          /\ \A k \in (saved_index + 1)..(n - 1) : m[k] \in Escape => m[k] = "reset"
      BY DEF TInv, ColourInv
    <2> QED
      BY <2>1, <2>2, <2>3, MessageChars
  <1>2. n \in found /\ found \subseteq Nat
    BY <1>1
  <1>3. first \in found /\ \A k \in found : first <= k
    <2> HIDE DEF found
    <2>1. \E i \in found : \A k \in found : i <= k
      BY <1>2, LeastNat
    <2> QED
      BY <2>1
  <1>4. IF m[first] = "reset"
        THEN color' = [color EXCEPT ![c] = "foreground"] /\ saved_index' = saved_index
        ELSE color' = [color EXCEPT ![c] = m[first]] /\ saved_index' = first
    <2>1. found # {}
      BY <1>2
    <2> QED
      BY <2>1 DEF AnsiParse
  <1>5. first \in (saved_index + 1)..n /\ m[first] \in Escape /\ first \in 1..Len(m)
    <2>1. first \in (saved_index + 1)..Len(m) /\ m[first] \in Escape
      <3>1. \A i \in found : i \in (saved_index + 1)..Len(m) /\ m[i] \in Escape
        OBVIOUS
      <3> HIDE DEF first, found
      <3> QED
        BY <1>3, <3>1
    <2>2. first <= n
      BY <1>2, <1>3
    <2> HIDE DEF first, found
    <2> QED
      BY <1>1, <2>1, <2>2
  <1> HIDE DEF first, found
  <1>6. first # n => m[first] = "reset" /\ m[n] = "reset"
    <2> SUFFICES ASSUME first # n PROVE m[first] = "reset" /\ m[n] = "reset"
      OBVIOUS
    <2>1. m[first] = "reset" /\ first < n
      BY <1>1, <1>5
    <2> HIDE DEF m, n
    <2>2. m[n] \notin Colour
      BY <1>1, <1>5, <2>1 DEF ResetsLast
    <2> QED
      BY <1>1, <2>1, <2>2 DEF Escape
  <1> HIDE DEF m, n
  <1>7. ColourAt(m, n + 1) = IF m[n] = "reset" THEN "foreground" ELSE m[n]
    <2>1. n \in Nat \ {0}
      BY <1>1
    <2> QED
      BY <1>1, <2>1, ColourNext
  <1>8. color' = [color EXCEPT ![c] = ColourAt(m, n + 1)]
    BY <1>4, <1>6, <1>7
  <1>9. saved_index' < n + 1
    BY <1>1, <1>4, <1>5
  <1>10. \A k \in (saved_index' + 1)..n : m[k] \in Escape => m[k] = "reset"
    BY <1>1, <1>4, <1>5, <1>6
  <1> QED
    BY <1>8, <1>9, <1>10 DEF m, n

LEMMA ParseShows ==
  ASSUME ResetsLast, TInv, NEW c \in Core, Parse(c)
  PROVE  ScreenInv' /\ ColourInv' /\ UNCHANGED T!vars
  <1>1. /\ pc \in [Core -> {"idle", "loop", "break", "put"}] /\ pc' = [pc EXCEPT ![c] = "break"]
        /\ pc[c] = "loop" /\ j[c] <= Len(str[c]) /\ j \in [Core -> Nat \ {0}]
        /\ color \in [Core -> Colour \cup {"foreground"}]
        /\ str' = str /\ UNCHANGED <<screen, shrimp_x, shrimp_y>>
    BY DEF TInv, IInv, TypeOK, Parse, Goto
  <1>2. ScreenInv' /\ LinesOf(screen', shrimp_y') = LinesOf(screen, shrimp_y)
    BY <1>1, ScreenKept DEF TInv
  <1>3. (\A d \in Core : pc[d] # "idle" => d = c) /\ str[c] \in Messages
    BY <1>1, OnePrints DEF TInv
  <1>4. pc'[c] # "idle" /\ \A d \in Core : pc'[d] # "idle" => d = c
    BY <1>1, <1>3
  <1>5. j[c] \in 1..Len(str[c]) /\ Len(str[c]) \in Nat
    BY <1>1, <1>3, MessageChars
  <1>6. Rest = TextFrom(str[c], j[c])
    BY <1>1, RestHere DEF TInv
  <1>7. Rest' = TextFrom(str[c], j'[c])
    BY <1>1, RestThere DEF TInv
  <1>8. CASE str[c][j[c]] \in Escape
    <2>1. AnsiParse(c) /\ j' = [j EXCEPT ![c] = j[c] + 1]
      BY <1>8 DEF Parse, Advance
    <2>2. j'[c] = j[c] + 1
      BY <1>1, <2>1
    <2>3. /\ color' = [color EXCEPT ![c] = ColourAt(str[c], j[c] + 1)]
          /\ saved_index' < j[c] + 1
          /\ \A k \in (saved_index' + 1)..j[c] : str[c][k] \in Escape => str[c][k] = "reset"
      BY <1>1, <1>8, <2>1, ParsedColour
    <2>4. color'[c] = ColourAt(str'[c], j'[c])
      BY <1>1, <2>2, <2>3
    <2>5. j'[c] - 1 = j[c] /\ j'[c] <= Len(str'[c]) + 1
      BY <1>1, <1>5, <2>2
    <2>6. ColourInv'
      <3>1. ASSUME NEW d \in Core, pc'[d] # "idle"
            PROVE  /\ saved_index' < j'[d] /\ j'[d] <= Len(str'[d]) + 1
                   /\ \A k \in (saved_index' + 1)..(j'[d] - 1) :
                        str'[d][k] \in Escape => str'[d][k] = "reset"
                   /\ color'[d] = ColourAt(str'[d], j'[d])
        <4>1. d = c
          BY <1>4, <3>1
        <4> QED
          BY <1>1, <2>2, <2>3, <2>4, <2>5, <4>1
      <3> QED
        BY <1>4, <3>1 DEF ColourInv
    <2>7. TextFrom(str[c], j'[c]) = TextFrom(str[c], j[c])
      BY <1>3, <1>5, <1>8, <2>2, TextSteps
    <2>8. UNCHANGED T!vars
      BY <1>2, <1>6, <1>7, <2>7, Mapping, MappingNext DEF T!vars
    <2> QED
      BY <1>2, <2>6, <2>8
  <1>9. CASE str[c][j[c]] \notin Escape
    <2>1. UNCHANGED <<j, color, saved_index>>
      BY <1>9 DEF Parse
    <2>2. ColourInv'
      BY <1>1, <1>3, <1>4, <2>1 DEF TInv, ColourInv
    <2>3. UNCHANGED T!vars
      BY <1>2, <1>6, <1>7, <2>1, Mapping, MappingNext DEF T!vars
    <2> QED
      BY <1>2, <2>2, <2>3
  <1> QED
    BY <1>8, <1>9

LEMMA BreakShows ==
  ASSUME TInv, NEW c \in Core, Break(c)
  PROVE  ScreenInv' /\ ColourInv' /\ (T!Wrap \/ UNCHANGED T!vars)
  <1>1. /\ pc \in [Core -> {"idle", "loop", "break", "put"}] /\ pc' = [pc EXCEPT ![c] = "put"]
        /\ pc[c] = "break" /\ UNCHANGED <<str, j, color, saved_index>>
        /\ j[c] \in 1..Len(str[c]) /\ str[c][j[c]] \notin Escape
    BY DEF TInv, IInv, TypeOK, PlaceInv, Break, Goto
  <1>2. (\A d \in Core : pc[d] # "idle" => d = c) /\ str[c] \in Messages
    BY <1>1, OnePrints DEF TInv
  <1>3. pc'[c] # "idle" /\ \A d \in Core : pc'[d] # "idle" => d = c
    BY <1>1, <1>2
  <1>4. ColourInv'
    BY <1>1, <1>2, <1>3 DEF TInv, ColourInv
  <1>5. Rest = TextFrom(str[c], j[c]) /\ Rest' = TextFrom(str[c], j[c])
    <2>1. Rest = TextFrom(str[c], j[c])
      BY <1>1, RestHere DEF TInv
    <2>2. Rest' = TextFrom(str[c], j'[c])
      BY <1>1, RestThere DEF TInv
    <2> QED
      BY <1>1, <2>1, <2>2
  <1>6. CASE NewLine
    <2>1. /\ ScreenInv'
          /\ LET L == LinesOf(screen, shrimp_y)
             IN  LinesOf(screen', shrimp_y') =
                   IF Len(L) < Rows THEN Append(L, <<>>) ELSE Append(Tail(L), <<>>)
      BY <1>6, NewLineShows DEF TInv, IInv
    <2>2. TextFrom(str[c], j[c]) # <<>>
      BY <1>1, <1>2, TextHead
    <2>3. T!Wrap
      BY <1>5, <2>1, <2>2, Mapping, MappingNext DEF T!Wrap, T!Fresh
    <2> QED
      BY <1>4, <2>1, <2>3
  <1>7. CASE UNCHANGED <<screen, shrimp_x, shrimp_y>>
    <2>1. ScreenInv' /\ LinesOf(screen', shrimp_y') = LinesOf(screen, shrimp_y)
      BY <1>7, ScreenKept DEF TInv
    <2>2. UNCHANGED T!vars
      BY <1>5, <2>1, Mapping, MappingNext DEF T!vars
    <2> QED
      BY <1>4, <2>1, <2>2
  <1> QED
    BY <1>6, <1>7 DEF Break

LEMMA PutCharShows ==
  ASSUME TInv, NEW c \in Core, PutChar(c)
  PROVE  ScreenInv' /\ ColourInv' /\ (T!Show \/ T!LeaveOut \/ T!NewLine)
  <1> DEFINE m == str[c]
             n == j[c]
             a == m[n]
  <1>1. /\ pc \in [Core -> {"idle", "loop", "break", "put"}] /\ pc' = [pc EXCEPT ![c] = "loop"]
        /\ pc[c] = "put" /\ UNCHANGED <<str, color, saved_index>>
        /\ j \in [Core -> Nat \ {0}] /\ j' = [j EXCEPT ![c] = j[c] + 1]
        /\ color \in [Core -> Colour \cup {"foreground"}]
        /\ n \in 1..Len(m) /\ a \notin Escape
    BY DEF TInv, IInv, TypeOK, PlaceInv, PutChar, Goto, Advance
  <1>2. (\A d \in Core : pc[d] # "idle" => d = c) /\ m \in Messages
    BY <1>1, OnePrints DEF TInv
  <1>3. (\A d \in Core : pc'[d] # "idle" => d = c) /\ pc'[c] # "idle" /\ j'[c] = n + 1
    BY <1>1, <1>2
  <1>4. /\ saved_index \in Nat /\ saved_index < n /\ n <= Len(m) + 1
        /\ \A k \in (saved_index + 1)..(n - 1) : m[k] \in Escape => m[k] = "reset"
        /\ color[c] = ColourAt(m, n)
    BY <1>1 DEF TInv, ColourInv, IInv, TypeOK
  <1>5. /\ n \in Nat \ {0} /\ Len(m) \in Nat /\ n + 1 <= Len(m) + 1
        /\ ColourAt(m, n + 1) = ColourAt(m, n)
    BY <1>1, <1>2, ColourNext, MessageChars
  <1>6. ColourInv'
    <2> HIDE DEF m, n, a
    <2>1. \A k \in (saved_index + 1)..n : m[k] \in Escape => m[k] = "reset"
      BY <1>1, <1>4, <1>5 DEF a
    <2>2. /\ saved_index' < j'[c] /\ j'[c] <= Len(str'[c]) + 1
          /\ \A k \in (saved_index' + 1)..(j'[c] - 1) :
               str'[c][k] \in Escape => str'[c][k] = "reset"
          /\ color'[c] = ColourAt(str'[c], j'[c])
      BY <1>1, <1>3, <1>4, <1>5, <2>1 DEF m
    <2> QED
      BY <1>3, <2>2 DEF ColourInv
  <1>7. Rest # <<>> /\ Head(Rest) = <<a, color[c]>> /\ Rest' = Tail(Rest)
    <2>1. Rest = TextFrom(m, n)
      BY <1>1, RestHere DEF TInv
    <2>2. Rest' = TextFrom(m, n + 1)
      BY <1>1, <1>3, RestThere DEF TInv
    <2> HIDE DEF n, m
    <2> QED
      BY <1>1, <1>2, <1>4, <2>1, <2>2, TextHead
  <1>8. a \in Char /\ color[c] \in Paint
    <2>1. a \in Char
      BY <1>1, <1>2, MessageChars
    <2> QED
      BY <1>1, <2>1 DEF Paint
  <1>9. Head(Rest)[1] = a
    BY <1>7
  <1> HIDE DEF a
  <1>10. CASE Skipped(c) \/ a = "tab"
    <2>1. a \in {"space", "tab"} /\ UNCHANGED <<screen, shrimp_x, shrimp_y>>
      BY <1>10 DEF PutChar, Skipped, a
    <2>2. ScreenInv' /\ LinesOf(screen', shrimp_y') = LinesOf(screen, shrimp_y)
      BY <2>1, ScreenKept DEF TInv
    <2>3. T!LeaveOut
      BY <1>7, <1>9, <2>1, <2>2, Mapping, MappingNext DEF T!LeaveOut
    <2> QED
      BY <1>6, <2>2, <2>3
  <1>11. CASE ~Skipped(c) /\ a = "newline"
    <2>1. NewLine
      BY <1>11 DEF PutChar, a
    <2>2. /\ ScreenInv'
          /\ LET L == LinesOf(screen, shrimp_y)
             IN  LinesOf(screen', shrimp_y') =
                   IF Len(L) < Rows THEN Append(L, <<>>) ELSE Append(Tail(L), <<>>)
      BY <2>1, NewLineShows DEF TInv, IInv
    <2>3. T!NewLine
      BY <1>7, <1>9, <1>11, <2>2, Mapping, MappingNext DEF T!NewLine, T!Fresh
    <2> QED
      BY <1>6, <2>2, <2>3
  <1>12. CASE ~Skipped(c) /\ a # "newline" /\ a # "tab"
    <2> DEFINE b == <<a, color[c]>>
    <2>1. /\ screen' = screen \cup {<<shrimp_y, shrimp_x, a, color[c]>>}
          /\ shrimp_x' = shrimp_x + 1 /\ shrimp_y' = shrimp_y
      BY <1>12 DEF PutChar, a
    <2>2. b \in Mark /\ b[1] = a /\ b[2] = color[c]
      BY <1>1, <1>8, <1>12 DEF Mark, Char, a
    <2> HIDE DEF b
    <2>3. /\ ScreenInv'
          /\ LET L == LinesOf(screen, shrimp_y)
             IN  LinesOf(screen', shrimp_y') = [L EXCEPT ![Len(L)] = Append(@, b)]
      BY <2>1, <2>2, PutShows DEF TInv, IInv
    <2>4. Head(Rest) = b /\ Head(Rest)[1] \notin {"newline", "tab"}
      BY <1>7, <1>9, <1>12 DEF b
    <2>5. T!Show
      BY <1>7, <2>3, <2>4, Mapping, MappingNext DEF T!Show
    <2> QED
      BY <1>6, <2>3, <2>5
  <1> QED
    BY <1>10, <1>11, <1>12

LEMMA StepShows ==
  ASSUME ResetsLast, TInv, [Next]_vars
  PROVE  ScreenInv' /\ ColourInv' /\ [T!Next]_T!vars
  <1>1. CASE UNCHANGED vars
    <2>1. UNCHANGED <<screen, shrimp_x, shrimp_y, pc, str, j, color, saved_index>>
      BY <1>1 DEF vars, locals
    <2>2. ScreenInv' /\ LinesOf(screen', shrimp_y') = LinesOf(screen, shrimp_y)
      BY <2>1, ScreenKept DEF TInv
    <2>3. ColourInv'
      BY <2>1 DEF TInv, ColourInv
    <2>4. UNCHANGED T!vars
      BY <2>1, <2>2, Mapping, MappingNext DEF T!vars
    <2> QED
      BY <2>2, <2>3, <2>4
  <1>2. ASSUME NEW c \in Core, Printk(c) PROVE ScreenInv' /\ ColourInv' /\ [T!Next]_T!vars
    BY <1>2, PrintkShows DEF T!Next
  <1>3. ASSUME NEW c \in Core, Parse(c) PROVE ScreenInv' /\ ColourInv' /\ [T!Next]_T!vars
    BY <1>3, ParseShows
  <1>4. ASSUME NEW c \in Core, Break(c) PROVE ScreenInv' /\ ColourInv' /\ [T!Next]_T!vars
    BY <1>4, BreakShows DEF T!Next
  <1>5. ASSUME NEW c \in Core, PutChar(c) PROVE ScreenInv' /\ ColourInv' /\ [T!Next]_T!vars
    BY <1>5, PutCharShows DEF T!Next
  <1>6. ASSUME NEW c \in Core, PrintkEnds(c) PROVE ScreenInv' /\ ColourInv' /\ [T!Next]_T!vars
    BY <1>6, EndsShows
  <1> QED
    BY <1>1, <1>2, <1>3, <1>4, <1>5, <1>6 DEF Next

\* printk(), shrimp_print(): the cores' messages appear whole and one after the other, every glyph in its
\* colour, and only whole lines scroll out: Console implements Terminal.
THEOREM ShowsMessages == ASSUME ResetsLast PROVE Spec => ImplementsTerminal
  <1>1. Init => ScreenInv /\ ColourInv /\ T!Init
    BY InitShows
  <1>2. IInv /\ (ScreenInv /\ ColourInv) /\ [Next]_vars => (ScreenInv /\ ColourInv)'
    BY StepShows DEF TInv
  <1>3. IInv /\ (ScreenInv /\ ColourInv) /\ [Next]_vars => [T!Next]_T!vars
    BY StepShows DEF TInv
  <1> QED
    BY <1>1, <1>2, <1>3, Inductive, PTL DEF Spec, ImplementsTerminal, T!Spec
=============================================================================
