------------------------------- MODULE Console -------------------------------
(***************************************************************************)
(* The log: printk() (lib/printk.c) under printf_lock, and the terminal on *)
(* the frame buffer that draws what it prints (generic/shrimp/shrimp.c).   *)
(* All cores print.                                                        *)
(*                                                                         *)
(* A message is a sequence of characters and escapes: a glyph, "space",    *)
(* "tab", "newline", a colour or "reset".  The screen is a set of cells    *)
(* <<row, column, character, colour>>; what lies below a glyph stays.      *)
(***************************************************************************)
EXTENDS Integers, Sequences, FiniteSets

CONSTANTS
    Core,
    Glyph, Colour,
    Messages,               \* what printk() is called with, formatted
    Width, Height,          \* of the context, in pixels
    FontWidth, FontHeight,
    Offset,                 \* FBTERM_OFFSET: a margin in pixels, and in columns
    MaxPrints,              \* bound: calls of printk()
    Nobody

Escape == Colour \cup {"reset"}

\* "The terminal expects exactly 8 characters right after" an escape, and then
\* the kernel's messages go on with a character.
ASSUME ConsoleAssumption ==
    /\ Width \in Nat /\ Height \in Nat /\ Offset \in Nat /\ MaxPrints \in Nat
    /\ FontWidth >= 2 /\ FontWidth \in Nat /\ Offset >= 2
    /\ FontHeight \in Nat \ {0}
    /\ Width \div FontWidth >= Offset /\ Height >= FontHeight
    /\ Nobody \notin Core
    /\ "reset" \notin Colour /\ "foreground" \notin Escape
    /\ Escape \cap (Glyph \cup {"space", "tab", "newline"}) = {}
    /\ Messages \subseteq Seq(Glyph \cup {"space", "tab", "newline"} \cup Escape)
    /\ \A m \in Messages : \A i \in 1..Len(m) :
          m[i] \in Escape => i < Len(m) /\ m[i + 1] \notin Escape

VARIABLES
    printf_lock,     \* the core that holds it, or Nobody
    screen,
    shrimp_x, shrimp_y,
    impl_newln,      \* characters since the line was broken, roughly
    saved_index,     \* where ansi_parse() goes on
    pc,              \* of each core in shrimp_update()
    str, j, color, newline, \* its locals
    prints           \* calls of printk() so far

locals == <<pc, str, j, color, newline>>
vars == <<printf_lock, screen, shrimp_x, shrimp_y, impl_newln, saved_index, locals, prints>>

Rows == Height \div FontHeight
Limit == (Width \div FontWidth) - Offset

Init ==
    /\ printf_lock = Nobody
    /\ screen = {} /\ shrimp_x = 0 /\ shrimp_y = 0
    /\ impl_newln = 0 /\ saved_index = 0
    /\ pc = [c \in Core |-> "idle"]
    /\ str = [c \in Core |-> <<>>] /\ j = [c \in Core |-> 1]
    /\ color = [c \in Core |-> "foreground"] /\ newline = [c \in Core |-> FALSE]
    /\ prints = 0

Goto(c, l) == pc' = [pc EXCEPT ![c] = l]
Advance(c) == j' = [j EXCEPT ![c] = @ + 1]

-----------------------------------------------------------------------------
(* printk()                                                                *)

\* printk() that does not wait for the lock.
PrintkNoLock(c) ==
    /\ pc[c] = "idle" /\ prints < MaxPrints
    /\ printf_lock' = c
    /\ \E m \in Messages : str' = [str EXCEPT ![c] = m]
    /\ j' = [j EXCEPT ![c] = 1]
    /\ color' = [color EXCEPT ![c] = "foreground"]
    /\ newline' = [newline EXCEPT ![c] = FALSE]
    /\ prints' = prints + 1
    /\ Goto(c, "loop")
    /\ UNCHANGED <<screen, shrimp_x, shrimp_y, impl_newln, saved_index>>

Printk(c) ==
    /\ pc[c] = "idle" /\ printf_lock = Nobody /\ prints < MaxPrints
    /\ printf_lock' = c
    /\ \E m \in Messages : str' = [str EXCEPT ![c] = m]
    /\ j' = [j EXCEPT ![c] = 1]
    /\ color' = [color EXCEPT ![c] = "foreground"]
    /\ newline' = [newline EXCEPT ![c] = FALSE]
    /\ prints' = prints + 1
    /\ Goto(c, "loop")
    /\ UNCHANGED <<screen, shrimp_x, shrimp_y, impl_newln, saved_index>>

\* The end of the string resets ansi_parse() and releases the lock.
PrintkEnds(c) ==
    /\ pc[c] = "loop" /\ j[c] > Len(str[c])
    /\ saved_index' = 0
    /\ printf_lock' = Nobody
    /\ str' = [str EXCEPT ![c] = <<>>]
    /\ Goto(c, "idle")
    /\ UNCHANGED <<screen, shrimp_x, shrimp_y, impl_newln, j, color, newline, prints>>

-----------------------------------------------------------------------------
(* shrimp_update(): one turn of its loop is Parse, Break and PutChar       *)

\* ansi_parse() takes the first escape from where it left off.  A reset leaves
\* that place as it is.
AnsiParse(c) ==
    LET found == {i \in (saved_index + 1)..Len(str[c]) : str[c][i] \in Escape}
        first == CHOOSE i \in found : \A k \in found : i <= k
    IN  IF found = {} THEN UNCHANGED <<color, saved_index>>
        ELSE IF str[c][first] = "reset"
        THEN color' = [color EXCEPT ![c] = "foreground"] /\ UNCHANGED saved_index
        ELSE color' = [color EXCEPT ![c] = str[c][first]] /\ saved_index' = first

\* An escape is skipped, and what follows it is not looked at for another one.
Parse(c) ==
    /\ pc[c] = "loop" /\ j[c] <= Len(str[c])
    /\ IF str[c][j[c]] \in Escape THEN AnsiParse(c) /\ Advance(c)
       ELSE UNCHANGED <<j, color, saved_index>>
    /\ Goto(c, "break")
    /\ UNCHANGED <<printf_lock, screen, shrimp_x, shrimp_y, impl_newln, str, newline, prints>>

\* shrimp_putc('\n'), with y one row too far for the last one.
NewLineLate ==
    /\ shrimp_x' = 0
    /\ IF shrimp_y + 1 > Rows
       THEN /\ shrimp_y' = Rows - 1
            /\ screen' = {<<x[1] - 1, x[2], x[3], x[4]>> : x \in {z \in screen : z[1] > 0}}
       ELSE /\ shrimp_y' = shrimp_y + 1 /\ UNCHANGED screen

\* shrimp_putc('\n'): the next row, or the last one after everything has moved
\* up by one.
NewLine ==
    /\ shrimp_x' = 0
    /\ IF shrimp_y + 1 >= Rows
       THEN /\ shrimp_y' = Rows - 1
            /\ screen' = {<<x[1] - 1, x[2], x[3], x[4]>> : x \in {z \in screen : z[1] > 0}}
       ELSE /\ shrimp_y' = shrimp_y + 1 /\ UNCHANGED screen

\* shrimp_update() that counts without the margin.
BreakLate(c) ==
    /\ pc[c] = "break"
    /\ IF impl_newln > Limit + Offset /\ str[c][j[c]] # "newline"
       THEN NewLine /\ impl_newln' = 0 /\ newline' = [newline EXCEPT ![c] = TRUE]
       ELSE UNCHANGED <<screen, shrimp_x, shrimp_y, impl_newln, newline>>
    /\ Goto(c, "put")
    /\ UNCHANGED <<printf_lock, saved_index, str, j, color, prints>>

\* "Go to next line when this line is filled up".
Break(c) ==
    /\ pc[c] = "break"
    /\ IF impl_newln > Limit /\ str[c][j[c]] # "newline"
       THEN NewLine /\ impl_newln' = 0 /\ newline' = [newline EXCEPT ![c] = TRUE]
       ELSE UNCHANGED <<screen, shrimp_x, shrimp_y, impl_newln, newline>>
    /\ Goto(c, "put")
    /\ UNCHANGED <<printf_lock, saved_index, str, j, color, prints>>

\* "Skip space after newline", also after an implicit one.
Skipped(c) ==
    /\ j[c] > 1 /\ str[c][j[c]] = "space"
    /\ newline[c] \/ str[c][j[c] - 1] = "newline"

PutChar(c) ==
    LET a == str[c][j[c]] IN
    /\ pc[c] = "put"
    /\ IF Skipped(c) THEN UNCHANGED <<screen, shrimp_x, shrimp_y, impl_newln>>
       ELSE IF a = "newline" THEN NewLine /\ impl_newln' = 1
       ELSE /\ impl_newln' = impl_newln + 1
            /\ IF a = "tab" THEN UNCHANGED <<screen, shrimp_x>>
               ELSE /\ screen' = screen \cup {<<shrimp_y, shrimp_x, a, color[c]>>}
                    /\ shrimp_x' = shrimp_x + 1
            /\ UNCHANGED shrimp_y
    /\ newline' = [newline EXCEPT ![c] = FALSE]
    /\ Advance(c) /\ Goto(c, "loop")
    /\ UNCHANGED <<printf_lock, saved_index, str, color, prints>>

Next ==
    \E c \in Core : Printk(c) \/ Parse(c) \/ Break(c) \/ PutChar(c) \/ PrintkEnds(c)

Spec == Init /\ [][Next]_vars

-----------------------------------------------------------------------------
(* Properties                                                              *)

TypeOK ==
    /\ printf_lock \in Core \cup {Nobody}
    /\ \A x \in screen : x \in (0..(Rows - 1)) \X Nat \X (Glyph \cup {"space"})
                                \X (Colour \cup {"foreground"})
    /\ shrimp_x \in Nat /\ shrimp_y \in 0..(Rows - 1)
    /\ impl_newln \in Nat /\ saved_index \in Nat
    /\ pc \in [Core -> {"idle", "loop", "break", "put"}]
    /\ str \in [Core -> Messages \cup {<<>>}] /\ j \in [Core -> Nat \ {0}]
    /\ color \in [Core -> Colour \cup {"foreground"}]
    /\ newline \in [Core -> BOOLEAN]
    /\ prints \in 0..MaxPrints

\* lfb_set_pixel() draws nothing beyond the width: no glyph is put there, on
\* which core, after which message and how many characters ever.
GlyphsInsideWidth == \A x \in screen : Offset + (x[2] + 1) * FontWidth <= Width

\* The characters of a message with their colours: the last escape before a
\* character, or the foreground.
Coloured(m) ==
    [i \in 1..Len(m) |->
        LET before == {k \in 1..(i - 1) : m[k] \in Escape}
            last == CHOOSE k \in before : \A l \in before : l <= k
            IN  <<m[i], IF before = {} \/ m[last] = "reset" THEN "foreground" ELSE m[last]>>]

\* The text of m from a character on.
TextFrom(m, from) ==
    LET text[k \in 0..Len(m)] ==   \* the last k characters
            LET i == Len(m) + 1 - k IN
            IF k = 0 THEN <<>>
            ELSE IF m[i] \in Escape THEN text[k - 1] ELSE <<Coloured(m)[i]>> \o text[k - 1]
    IN  text[Len(m) + 1 - from]

\* What is missing of the message that is being printed.
Rest ==
    LET printing == {c \in Core : pc[c] # "idle"} IN
    IF printing = {} THEN <<>> ELSE LET c == CHOOSE c \in printing : TRUE IN TextFrom(str[c], j[c])

\* A row, from its cells by their columns.
Line(y) ==
    LET cells == {x \in screen : x[1] = y} IN
    [i \in 1..Cardinality(cells) |->
        LET x == CHOOSE x \in cells : x[2] = i - 1
        IN  <<x[3], x[4]>>]

T == INSTANCE Terminal WITH
    Texts <- {TextFrom(m, 1) : m \in Messages},
    lines <- [i \in 1..(shrimp_y + 1) |-> Line(i - 1)],
    rest <- Rest

\* printk(), shrimp_print(): the cores' messages appear whole, in their colours,
\* and only whole lines scroll out.
ImplementsTerminal == T!Spec

\* lfb_set_pixel(): the pixels of a glyph lie in the frame buffer; those below
\* the row after the last one are not drawn at all.
GlyphsInsideHeight == \A x \in screen : Offset + (x[1] + 1) * FontHeight <= Height
=============================================================================
