SPECIFICATION Spec
CONSTANTS
    Core = {c1, c2}
    Nobody = Nobody
    Glyph = {"a", "b", "c"}
    Colour = {"grey", "green"}
    Messages <- MCMessages
    Width = 14
    Height = 6
    FontWidth = 2
    FontHeight = 3
    Offset = 5
    MaxPrints = 4
INVARIANTS
    TypeOK
    GlyphsInsideWidth
PROPERTY
    ImplementsTerminal
CHECK_DEADLOCK FALSE
