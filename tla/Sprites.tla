------------------------------ MODULE Sprites ------------------------------
(***************************************************************************)
(* The sprites of the LCD controller. The list of the sprites of a line is *)
(* made at the line's first dot; they are drawn from OAM as it is when     *)
(* their dots come, and a transfer, a write to OAM, LY or LCDC may come in *)
(* between. OAM is a function of the page each byte came from.             *)
(***************************************************************************)
EXTENDS LCD, FiniteSets, SequencesExt

CONSTANTS
    MaxSprites,     \* sprites in a line (10)
    Rows, Cols,     \* rows and columns of a tile (8, 8)
    ByteMod,        \* values of a byte (2^8)
    Image,          \* [page -> [offset -> value]]: what OAM gets from a page
    Opaque          \* the dots <<tile, row, column>> of VRAM that are not 0

ASSUME EntryAssumption == OamSize % 4 = 0
ASSUME TileAssumption ==
    /\ MaxSprites \in Nat /\ Rows \in Nat \ {0} /\ Cols \in Nat \ {0}
    /\ ByteMod \in Nat \ {0} /\ ByteMod % (2 * Rows) = 0 /\ ByteMod % Cols = 0

VARIABLES
    tall,           \* LCDC bit 2: sprites of two tiles
    line_sprites,   \* line_sprites_, n_line_sprites_ of them
    fresh           \* history: nothing has changed since the list was made

spriteVars == <<vars, tall, line_sprites, fresh>>

Entries == 0 .. (OamSize \div 4) - 1
None == -1

\* Coordinates and tiles are bytes.
ASSUME ImageAssumption ==
    \A p \in Pages \cup {"cpu"}, n \in Entries, k \in 0 .. 2 :
        Image[p][4 * n + k] \in 0 .. ByteMod - 1

\* The bytes of an entry, of OAM as o has it; flags is the set of those that are set.
YByte(o, n) == Image[o[4 * n]][4 * n]
XByte(o, n) == Image[o[4 * n + 1]][4 * n + 1]
TileByte(o, n) == Image[o[4 * n + 2]][4 * n + 2]
Attributes(o, n) == Image[o[4 * n + 3]][4 * n + 3]

Height == IF tall THEN 2 * Rows ELSE Rows

\* An entry counts from above the screen and from the left of it.
Top(o, n) == YByte(o, n) - 2 * Rows
Origin(o, n) == XByte(o, n) - Cols

OnLine(o, n) == Top(o, n) <= ly /\ ly < Top(o, n) + Height

First(S) == {n \in S : Cardinality({m \in S : m < n}) < MaxSprites}

\* Mutant: by the coordinate alone, the later entry first.
BeforeLater(o, m, n) == \/ Origin(o, m) < Origin(o, n)
                        \/ Origin(o, m) = Origin(o, n) /\ m > n

Before(o, m, n) == \/ Origin(o, m) < Origin(o, n)
                   \/ Origin(o, m) = Origin(o, n) /\ m < n

\* Sorted: each of them has the place of those that are before it, plus one.
DetermineLineSprites(o) ==
    LET found == First({n \in Entries : OnLine(o, n)})
    IN  [i \in 1 .. Cardinality(found) |->
            CHOOSE n \in found : Cardinality({m \in found : Before(o, m, n)}) = i - 1]

-----------------------------------------------------------------------------
(* RenderSpriteDot: the sprite that gives the dot at a column, or None *)

\* The row of the sprite: a byte, of which the low bits are flipped.
Row(o, n) == LET y == (ly - YByte(o, n)) % ByteMod
             IN  IF "yflip" \in Attributes(o, n) THEN (Height - 1) - (y % Height)
                 ELSE y % Height

Column(o, n, col) == LET x == (col - XByte(o, n)) % ByteMod
                     IN  IF "xflip" \in Attributes(o, n) THEN (Cols - 1) - (x % Cols)
                         ELSE x % Cols

\* A tall sprite has an even tile above and the next one below.
Tile(o, n) == LET t == TileByte(o, n)
              IN  IF tall THEN (t - (t % 2)) + ((Row(o, n) \div Rows) % 2) ELSE t

ShowsAt(o, n, col, covered) ==
    /\ Origin(o, n) <= col /\ col < Origin(o, n) + Cols
    /\ ~ (covered /\ "behind" \in Attributes(o, n))
    /\ <<Tile(o, n), Row(o, n) % Rows, Column(o, n, col)>> \in Opaque

\* objects is LCDC bit 1; covered is whether window or background have a dot other
\* than 0 there.
RenderSpriteDot(objects, col, covered) ==
    LET i == SelectInSeq(line_sprites, LAMBDA n : ShowsAt(oam, n, col, covered))
    IN  IF objects /\ i # 0 THEN line_sprites[i] ELSE None

-----------------------------------------------------------------------------

SpriteInit == Init /\ tall = FALSE /\ line_sprites = <<>> /\ fresh = FALSE

FirstDot == on /\ ly < Visible /\ dot' = 1

\* Mutant: the list is made once a frame.
SelectOnce == LET s == FirstDot /\ ly = 0
              IN  /\ line_sprites' = IF s THEN DetermineLineSprites(oam') ELSE line_sprites
                  /\ fresh' = (s \/ (fresh /\ oam' = oam /\ ly' = ly))

\* The transfer has copied the tick's byte when the list is made.
Select == /\ line_sprites' = IF FirstDot THEN DetermineLineSprites(oam') ELSE line_sprites
          /\ fresh' = (FirstDot \/ (fresh /\ oam' = oam /\ ly' = ly))

SpriteTick == Tick /\ Select /\ UNCHANGED tall

WriteTall == \E b \in BOOLEAN : WriteLCDC(b) /\ tall' = ~tall

SpriteWrite ==
    /\ \/ Write /\ UNCHANGED tall
       \/ Written("write") /\ WriteTall
    /\ UNCHANGED line_sprites
    /\ fresh' = (fresh /\ oam' = oam /\ ly' = ly /\ tall' = tall)

SpriteNext == SpriteTick \/ SpriteWrite

SpriteSpec == SpriteInit /\ [][SpriteNext]_spriteVars /\ WF_spriteVars(SpriteTick)

-----------------------------------------------------------------------------
(* Properties *)

\* What a line should show at a column: of the first ten entries in OAM that are
\* on the line, the foremost by x, then by address, that has a dot there; its row
\* and its column are those below and beside its corner, or mirrored.
Dot(n, col) ==
    LET row == IF "yflip" \in Attributes(oam, n) THEN Top(oam, n) + Height - 1 - ly
               ELSE ly - Top(oam, n)
        c == IF "xflip" \in Attributes(oam, n) THEN Origin(oam, n) + Cols - 1 - col
             ELSE col - Origin(oam, n)
        t == TileByte(oam, n)
        tile == IF ~tall THEN t ELSE IF row < Rows THEN t - (t % 2) ELSE (t - (t % 2)) + 1
    IN  c \in 0 .. Cols - 1 /\ <<tile, row % Rows, c>> \in Opaque

Foremost(col, covered) ==
    LET onLine == {n \in Entries : ly - Top(oam, n) \in 0 .. Height - 1}
        seen == {n \in onLine : /\ Cardinality({m \in onLine : m <= n}) <= MaxSprites
                                /\ Dot(n, col)
                                /\ ~ (covered /\ "behind" \in Attributes(oam, n))}
    IN  IF seen = {} THEN None
        ELSE CHOOSE n \in seen : \A m \in seen \ {n} :
                XByte(oam, n) < XByte(oam, m) \/ (XByte(oam, n) = XByte(oam, m) /\ n < m)

Drawing == ly < Visible /\ Search < dot /\ dot < DrawEnd

SpritesAreOams ==
    Drawing => \A covered \in BOOLEAN :
        RenderSpriteDot(TRUE, dot - Search, covered) = Foremost(dot - Search, covered)

\* The sprites drawn are those of OAM as it is, as long as OAM, LY and the height
\* have not changed since the first dot of the line, wherever a transfer or the
\* display's switch stopped before.
FreshSpritesAreOams == fresh => SpritesAreOams

\* A line that was drawn from a list gone stale is the last one: once the program
\* leaves the display alone, every dot is drawn from OAM as it is.
SpritesSettle == (<>[]on /\ <>[][SpriteTick]_spriteVars) => <>[]SpritesAreOams
=============================================================================
