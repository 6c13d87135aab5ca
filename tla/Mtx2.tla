-------------------------------- MODULE Mtx2 --------------------------------
(***************************************************************************)
(* Block textures: the encoder of the asset tools (mtx2_codec.py) and the  *)
(* samplers of the renderer (raylib_lite_mtx2.c), which must agree on what *)
(* a block means.  A colour is one channel, so that the order of packed    *)
(* colours is that of the channel.  The endpoints of a block are any pair: *)
(* how the encoder looks for good ones (principal axis, refinement) is     *)
(* left out, and so are smaller levels and the table of frames.            *)
(***************************************************************************)
EXTENDS Integers, Sequences, FiniteSets, FiniteSetsExt

CONSTANTS
  Images,     \* [w, h, texel]: texel maps <<x, y>> to a colour or to None, transparent
  Ends,       \* endpoints the search may come to: <<first, second>>
  Lights,     \* light256 of a call
  One,        \* 1.0 in the fixed point of a span, 2^16
  Steps,      \* du and dv of a span
  Chunk,      \* CHUNK_BLOCKS
  None

VARIABLES
  image,      \* what was encoded
  file,       \* its blocks, row by row, and the header's flag
  texture,    \* what open made of the file, or None
  wrote,      \* texels the last call wrote: offset in the destination |-> colour
  meant       \* those it should have written

vars == <<image, file, texture, wrote, meant>>

Across(n) == (n + 3) \div 4

-----------------------------------------------------------------------------
(* The encoder.                                                            *)

(* palette565, which repeats the arithmetic of raylib_lite_mtx2_palette.   *)
Palette(c0, c1, punch) ==
  IF punch THEN <<c0, c1, (c0 + c1) \div 2, 0>>
           ELSE <<c0, c1, (2 * c0 + c1) \div 3, (c0 + 2 * c1) \div 3>>

\* _order: the decoder tells the two palettes apart by the order of the ends.
Ordered(e, punch) ==
  IF punch THEN <<Min({e[1], e[2]}), Max({e[1], e[2]})>>
           ELSE <<Max({e[1], e[2]}), Min({e[1], e[2]})>>

\* _assign: the first of the nearest colours; 3 is transparent in punch-through.
Distance(a, b) == (a - b) * (a - b)
Nearest(colour, palette, punch) ==
  IF colour = None THEN 3
  ELSE LET usable == 0 .. (IF punch THEN 2 ELSE 3)
           Off(i) == Distance(colour, palette[i + 1])
       IN Min({i \in usable : \A j \in usable : Off(i) <= Off(j)})

\* _to_blocks: the last row and column are repeated to fill a block.
Padded(picture, x, y) == picture.texel[<<Min({x, picture.w - 1}), Min({y, picture.h - 1})>>]

Encoded(picture, bx, by, ends) ==
  LET At(x, y) == Padded(picture, 4 * bx + x, 4 * by + y)
      punch == \E x, y \in 0 .. 3 : At(x, y) = None
      c == Ordered(ends, punch)
      Index(x, y) == Nearest(At(x, y), Palette(c[1], c[2], punch), punch)
  IN [c0 |-> c[1], c1 |-> c[2],
      \* packed_idx, a byte for each row of texels
      rows |-> [y \in 0 .. 3 |-> Index(0, y) + 4 * Index(1, y) + 16 * Index(2, y) + 64 * Index(3, y)]]

Opaque(picture) == \A p \in DOMAIN picture.texel : picture.texel[p] # None

Encode ==
  /\ file = None
  /\ LET bw == Across(image.w)
     IN \E ends \in [0 .. bw * Across(image.h) - 1 -> Ends], short \in BOOLEAN :
          file' = [w |-> image.w, h |-> image.h, opaque |-> Opaque(image), short |-> short,
                   blocks |-> [i \in DOMAIN ends |-> Encoded(image, i % bw, i \div bw, ends[i])]]
  /\ UNCHANGED <<image, texture, wrote, meant>>

(* raylib_lite_mtx2_open: a file without all blocks of the first level, or *)
(* whose header says so, is refused.                                       *)
Open ==
  /\ file # None /\ texture = None /\ ~file.short
  /\ texture' = [blocks |-> file.blocks, w |-> file.w, h |-> file.h, bw |-> Across(file.w),
                 punch |-> ~file.opaque]
  /\ UNCHANGED <<image, file, wrote, meant>>

-----------------------------------------------------------------------------
(* The samplers.                                                           *)

\* raylib_lite_rgb565_shade_pixel
Shade(colour, light) == (colour * light) \div 256

Block(bx, by) == texture.blocks[by * texture.bw + bx]
Punches(block) == block.c0 <= block.c1

(* raylib_lite_mtx2_palette: punch-through by the order of the ends.       *)
Lit(block, light) ==
  [i \in 0 .. 3 |-> Shade(Palette(block.c0, block.c1, Punches(block))[i + 1], light)]

\* Two bits of a row's byte.
Select(byte, x) == (byte \div (4 ^ (x % 4))) % 4

\* The texel at x, y under the palette of the block that is cached.  Where tests
\* says so, entry 3 of a block that punches through is left out.
Pixel(cached, light, x, y, tests) ==
  LET sel == Select(cached.rows[y % 4], x)
  IN IF tests /\ Punches(cached) /\ sel = 3 THEN None ELSE Lit(cached, light)[sel]

Clamped(n, size) == Max({0, Min({n, size - 1})})
Written(f) == [i \in {j \in DOMAIN f : f[j] # None} |-> f[i]]

\* Slip: the cache of a span only looks at the column of the block.
StaleRow(c, bx, by) == bx # c.bx
Misses(c, bx, by) == bx # c.bx \/ by # c.by

(* raylib_lite_mtx2_span with a v that varies: both coordinates are        *)
(* clamped, a block is unpacked when the one before it was another.        *)
Span(u, v, du, dv, count, light) ==
  LET X(i) == Clamped((u + i * du) \div One, texture.w)
      Y(i) == Clamped((v + i * dv) \div One, texture.h)
      Cache[i \in -1 .. count - 1] ==
        IF i = -1 THEN [bx |-> -1, by |-> -1, block |-> None]
        ELSE LET bx == X(i) \div 4
                 by == Y(i) \div 4
             IN IF Misses(Cache[i - 1], bx, by) THEN [bx |-> bx, by |-> by, block |-> Block(bx, by)]
                ELSE Cache[i - 1]
  IN Written([i \in 0 .. count - 1 |-> Pixel(Cache[i].block, light, X(i), Y(i), TRUE)])

(* raylib_lite_mtx2_span_constv: v is clamped, u is the caller's business. *)
(* An unscaled run over an opaque texture goes from block to block.        *)
SpanConstV(u, du, v, count, light) ==
  LET y == Clamped(v, texture.h)
      first == u \div One
      X(i) == (u + i * du) \div One
      Run(i) == LET block == Block((first + i) \div 4, y \div 4)
                IN Lit(block, light)[Select(block.rows[y % 4], first + i)]
  IN Written([i \in 0 .. count - 1 |->
                IF du = One /\ ~texture.punch THEN Run(i)
                ELSE Pixel(Block(X(i) \div 4, y \div 4), light, X(i), y, texture.punch)])

(* raylib_lite_mtx2_blit: as many blocks at a time as the scratch holds    *)
(* palettes of, each chunk from where the one before it ended.             *)
Blit(u0, v0, width, height, light) ==
  LET Sub(x) == (u0 + x) % 4
      Length(x) == IF (Sub(x) + width - x + 3) \div 4 > Chunk THEN 4 * Chunk - Sub(x) ELSE width - x
      Start[x \in 0 .. width - 1] ==
        IF x = 0 THEN 0
        ELSE IF x < Start[x - 1] + Length(Start[x - 1]) THEN Start[x - 1] ELSE x
      Out(x, y) ==
        LET from == Start[x]
            first == (u0 + from) \div 4
            b == (Sub(from) + x - from) \div 4
            block == Block(first + b, (v0 + y) \div 4)
        IN Lit(block, light)[Select(block.rows[(v0 + y) % 4], Sub(from) + x - from)]
  IN [p \in (0 .. width - 1) \X (0 .. height - 1) |-> Out(p[1], p[2])]

-----------------------------------------------------------------------------
(* What is meant by the texel x, y: the nearest colour that the encoder    *)
(* found for it, lit, or nothing.                                          *)
Texel(light, x, y) ==
  IF image.texel[<<x, y>>] = None THEN None
  ELSE LET block == file.blocks[(y \div 4) * Across(image.w) + x \div 4]
           inside == {<<4 * (x \div 4) + i, 4 * (y \div 4) + j>> : i, j \in 0 .. 3}
           punch == \E p \in inside : Padded(image, p[1], p[2]) = None
           palette == Palette(block.c0, block.c1, punch)
       IN Shade(palette[Nearest(image.texel[<<x, y>>], palette, punch) + 1], light)

Call(pixels, picture) ==
  /\ wrote = <<>> /\ meant = <<>>
  /\ wrote' = pixels /\ meant' = Written(picture)
  /\ UNCHANGED <<image, file, texture>>

DrawSpan ==
  \E u \in {-One, 1, 2 * One}, v \in {0, One, 3 * One + 1}, du \in Steps, dv \in Steps \ {0}, l \in Lights :
    Call(Span(u, v, du, dv, 5, l),
         [i \in 0 .. 4 |-> Texel(l, Clamped((u + i * du) \div One, image.w),
                                    Clamped((v + i * dv) \div One, image.h))])

\* u stays inside the texture for the whole run.
DrawRow ==
  \E u \in {0, 1, 2 * One}, du \in Steps, v \in -1 .. image.h, l \in Lights :
    /\ \A i \in 0 .. 2 : (u + i * du) \div One \in 0 .. image.w - 1
    /\ Call(SpanConstV(u, du, v, 3, l),
            [i \in 0 .. 2 |-> Texel(l, (u + i * du) \div One, Clamped(v, image.h))])

\* Opaque textures only; the source lies inside the texture.
DrawBlit ==
  /\ ~texture.punch
  /\ \E u0 \in 0 .. image.w - 1, v0 \in 0 .. image.h - 1, l \in Lights :
       LET w == image.w - u0
           h == image.h - v0
       IN Call(Blit(u0, v0, w, h, l),
               [p \in (0 .. w - 1) \X (0 .. h - 1) |-> Texel(l, u0 + p[1], v0 + p[2])])

Init == image \in Images /\ file = None /\ texture = None /\ wrote = <<>> /\ meant = <<>>

Next == Encode \/ Open \/ (texture # None /\ (DrawSpan \/ DrawRow \/ DrawBlit))

Spec == Init /\ [][Next]_vars
-----------------------------------------------------------------------------
(* Every sampler writes the colours the encoder settled on, lit, and       *)
(* leaves just the transparent texels alone: also where a flat block of an *)
(* opaque texture has equal ends, which the palette takes for a            *)
(* punch-through block.                                                    *)
SamplesWhatWasEncoded == wrote = meant
=============================================================================
