-------------------------------- MODULE Canvas --------------------------------
(***************************************************************************)
(* The console's first picture (console.cpp, image.c, gterm.c): the        *)
(* firmware's boot picture, if there is one, is centered in the frame      *)
(* buffer behind the text, whose cells are laid over it.                   *)
(*                                                                         *)
(* A frame is what the boot loader reports: its size, and the pixels from  *)
(* one line to the next.  A picture is a BMP file in memory: whether it is *)
(* one that bmp_open_image() takes, its size and its bits per pixel.  The  *)
(* colour of one of its pixels is that pixel's place, counted from above.  *)
(***************************************************************************)
EXTENDS Integers, Sequences, SequencesExt

CONSTANTS Frames,      \* the frames that may be reported
          Margin, Gradient,       \* style.margin, style.margin_gradient
          GlyphWidth, GlyphHeight \* of a cell, with the spacing

ASSUME CanvasAssumption ==
  /\ {Margin, Gradient} \subseteq Nat /\ {GlyphWidth, GlyphHeight} \subseteq Nat \ {0}
  /\ \A f \in Frames : /\ {f.width, f.height, f.pitch} \subseteq Nat
                       /\ f.width >= 2 * Margin + GlyphWidth
                       /\ f.height >= 2 * Margin + GlyphHeight
                       /\ f.pitch >= f.width

VARIABLES frame,      \* what was reported, NoFrame if nothing was
          bg_canvas,  \* what is behind the text: width * height pixels
          framebuffer \* the pixels in memory

canvasVars == <<frame, bg_canvas, framebuffer>>

NoFrame == [width |-> 0, height |-> 0, pitch |-> 0]
NoPicture == [bmp |-> FALSE, width |-> 0, height |-> 0, bpp |-> 0]

BmpPictures == [bmp : {TRUE}, width : Nat \ {0}, height : Nat \ {0}, bpp : {24, 32}]

\* Colours that are no pixel of a picture.
Old == <<"left by the boot loader">>
Outside == <<"read outside the picture">>
Back == <<"back_colour">>
DefaultBg == <<"default_bg">>
DefaultFg == <<"default_fg">>

CanvasInit == /\ frame \in Frames \cup {NoFrame}
              /\ bg_canvas = <<>>
              /\ framebuffer = [i \in 0 .. (frame.pitch * frame.height - 1) |-> Old]

(***************************************************************************)
(* The picture                                                             *)
(***************************************************************************)

\* A BMP file has its lowest line first, each filled up to four bytes.
LineBytes(picture) == ((picture.width * picture.bpp + 31) \div 32) * 4

\* What lies at an offset into the pixels of the file.
At(picture, offset) ==
  LET line == offset \div LineBytes(picture)
      column == (offset % LineBytes(picture)) \div (picture.bpp \div 8)
  IN  IF /\ offset >= 0 /\ line < picture.height /\ column < picture.width
         /\ (offset % LineBytes(picture)) % (picture.bpp \div 8) = 0
      THEN <<column, picture.height - 1 - line>> ELSE Outside

\* Mutant: the lines are not filled up.
MutOpened(picture) == [width |-> picture.width, height |-> picture.height,
                       colsize |-> picture.bpp \div 8, pitch |-> (picture.width * picture.bpp) \div 8]

\* bmp_open_image(): pitch is the line's bits, aligned to 32, in bytes.
Opened(picture) == [width |-> picture.width, height |-> picture.height,
                    colsize |-> picture.bpp \div 8,
                    pitch |-> (((picture.width * picture.bpp + 31) \div 32) * 32) \div 8]

\* image_make_centered(): differences of unsigned numbers, which wrap around.
x_displacement(img) == frame.width \div 2 - img.width \div 2
y_displacement(img) == frame.height \div 2 - img.height \div 2

\* genloop(), the case CENTERED: what is drawn at x, y before it is blended.  A
\* place left of or above the picture is a huge number after the wrap.  (The
\* picture is read before x_external is looked at; what was read is not used.)
Centered(picture, x, y) ==
  LET img == Opened(picture)
      image_x == x - x_displacement(img)
      image_y == y - y_displacement(img)
      off == img.pitch * (img.height - 1 - image_y)
  IN  IF image_y \notin 0 .. (img.height - 1) \/ image_x \notin 0 .. (img.width - 1) THEN Back
      ELSE At(picture, image_x * img.colsize + off)

(***************************************************************************)
(* The regions of generate_canvas(), in the order they are drawn           *)
(***************************************************************************)
Region(xstart, xend, ystart, yend, blend) ==
  [xstart |-> xstart, xend |-> xend, ystart |-> ystart, yend |-> yend, blend |-> blend]

Regions(width, height) ==
  LET plain == IF Margin > Gradient THEN Margin - Gradient ELSE 0 \* margin_no_gradient
      scan_stop_x == width - plain
      scan_stop_y == height - plain
      gradient_stop_x == width - Margin
      gradient_stop_y == height - Margin
  IN  <<Region(0, width, 0, plain, "external"),
        Region(0, width, scan_stop_y, height, "external"),
        Region(0, plain, plain, scan_stop_y, "external"),
        Region(scan_stop_x, width, plain, scan_stop_y, "external")>>
      \o (IF Gradient = 0 THEN <<>>
          ELSE <<Region(plain, scan_stop_x, plain, Margin, "margin"),
                 Region(plain, scan_stop_x, gradient_stop_y, scan_stop_y, "margin"),
                 Region(plain, Margin, Margin, gradient_stop_y, "margin"),
                 Region(gradient_stop_x, scan_stop_x, Margin, gradient_stop_y, "margin")>>)
      \o <<Region(Margin, gradient_stop_x, Margin, gradient_stop_y, "internal")>>

InRegion(r, x, y) == r.xstart <= x /\ x < r.xend /\ r.ystart <= y /\ y < r.yend

\* What the loops leave in the canvas: the last that reaches a pixel wins.
Drawn(picture, x, y) ==
  IF picture = NoPicture THEN [colour |-> DefaultBg, blend |-> "external"]
  ELSE LET regions == Regions(frame.width, frame.height)
           last == Max({ k \in DOMAIN regions : InRegion(regions[k], x, y) })
       IN  [colour |-> Centered(picture, x, y), blend |-> regions[last].blend]

(***************************************************************************)
(* The cells                                                               *)
(***************************************************************************)
Cols == (frame.width - Margin * 2) \div GlyphWidth
Rows == (frame.height - Margin * 2) \div GlyphHeight
offset_x == Margin + ((frame.width - Margin * 2) % GlyphWidth) \div 2
offset_y == Margin + ((frame.height - Margin * 2) % GlyphHeight) \div 2

\* The pixels that plot_char() writes for a cell: the glyph's and the spacing.
Plotted(col, row) == ((offset_x + col * GlyphWidth) .. (offset_x + (col + 1) * GlyphWidth - 1))
                     \X ((offset_y + row * GlyphHeight) .. (offset_y + (row + 1) * GlyphHeight - 1))

\* console::init(): the canvas is drawn, also into the frame buffer; then every
\* cell is cleared, which plots what is behind it, and the cursor is plotted.
ConsoleInit(picture) ==
  LET W == frame.width
  IN  /\ bg_canvas' = [i \in 0 .. (W * frame.height - 1) |-> Drawn(picture, i % W, i \div W)]
      /\ framebuffer' = [i \in DOMAIN framebuffer |->
                           LET x == i % frame.pitch
                               y == i \div frame.pitch
                           IN  CASE x >= W -> framebuffer[i]
                                 [] <<x, y>> \in Plotted(0, 0) -> [colour |-> DefaultFg, blend |-> "external"]
                                 [] OTHER -> bg_canvas'[x + W * y]]
      /\ UNCHANGED frame

(***************************************************************************)
(* Properties                                                              *)
(***************************************************************************)

\* A pixel of the frame buffer, and the place of a pixel of the picture in it.
Shown(x, y) == framebuffer[x + frame.pitch * y]
Centre(picture, p) == <<frame.width \div 2 - picture.width \div 2 + p[1],
                        frame.height \div 2 - picture.height \div 2 + p[2]>>

\* The frame buffer shows the picture with its centre in that of the frame, cut
\* off at the edges, its pixels where they are in the picture; around it is the
\* back colour, and over it the cursor, in the first cell.  All of it is
\* darkened but what the style calls the margin, and what follows a line in
\* memory is left alone (console.cpp:77-95, image.c:18-59, gterm.c:137-260).
Shows(picture) ==
  LET inPicture == (0 .. (picture.width - 1)) \X (0 .. (picture.height - 1))
  IN  /\ \A x \in 0 .. (frame.width - 1), y \in 0 .. (frame.height - 1) :
           IF x \in offset_x .. (offset_x + GlyphWidth - 1) /\ y \in offset_y .. (offset_y + GlyphHeight - 1)
           THEN Shown(x, y).colour = DefaultFg
           ELSE Shown(x, y) =
                  IF picture = NoPicture THEN [colour |-> DefaultBg, blend |-> "external"]
                  ELSE [colour |-> IF \E p \in inPicture : Centre(picture, p) = <<x, y>>
                                   THEN CHOOSE p \in inPicture : Centre(picture, p) = <<x, y>>
                                   ELSE Back,
                        blend |-> IF \A d \in {x, frame.width - 1 - x, y, frame.height - 1 - y} : d >= Margin
                                  THEN "internal"
                                  ELSE IF \A d \in {x, frame.width - 1 - x, y, frame.height - 1 - y} :
                                            d >= Margin - Gradient
                                  THEN "margin" ELSE "external"]
      /\ \A i \in DOMAIN framebuffer : i % frame.pitch >= frame.width => framebuffer[i] = Old
===============================================================================
