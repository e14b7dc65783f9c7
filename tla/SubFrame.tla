------------------------------ MODULE SubFrame ------------------------------
(***************************************************************************)
(* SubFrame: the images libass renders for a frame, the glyphs with their  *)
(* borders and shadows, are flattened into one bitmap with premultiplied   *)
(* alpha, the rows of an image in parallel.                                *)
(*                                                                         *)
(* The three colours of a pixel are computed alike, so there is one here.  *)
(***************************************************************************)
EXTENDS Integers, Sequences

CONSTANT Frames  \* the lists of images, see ASS_Image

Bytes == 0 .. 255

\* A bitmap ends with the last pixel of the last row.
BitmapSize(image) ==
  IF image.h = 0 \/ image.w = 0 THEN 0 ELSE image.stride * (image.h - 1) + image.w

IsImage(image) ==
  /\ {image.x, image.y} \subseteq Int
  /\ {image.w, image.h} \subseteq Nat
  /\ image.stride \in Nat /\ image.stride >= image.w
  /\ image.colour \in Bytes /\ image.transparency \in Bytes
  /\ image.bitmap \in [0 .. BitmapSize(image) - 1 -> Bytes]

ASSUME FramesAssumption ==
  \A images \in Frames : images \in Seq({images[i] : i \in DOMAIN images})
                         /\ \A i \in DOMAIN images : IsImage(images[i])

VARIABLES
  images,  \* the images, in the order they are drawn
  rect,    \* m_pixelsRect
  pixels,  \* m_pixels
  n,       \* the image the loop is at
  column,  \* for every row of that image, the pixels that are done
  stage    \* "bounds": the first loop, "blend": the second, "done"

vars == <<images, rect, pixels, n, column, stage>>

Clear == [a |-> 0, c |-> 0]

Rect(l, t, r, b) == [left |-> l, top |-> t, right |-> r, bottom |-> b]

Init ==
  /\ images \in Frames
  /\ rect = Rect(0, 0, 0, 0)
  /\ pixels = <<>>
  /\ n = 1
  /\ column = <<>>
  /\ stage = IF images = <<>> THEN "done" ELSE "bounds"

-----------------------------------------------------------------------------
(* The bitmap holds all images.                                            *)

Least(i, j) == IF i < j THEN i ELSE j
Greatest(i, j) == IF i > j THEN i ELSE j

IsEmpty(r) == r.left >= r.right \/ r.top >= r.bottom

\* UnionRect ignores an empty rectangle.
UnionRect(r, s) ==
  CASE IsEmpty(r) /\ IsEmpty(s) -> Rect(0, 0, 0, 0)
    [] IsEmpty(r) /\ ~IsEmpty(s) -> s
    [] ~IsEmpty(r) /\ IsEmpty(s) -> r
    [] OTHER -> Rect(Least(r.left, s.left), Least(r.top, s.top),
                     Greatest(r.right, s.right), Greatest(r.bottom, s.bottom))

RectOf(image) == Rect(image.x, image.y, image.x + image.w, image.y + image.h)

Bounds ==
  /\ stage = "bounds"
  /\ n <= Len(images)
  /\ rect' = UnionRect(rect, RectOf(images[n]))
  /\ n' = n + 1
  /\ UNCHANGED <<images, pixels, column, stage>>

Width == rect.right - rect.left
Height == rect.bottom - rect.top

NoColumns(image) == [y \in 0 .. image.h - 1 |-> 0]

Allocate ==
  /\ stage = "bounds"
  /\ n > Len(images)
  /\ pixels' = [i \in 0 .. Width * Height - 1 |-> Clear]
  /\ n' = 1
  /\ column' = NoColumns(images[1])
  /\ stage' = "blend"
  /\ UNCHANGED <<images, rect>>

-----------------------------------------------------------------------------
(* Drawing.                                                                *)

DestFromZero(image, x, y) == (image.y + y) * Width + image.x + x

DestInImage(image, x, y) ==
  (image.y + y - rect.top) * image.w + (image.x + x - rect.left)

\* The pixel of the bitmap for a pixel of an image.
Dest(image, x, y) == (image.y + y - rect.top) * Width + (image.x + x - rect.left)

SrcA(image, x, y) ==
  (image.bitmap[y * image.stride + x] * (255 - image.transparency)) \div 256

BlendStraight(dest, srcA, colour) ==
  LET compA == 255 - srcA
  IN [a |-> (srcA + (dest.a * compA) \div 256) % 256,
      c |-> ((colour * 255 + dest.c * compA) % 65536) \div 256]

\* The words are of 32 bits: alpha is shifted to the top, and a colour at the third
\* byte is a sum of products of at most 16 bits above 16 others.
Blend(dest, srcA, colour) ==
  LET compA == 255 - srcA
  IN [a |-> (srcA + (dest.a * compA) \div 256) % 256,
      c |-> ((colour * srcA + dest.c * compA) % 65536) \div 256]

\* A worker goes on with its row.
Pixel(y) ==
  LET image == images[n]
      x == column[y]
      d == Dest(image, x, y)
  IN /\ stage = "blend"
     /\ x < image.w
     /\ pixels' = [pixels EXCEPT ![d] = Blend(@, SrcA(image, x, y), image.colour)]
     /\ column' = [column EXCEPT ![y] = x + 1]
     /\ UNCHANGED <<images, rect, n, stage>>

\* parallel_for returns when all rows are done.
NextImage ==
  /\ stage = "blend"
  /\ \A y \in DOMAIN column : column[y] = images[n].w
  /\ n' = n + 1
  /\ IF n = Len(images)
     THEN stage' = "done" /\ column' = <<>>
     ELSE stage' = stage /\ column' = NoColumns(images[n + 1])
  /\ UNCHANGED <<images, rect, pixels>>

Next ==
  \/ Bounds
  \/ Allocate
  \/ \E y \in DOMAIN column : Pixel(y)
  \/ NextImage

Spec == Init /\ [][Next]_vars

\* GetBitmap: the pixel a consumer finds for a place on the screen, by position, size
\* and pitch.
Shown(x, y) == pixels[(y - rect.top) * Width + (x - rect.left)]

-----------------------------------------------------------------------------
(* Properties.                                                             *)

\* No colour of a pixel exceeds its alpha and neither exceeds a byte, however many
\* images lie over one another: a consumer that adds the video shining through,
\* colour + video * (255 - alpha), never overflows (SubFrame.cpp:118-136).
Premultiplied == \A i \in DOMAIN pixels : pixels[i].c <= pixels[i].a /\ pixels[i].a <= 255

\* The workers that draw the rows of an image never meet at a pixel, and stay within
\* the bitmap, whose place is the least rectangle around all images
\* (SubFrame.cpp:98-116).
WorkersApart ==
  stage = "blend" =>
    LET image == images[n]
        Working == {y \in DOMAIN column : column[y] < image.w}
        at(y) == Dest(image, column[y], y)
    IN /\ \A y \in Working : at(y) \in DOMAIN pixels
       /\ \A y, z \in Working : at(y) = at(z) => y = z

\* The image's own pixel for a place on the screen, drawn over what is below it.
Over(below, image, x, y) ==
  IF x - image.x \in 0 .. image.w - 1 /\ y - image.y \in 0 .. image.h - 1
  THEN Blend(below, SrcA(image, x - image.x, y - image.y), image.colour)
  ELSE below

\* A pixel as the first i images make it, for every i.
Layers(frame, x, y) ==
  LET layer[i \in 0 .. Len(frame)] ==
        IF i = 0 THEN Clear ELSE Over(layer[i - 1], frame[i], x, y)
  IN layer

\* What the consumer is shown at every place is the images there, the later over the
\* earlier, in whatever order the rows were drawn; there is no image outside.
PictureIsLayered ==
  stage = "done" /\ images # <<>> =>
    /\ \A x \in rect.left .. rect.right - 1, y \in rect.top .. rect.bottom - 1 :
         Shown(x, y) = Layers(images, x, y)[Len(images)]
    /\ \A i \in DOMAIN images : UnionRect(rect, RectOf(images[i])) = rect

=============================================================================
