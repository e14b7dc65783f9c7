--------------------------- MODULE SubFrameProofs ---------------------------
(***************************************************************************)
(* Proofs about SubFrame, for every list of images: no colour of a pixel   *)
(* exceeds its alpha, the workers on the rows of an image never meet and   *)
(* stay within the bitmap, and the picture is the images in their order.   *)
(***************************************************************************)
EXTENDS SubFrame, FiniteSetTheorems, WellFoundedInduction, TLAPS

PixelSet == [a : Bytes, c : Bytes]

TypeInv ==
  /\ images \in Frames
  /\ rect \in [left : Int, top : Int, right : Int, bottom : Int]
  /\ n \in Nat \ {0}
  /\ stage \in {"bounds", "blend", "done"}
  /\ stage = "bounds" => images # <<>>
  /\ stage = "blend" =>
       /\ n \in 1 .. Len(images)
       /\ column \in [0 .. images[n].h - 1 -> 0 .. images[n].w]
       /\ DOMAIN pixels = 0 .. Width * Height - 1
  /\ pixels \in [DOMAIN pixels -> PixelSet]

\* The rectangle holds the images the first loop has passed, but for empty ones.
Holds(i) ==
  images[i].w > 0 /\ images[i].h > 0 =>
    /\ rect.left <= images[i].x /\ images[i].x + images[i].w <= rect.right
    /\ rect.top <= images[i].y /\ images[i].y + images[i].h <= rect.bottom

RectInv ==
  /\ \A i \in 1 .. Len(images) : stage # "bounds" \/ i < n => Holds(i)
  /\ IsEmpty(rect) => rect = Rect(0, 0, 0, 0)

FrameInv == TypeInv /\ RectInv /\ Premultiplied

-----------------------------------------------------------------------------
(* Arithmetic.                                                             *)

\* Multiplying keeps the order.
LEMMA Multiplied ==
  ASSUME NEW i \in Nat, NEW j \in Nat, NEW k \in Nat, i <= j
  PROVE  i * k <= j * k /\ k * i <= k * j /\ i * k \in Nat
<1>1. (j - i) * k >= 0 /\ (j - i) * k = j * k - i * k
  OBVIOUS
<1>2. i * k \in Int /\ j * k \in Int /\ k * i = i * k /\ k * j = j * k
  OBVIOUS
<1>3. i * k >= 0
  OBVIOUS
<1> QED
  BY <1>1, <1>2, <1>3

\* One image over a pixel: alpha stays in its byte and no colour gets above it.
LEMMA BlendKeepsOrder ==
  ASSUME NEW dest \in PixelSet, dest.c <= dest.a,
         NEW srcA \in 0 .. 254, NEW colour \in Bytes
  PROVE  /\ Blend(dest, srcA, colour) \in PixelSet
         /\ Blend(dest, srcA, colour).c <= Blend(dest, srcA, colour).a
<1> DEFINE comp == 255 - srcA
           under == dest.a * comp
           sum == colour * srcA + dest.c * comp
<1>1. comp \in 1 .. 255 /\ srcA \in Nat /\ comp \in Nat
  OBVIOUS
<1>2. dest.a \in Nat /\ dest.c \in Nat /\ colour \in Nat /\ dest.a <= 255 /\ colour <= 255
  BY DEF PixelSet, Bytes
<1>3. under <= 255 * comp /\ under \in Nat
  BY <1>1, <1>2, Multiplied
<1>4. dest.c * comp <= under /\ dest.c * comp \in Nat
  BY <1>1, <1>2, Multiplied
<1>5. colour * srcA <= 255 * srcA /\ colour * srcA \in Nat
  BY <1>1, <1>2, Multiplied
<1> HIDE DEF under, comp
<1> DEFINE kept == under \div 256
<1>6. kept \in Nat /\ kept < comp
  BY <1>1, <1>3
<1>7. srcA + comp = 255
  BY DEF comp
<1> HIDE DEF kept
<1>8. srcA + kept \in Bytes
  BY <1>1, <1>6, <1>7 DEF Bytes
<1>8a. (srcA + kept) % 256 = srcA + kept
  BY <1>8 DEF Bytes
<1>9. sum \in Nat /\ sum < 65536 /\ sum <= 256 * srcA + under
  BY <1>1, <1>3, <1>4, <1>5, <1>7
<1> HIDE DEF sum
<1>10. sum % 65536 = sum /\ sum \div 256 \in Nat /\ sum \div 256 <= srcA + kept
  BY <1>1, <1>3, <1>9 DEF kept
<1>11. Blend(dest, srcA, colour) = [a |-> srcA + kept, c |-> sum \div 256]
  BY <1>8a, <1>10 DEF Blend, under, sum, comp, kept
<1> QED
  BY <1>8, <1>10, <1>11 DEF PixelSet, Bytes

\* A place in a grid that is stored row by row.
LEMMA Grid ==
  ASSUME NEW width \in Nat, NEW height \in Nat,
         NEW r \in 0 .. height - 1, NEW s \in 0 .. height - 1,
         NEW c \in 0 .. width - 1, NEW d \in 0 .. width - 1
  PROVE  /\ r * width + c \in 0 .. width * height - 1
         /\ r * width + c = s * width + d => r = s
<1>1. ASSUME NEW i \in Nat, NEW j \in Nat, i < j
      PROVE  i * width + width <= j * width /\ i * width \in Nat /\ j * width \in Nat
  <2>1. (i + 1) * width <= j * width /\ i * width \in Nat /\ j * width \in Nat
    BY <1>1, Multiplied
  <2>2. (i + 1) * width = i * width + width
    BY <1>1
  <2> QED
    BY <2>1, <2>2
<1>2. r * width + width <= height * width /\ r * width \in Nat /\ height * width = width * height
  BY <1>1
<1>3. height * width \in Nat
  BY <1>2
<1>4. r < s => r * width + width <= s * width
  BY <1>1
<1>5. s < r => s * width + width <= r * width
  BY <1>1
<1>6. r * width \in Nat /\ s * width \in Nat
  BY Multiplied
<1> QED
  BY <1>2, <1>3, <1>4, <1>5, <1>6

LEMMA InBitmap ==
  ASSUME NEW w \in Nat, NEW h \in Nat, NEW stride \in Nat, w <= stride,
         NEW y \in 0 .. h - 1, NEW x \in 0 .. w - 1
  PROVE  y * stride + x \in 0 .. stride * (h - 1) + w - 1
<1>1. y \in Nat /\ h - 1 \in Nat /\ y <= h - 1
  OBVIOUS
<1>2. y * stride <= stride * (h - 1) /\ y * stride \in Nat
  <2>1. y * stride <= (h - 1) * stride /\ y * stride \in Nat
    BY <1>1, Multiplied
  <2>2. (h - 1) * stride = stride * (h - 1)
    BY <1>1
  <2> QED
    BY <2>1, <2>2
<1>3. stride * (h - 1) \in Int
  BY <1>1
<1> QED
  BY <1>2, <1>3

LEMMA Quotient ==
  ASSUME NEW product \in Nat, product < 255 * 256
  PROVE  product \div 256 \in Nat /\ product \div 256 < 255
OBVIOUS

LEMMA ProductOfBytes ==
  ASSUME NEW i \in Bytes, NEW j \in Bytes
  PROVE  (i * j) \div 256 \in 0 .. 254
<1>1. i \in Nat /\ j \in Nat /\ i <= 255 /\ j <= 255
  BY DEF Bytes
<1>2. i * j <= 255 * j /\ i * j \in Nat
  BY <1>1, Multiplied
<1>3. i * j \in Nat /\ i * j < 255 * 256
  BY <1>1, <1>2
<1>4. (i * j) \div 256 \in Nat /\ (i * j) \div 256 < 255
  BY <1>3, Quotient
<1> DEFINE q == (i * j) \div 256
<1>5. q \in Nat /\ q < 255
  BY <1>4
<1> HIDE DEF q
<1>6. q \in 0 .. 254
  BY <1>5
<1> QED
  BY <1>6 DEF q

\* A pixel of an image is within its bitmap, and alpha is never quite full: the
\* product is divided by 256, not by 255.
LEMMA SrcAlpha ==
  ASSUME NEW image, IsImage(image),
         NEW y \in 0 .. image.h - 1, NEW x \in 0 .. image.w - 1
  PROVE  SrcA(image, x, y) \in 0 .. 254
<1>1. /\ image.w \in Nat /\ image.h \in Nat /\ image.stride \in Nat /\ image.w <= image.stride
      /\ image.bitmap \in [0 .. BitmapSize(image) - 1 -> Bytes]
  BY DEF IsImage
<1>2. image.transparency \in Bytes
  BY DEF IsImage
<1>3. BitmapSize(image) = image.stride * (image.h - 1) + image.w
  BY <1>1 DEF BitmapSize
<1>4. y * image.stride + x \in 0 .. BitmapSize(image) - 1
  <2> DEFINE w == image.w
             h == image.h
             stride == image.stride
  <2>1. /\ w \in Nat /\ h \in Nat /\ stride \in Nat /\ w <= stride
        /\ y \in 0 .. h - 1 /\ x \in 0 .. w - 1
    BY <1>1
  <2> HIDE DEF w, h, stride
  <2>2. y * stride + x \in 0 .. stride * (h - 1) + w - 1
    BY <2>1, InBitmap
  <2> DEFINE last == stride * (h - 1) + w - 1
             place == y * stride + x
  <2>3. place \in 0 .. last
    BY <2>2
  <2>4. BitmapSize(image) - 1 = last
    <3>1. BitmapSize(image) = stride * (h - 1) + w
      BY <1>3 DEF stride, h, w
    <3>2. stride * (h - 1) \in Int
      BY <2>1
    <3> QED
      BY <2>1, <3>1, <3>2
  <2>5. place = y * image.stride + x
    BY DEF stride
  <2> HIDE DEF place, last
  <2> QED
    BY <2>3, <2>4, <2>5
<1>5. image.bitmap[y * image.stride + x] \in Bytes
  BY <1>1, <1>4
<1>6. 255 - image.transparency \in Bytes
  <2> DEFINE t == image.transparency
  <2>1. t \in Bytes
    BY <1>2
  <2> HIDE DEF t
  <2>2. 255 - t \in Bytes
    BY <2>1 DEF Bytes
  <2> QED
    BY <2>2 DEF t
<1> QED
  BY <1>5, <1>6, ProductOfBytes DEF SrcA

-----------------------------------------------------------------------------
(* The places the workers are at.                                          *)

LEMMA ImagesAreImages ==
  ASSUME images \in Frames, NEW i \in 1 .. Len(images)
  PROVE  IsImage(images[i]) /\ Len(images) \in Nat
<1>1. images \in Seq({images[k] : k \in DOMAIN images})
  BY FramesAssumption
<1>2. DOMAIN images = 1 .. Len(images) /\ Len(images) \in Nat
  BY <1>1
<1> QED
  BY <1>2, FramesAssumption

\* Every pixel of the current image has its place in the bitmap, another for another
\* row.
LEMMA Places ==
  ASSUME TypeInv, RectInv, stage = "blend",
         NEW y \in 0 .. images[n].h - 1, NEW x \in 0 .. images[n].w - 1,
         NEW z \in 0 .. images[n].h - 1, NEW u \in 0 .. images[n].w - 1
  PROVE  /\ Dest(images[n], x, y) \in DOMAIN pixels
         /\ Dest(images[n], x, y) = Dest(images[n], u, z) => y = z
<1> DEFINE image == images[n]
<1>1. n \in 1 .. Len(images) /\ IsImage(image)
  BY ImagesAreImages DEF TypeInv
<1>2. image.x \in Int /\ image.y \in Int /\ image.w \in Nat /\ image.h \in Nat
  BY <1>1 DEF IsImage
<1>3. Holds(n)
  BY <1>1 DEF RectInv
<1>4. rect.left \in Int /\ rect.right \in Int /\ rect.top \in Int /\ rect.bottom \in Int
  BY DEF TypeInv
<1>5. /\ rect.left <= image.x /\ image.x + image.w <= rect.right
      /\ rect.top <= image.y /\ image.y + image.h <= rect.bottom
  BY <1>2, <1>3 DEF Holds
<1>6. Width \in Nat /\ Height \in Nat
  BY <1>2, <1>4, <1>5 DEF Width, Height
<1>7. /\ image.y + y - rect.top \in 0 .. Height - 1
      /\ image.y + z - rect.top \in 0 .. Height - 1
      /\ image.x + x - rect.left \in 0 .. Width - 1
      /\ image.x + u - rect.left \in 0 .. Width - 1
  BY <1>2, <1>4, <1>5 DEF Width, Height
<1>8. /\ Dest(image, x, y) \in 0 .. Width * Height - 1
      /\ Dest(image, x, y) = Dest(image, u, z) =>
           image.y + y - rect.top = image.y + z - rect.top
  <2> DEFINE r == image.y + y - rect.top
             s == image.y + z - rect.top
             c == image.x + x - rect.left
             d == image.x + u - rect.left
  <2>1. r \in 0 .. Height - 1 /\ s \in 0 .. Height - 1 /\ c \in 0 .. Width - 1 /\ d \in 0 .. Width - 1
    BY <1>7
  <2>2. c = image.x + x - rect.left /\ d = image.x + u - rect.left
    OBVIOUS
  <2>3. Dest(image, x, y) = r * Width + c /\ Dest(image, u, z) = s * Width + d
    BY DEF Dest
  <2> HIDE DEF r, s, c, d
  <2>4. r * Width + c \in 0 .. Width * Height - 1 /\ (r * Width + c = s * Width + d => r = s)
    BY <1>6, <2>1, Grid
  <2> QED
    BY <2>3, <2>4 DEF r, s
<1>9. DOMAIN pixels = 0 .. Width * Height - 1
  BY DEF TypeInv
<1> QED
  BY <1>2, <1>4, <1>8, <1>9

-----------------------------------------------------------------------------
(* The rectangle around the images.                                        *)

RectSet == [left : Int, top : Int, right : Int, bottom : Int]

Within(r, s) ==
  s.left <= r.left /\ r.right <= s.right /\ s.top <= r.top /\ r.bottom <= s.bottom

\* A union is around both rectangles, except for an empty one, and empty only if both
\* are.
LEMMA UnionIsAround ==
  ASSUME NEW r \in RectSet, NEW s \in RectSet
  PROVE  /\ UnionRect(r, s) \in RectSet
         /\ ~IsEmpty(r) => Within(r, UnionRect(r, s))
         /\ ~IsEmpty(s) => Within(s, UnionRect(r, s))
         /\ IsEmpty(UnionRect(r, s)) => UnionRect(r, s) = Rect(0, 0, 0, 0)
<1>1. Rect(0, 0, 0, 0) \in RectSet
  BY DEF Rect, RectSet
<1>2. CASE IsEmpty(r) /\ IsEmpty(s)
  BY <1>1, <1>2 DEF UnionRect
<1>3. CASE IsEmpty(r) /\ ~IsEmpty(s)
  <2>1. UnionRect(r, s) = s
    BY <1>3 DEF UnionRect
  <2> QED
    BY <1>3, <2>1 DEF Within, RectSet
<1>4. CASE ~IsEmpty(r) /\ IsEmpty(s)
  <2>1. UnionRect(r, s) = r
    BY <1>4 DEF UnionRect
  <2> QED
    BY <1>4, <2>1 DEF Within, RectSet
<1>5. CASE ~IsEmpty(r) /\ ~IsEmpty(s)
  <2>1. UnionRect(r, s) = Rect(Least(r.left, s.left), Least(r.top, s.top),
                               Greatest(r.right, s.right), Greatest(r.bottom, s.bottom))
    BY <1>5 DEF UnionRect
  <2>2. /\ UnionRect(r, s) \in RectSet
        /\ Within(r, UnionRect(r, s)) /\ Within(s, UnionRect(r, s))
    BY <2>1 DEF Rect, Least, Greatest, Within, RectSet
  <2>3. ~IsEmpty(UnionRect(r, s))
    BY <1>5, <2>2 DEF IsEmpty, Within, RectSet
  <2> QED
    BY <2>2, <2>3
<1> QED
  BY <1>2, <1>3, <1>4, <1>5

-----------------------------------------------------------------------------
(* The invariant.                                                          *)

LEMMA InitFrame == Init => FrameInv
<1> SUFFICES ASSUME Init
             PROVE  FrameInv
  OBVIOUS
<1>1. pixels = <<>> /\ DOMAIN pixels = {} /\ pixels \in [DOMAIN pixels -> PixelSet]
  BY DEF Init
<1>2. TypeInv
  BY <1>1 DEF Init, TypeInv, Rect
<1>3. RectInv
  BY DEF Init, RectInv
<1> QED
  BY <1>1, <1>2, <1>3 DEF FrameInv, Premultiplied

LEMMA BoundsKeeps == FrameInv /\ Bounds => FrameInv'
<1> SUFFICES ASSUME FrameInv, Bounds
             PROVE  FrameInv'
  OBVIOUS
<1> DEFINE image == images[n]
<1>1. /\ n \in 1 .. Len(images) /\ n \in Nat /\ stage = "bounds" /\ n' = n + 1
      /\ images' = images /\ pixels' = pixels /\ stage' = stage
      /\ rect' = UnionRect(rect, RectOf(image))
  <2>1. Len(images) \in Nat
    <3>1. images \in Seq({images[k] : k \in DOMAIN images})
      BY FramesAssumption DEF FrameInv, TypeInv
    <3> QED
      BY <3>1
  <2> QED
    BY <2>1 DEF FrameInv, TypeInv, Bounds
<1>2. \A i \in 1 .. Len(images) :
        {images[i].x, images[i].y} \subseteq Int /\ {images[i].w, images[i].h} \subseteq Nat
  BY ImagesAreImages DEF FrameInv, TypeInv, IsImage
<1>3. RectOf(image) \in RectSet /\ rect \in RectSet
  BY <1>1, <1>2 DEF RectOf, Rect, RectSet, FrameInv, TypeInv
<1>4. /\ rect' \in RectSet
      /\ ~IsEmpty(rect) => Within(rect, rect')
      /\ ~IsEmpty(RectOf(image)) => Within(RectOf(image), rect')
      /\ IsEmpty(rect') => rect' = Rect(0, 0, 0, 0)
  BY <1>1, <1>3, UnionIsAround
<1>5. TypeInv'
  BY <1>1, <1>4 DEF FrameInv, TypeInv, RectSet
<1>6. ASSUME NEW i \in 1 .. Len(images), i < n'
      PROVE  Holds(i)'
  <2> SUFFICES ASSUME images[i].w > 0, images[i].h > 0
               PROVE  /\ rect'.left <= images[i].x /\ images[i].x + images[i].w <= rect'.right
                      /\ rect'.top <= images[i].y /\ images[i].y + images[i].h <= rect'.bottom
    BY <1>1 DEF Holds
  <2>1. /\ images[i].x \in Int /\ images[i].y \in Int
        /\ images[i].w \in Nat /\ images[i].h \in Nat
    BY <1>2
  <2>2. CASE i = n
    <3>1. ~IsEmpty(RectOf(image))
      BY <2>1, <2>2 DEF IsEmpty, RectOf, Rect
    <3> QED
      BY <1>4, <2>2, <3>1 DEF Within, RectOf, Rect
  <2>3. CASE i < n
    <3>1. Holds(i)
      BY <1>1, <2>3 DEF FrameInv, RectInv
    <3>2. /\ rect.left <= images[i].x /\ images[i].x + images[i].w <= rect.right
          /\ rect.top <= images[i].y /\ images[i].y + images[i].h <= rect.bottom
      BY <2>1, <3>1 DEF Holds
    <3>3. ~IsEmpty(rect)
      BY <1>3, <2>1, <3>2, SMTT(30) DEF IsEmpty, RectSet
    <3>4. /\ rect.left \in Int /\ rect.right \in Int /\ rect.top \in Int /\ rect.bottom \in Int
          /\ rect'.left \in Int /\ rect'.right \in Int /\ rect'.top \in Int /\ rect'.bottom \in Int
      BY <1>3, <1>4 DEF RectSet
    <3>5. /\ rect'.left <= rect.left /\ rect.right <= rect'.right
          /\ rect'.top <= rect.top /\ rect.bottom <= rect'.bottom
      BY <1>4, <3>3 DEF Within
    <3> DEFINE x == images[i].x
               y == images[i].y
               x2 == x + images[i].w
               y2 == y + images[i].h
    <3>6. x \in Int /\ y \in Int /\ x2 \in Int /\ y2 \in Int
      BY <2>1
    <3>7. rect.left <= x /\ x2 <= rect.right /\ rect.top <= y /\ y2 <= rect.bottom
      BY <3>2
    <3> HIDE DEF x, y, x2, y2
    <3>8. rect'.left <= x /\ x2 <= rect'.right /\ rect'.top <= y /\ y2 <= rect'.bottom
      BY <3>4, <3>5, <3>6, <3>7, SMTT(30)
    <3> QED
      BY <3>8 DEF x, y, x2, y2
  <2> QED
    BY <1>1, <1>6, <2>2, <2>3
<1>7. RectInv'
  BY <1>1, <1>4, <1>6 DEF RectInv
<1> QED
  BY <1>1, <1>5, <1>7 DEF FrameInv, Premultiplied

\* A row's count of pixels is one the row can have.
LEMMA FirstColumns ==
  ASSUME images \in Frames, NEW i \in 1 .. Len(images)
  PROVE  NoColumns(images[i]) \in [0 .. images[i].h - 1 -> 0 .. images[i].w]
<1>1. images[i].w \in Nat /\ images[i].h \in Nat
  BY ImagesAreImages DEF IsImage
<1> QED
  BY <1>1 DEF NoColumns

LEMMA AllocateKeeps == FrameInv /\ Allocate => FrameInv'
<1> SUFFICES ASSUME FrameInv, Allocate
             PROVE  FrameInv'
  OBVIOUS
<1> DEFINE size == Width * Height
<1>1. /\ images' = images /\ rect' = rect /\ n' = 1 /\ stage' = "blend"
      /\ column' = NoColumns(images[1])
      /\ pixels' = [i \in 0 .. size - 1 |-> Clear]
      /\ images \in Frames /\ images # <<>> /\ n > Len(images) /\ stage = "bounds"
      /\ n \in Nat
  BY DEF Allocate, FrameInv, TypeInv
<1>2. 1 \in 1 .. Len(images) /\ Len(images) \in Nat
  <2>1. images \in Seq({images[k] : k \in DOMAIN images})
    BY <1>1, FramesAssumption
  <2> QED
    BY <1>1, <2>1
<1>3. Clear \in PixelSet /\ Clear.c <= Clear.a /\ Clear.a <= 255
  BY DEF Clear, PixelSet, Bytes
<1>4. size' = size
  BY <1>1 DEF Width, Height
<1> HIDE DEF size
<1>5. /\ DOMAIN pixels' = 0 .. size - 1
      /\ pixels' \in [0 .. size - 1 -> PixelSet]
      /\ \A i \in 0 .. size - 1 : pixels'[i].c <= pixels'[i].a /\ pixels'[i].a <= 255
  BY <1>1, <1>3
<1>6. TypeInv'
  <2>1. column' \in [0 .. images[1].h - 1 -> 0 .. images[1].w]
    BY <1>1, <1>2, FirstColumns
  <2>2. DOMAIN pixels' = 0 .. (Width * Height)' - 1
    BY <1>4, <1>5 DEF size
  <2>3. rect' \in [left : Int, top : Int, right : Int, bottom : Int]
    BY <1>1 DEF FrameInv, TypeInv
  <2> QED
    BY <1>1, <1>2, <1>5, <2>1, <2>2, <2>3 DEF TypeInv
<1>7. RectInv'
  <2> SUFFICES ASSUME NEW i \in 1 .. Len(images)
               PROVE  Holds(i)'
    BY <1>1 DEF FrameInv, RectInv
  <2>1. Holds(i)
    BY <1>1, <1>2 DEF FrameInv, RectInv
  <2> QED
    BY <1>1, <2>1 DEF Holds
<1>8. Premultiplied'
  BY <1>5 DEF Premultiplied
<1> QED
  BY <1>6, <1>7, <1>8 DEF FrameInv

LEMMA PixelKeeps ==
  ASSUME FrameInv, NEW y \in DOMAIN column, Pixel(y)
  PROVE  FrameInv'
<1> DEFINE image == images[n]
           x == column[y]
           d == Dest(image, x, y)
           blended == Blend(pixels[d], SrcA(image, x, y), image.colour)
<1>1. /\ stage = "blend" /\ x < image.w
      /\ pixels' = [pixels EXCEPT ![d] = blended]
      /\ column' = [column EXCEPT ![y] = x + 1]
      /\ images' = images /\ rect' = rect /\ n' = n /\ stage' = stage
  BY DEF Pixel
<1>2. n \in 1 .. Len(images) /\ images \in Frames
  BY <1>1 DEF FrameInv, TypeInv
<1>3. image.w \in Nat /\ image.h \in Nat /\ image.colour \in Bytes /\ IsImage(image)
  BY <1>2, ImagesAreImages DEF IsImage
<1>4. column \in [0 .. image.h - 1 -> 0 .. image.w]
  BY <1>1 DEF FrameInv, TypeInv
<1>5. y \in 0 .. image.h - 1 /\ x \in 0 .. image.w - 1
  BY <1>1, <1>3, <1>4
<1>6. d \in DOMAIN pixels
  BY <1>1, <1>5, Places DEF FrameInv
<1>7. pixels[d] \in PixelSet /\ pixels[d].c <= pixels[d].a
  BY <1>6 DEF FrameInv, TypeInv, Premultiplied
<1>8. SrcA(image, x, y) \in 0 .. 254
  BY <1>3, <1>5, SrcAlpha
<1>9. blended \in PixelSet /\ blended.c <= blended.a
  BY <1>3, <1>7, <1>8, BlendKeepsOrder
<1>10. blended.a <= 255
  BY <1>9 DEF PixelSet, Bytes
<1> HIDE DEF d, blended
<1>11. pixels \in [DOMAIN pixels -> PixelSet]
  BY DEF FrameInv, TypeInv
<1>12. DOMAIN pixels' = DOMAIN pixels /\ pixels' \in [DOMAIN pixels -> PixelSet]
  BY <1>1, <1>9, <1>11
<1>13. column' \in [0 .. image.h - 1 -> 0 .. image.w]
  <2>1. x + 1 \in 0 .. image.w
    BY <1>3, <1>5
  <2> QED
    BY <1>1, <1>4, <2>1
<1>14. TypeInv'
  <2>1. /\ rect \in [left : Int, top : Int, right : Int, bottom : Int] /\ n \in Nat \ {0}
        /\ DOMAIN pixels = 0 .. Width * Height - 1
    BY <1>1 DEF FrameInv, TypeInv
  <2>2. Width' = Width /\ Height' = Height
    BY <1>1 DEF Width, Height
  <2> QED
    BY <1>1, <1>2, <1>12, <1>13, <2>1, <2>2 DEF TypeInv
<1>15. RectInv'
  BY <1>1 DEF FrameInv, RectInv, Holds
<1>16. Premultiplied'
  BY <1>1, <1>9, <1>10, <1>12 DEF FrameInv, Premultiplied
<1> QED
  BY <1>14, <1>15, <1>16 DEF FrameInv

LEMMA NextImageKeeps == FrameInv /\ NextImage => FrameInv'
<1> SUFFICES ASSUME FrameInv, NextImage
             PROVE  FrameInv'
  OBVIOUS
<1>1. /\ images' = images /\ rect' = rect /\ pixels' = pixels /\ n' = n + 1
      /\ stage = "blend" /\ stage' \in {"blend", "done"}
      /\ stage' = "blend" => n # Len(images) /\ column' = NoColumns(images[n + 1])
      /\ n \in 1 .. Len(images) /\ images \in Frames
  BY DEF NextImage, FrameInv, TypeInv
<1>2. Len(images) \in Nat
  BY <1>1, ImagesAreImages
<1>3. stage' = "blend" => n + 1 \in 1 .. Len(images)
  BY <1>1, <1>2
<1>4. stage' = "blend" => column' \in [0 .. images[n + 1].h - 1 -> 0 .. images[n + 1].w]
  BY <1>1, <1>3, FirstColumns
<1>5. TypeInv'
  <2>1. Width' = Width /\ Height' = Height
    BY <1>1 DEF Width, Height
  <2>2. /\ rect \in [left : Int, top : Int, right : Int, bottom : Int]
        /\ DOMAIN pixels = 0 .. Width * Height - 1
        /\ pixels \in [DOMAIN pixels -> PixelSet]
    BY <1>1 DEF FrameInv, TypeInv
  <2>3. n' \in Nat \ {0}
    BY <1>1, <1>2
  <2> QED
    BY <1>1, <1>3, <1>4, <2>1, <2>2, <2>3 DEF TypeInv
<1>6. RectInv'
  BY <1>1 DEF FrameInv, RectInv, Holds
<1> QED
  BY <1>1, <1>5, <1>6 DEF FrameInv, Premultiplied

LEMMA FrameStep == FrameInv /\ [Next]_vars => FrameInv'
<1> SUFFICES ASSUME FrameInv, [Next]_vars
             PROVE  FrameInv'
  OBVIOUS
<1>1. CASE Bounds
  BY <1>1, BoundsKeeps
<1>2. CASE Allocate
  BY <1>2, AllocateKeeps
<1>3. CASE \E y \in DOMAIN column : Pixel(y)
  BY <1>3, PixelKeeps
<1>4. CASE NextImage
  BY <1>4, NextImageKeeps
<1>5. CASE UNCHANGED vars
  BY <1>5 DEF vars, FrameInv, TypeInv, RectInv, Holds, Premultiplied, Width, Height
<1> QED
  BY <1>1, <1>2, <1>3, <1>4, <1>5 DEF Next

LEMMA FrameInvariant == Spec => []FrameInv
BY InitFrame, FrameStep, PTL DEF Spec

-----------------------------------------------------------------------------
(* The theorems.                                                           *)

\* However many images lie over one another, no colour of a pixel exceeds its alpha,
\* so that a consumer can add the video without an overflow (SubFrame.cpp:118-136).
THEOREM FramePremultiplied == Spec => []Premultiplied
<1>1. FrameInv => Premultiplied
  BY DEF FrameInv
<1> QED
  BY <1>1, FrameInvariant, PTL

\* The threads that draw the rows of an image without a lock write to different
\* pixels, all of them in the bitmap (SubFrame.cpp:98-116).
THEOREM FrameWorkersApart == Spec => []WorkersApart
<1>1. FrameInv => WorkersApart
  <2> SUFFICES ASSUME FrameInv, stage = "blend"
               PROVE  LET image == images[n]
                          Working == {y \in DOMAIN column : column[y] < image.w}
                          at(y) == Dest(image, column[y], y)
                      IN /\ \A y \in Working : at(y) \in DOMAIN pixels
                         /\ \A y, z \in Working : at(y) = at(z) => y = z
    BY DEF WorkersApart
  <2> DEFINE Working == {y \in DOMAIN column : column[y] < images[n].w}
  <2>1. \A y \in Working : y \in 0 .. images[n].h - 1 /\ column[y] \in 0 .. images[n].w - 1
    <3>1. n \in 1 .. Len(images) /\ images \in Frames
      BY DEF FrameInv, TypeInv
    <3>2. images[n].w \in Nat
      BY <3>1, ImagesAreImages DEF IsImage
    <3>3. column \in [0 .. images[n].h - 1 -> 0 .. images[n].w]
      BY DEF FrameInv, TypeInv
    <3> QED
      BY <3>2, <3>3
  <2>2. TypeInv /\ RectInv
    BY DEF FrameInv
  <2>3. ASSUME NEW y \in Working, NEW z \in Working
        PROVE  /\ Dest(images[n], column[y], y) \in DOMAIN pixels
               /\ Dest(images[n], column[y], y) = Dest(images[n], column[z], z) => y = z
    BY <2>1, <2>2, Places
  <2> QED
    BY <2>3
<1> QED
  BY <1>1, FrameInvariant, PTL

-----------------------------------------------------------------------------
(* The layers of a pixel.                                                  *)

\* Natural numbers are well founded: the sets of the numbers below them are finite.
LEMMA LeastNat ==
  ASSUME NEW T, T \subseteq Nat, T # {}
  PROVE  \E m \in T : \A k \in T : m <= k
<1> DEFINE R == StrictSubsetOrdering(Nat)
           D == {0 .. m - 1 : m \in T}
<1>1. IsWellFoundedOn(R, FiniteSubsetsOf(Nat))
  BY FS_StrictSubsetOrderingWellFounded, Zenon
<1>2. ASSUME NEW m \in T
      PROVE  0 .. m - 1 \in FiniteSubsetsOf(Nat)
  <2>1. 0 \in Int /\ m - 1 \in Int
    OBVIOUS
  <2>2. IsFiniteSet(0 .. m - 1)
    BY <2>1, FS_Interval, Zenon
  <2>3. 0 .. m - 1 \in SUBSET Nat
    OBVIOUS
  <2> QED
    BY <2>2, <2>3, Zenon DEF FiniteSubsetsOf
<1>3. D \subseteq FiniteSubsetsOf(Nat) /\ D # {}
  BY <1>2, Zenon
<1>4. PICK d \in D : \A e \in D : ~ (<<e, d>> \in R)
  <2> HIDE DEF D, R
  <2> QED
    BY <1>1, <1>3, WFMin, Zenon
<1>5. PICK m \in T : d = 0 .. m - 1
  OBVIOUS
<1>6. ASSUME NEW k \in T, k < m
      PROVE  FALSE
  <2>1. 0 .. k - 1 \in D
    OBVIOUS
  <2>2. /\ 0 .. k - 1 \in SUBSET Nat
        /\ 0 .. m - 1 \in SUBSET Nat
        /\ 0 .. k - 1 \subseteq 0 .. m - 1
    BY <1>6
  <2>3. k \in 0 .. m - 1 /\ k \notin 0 .. k - 1
    BY <1>6
  <2>4. <<0 .. k - 1, 0 .. m - 1>> \in R
    BY <2>2, <2>3, Zenon DEF StrictSubsetOrdering
  <2> QED
    BY <1>4, <1>5, <2>1, <2>4, Zenon
<1> QED
  BY <1>6

\* The recursive definition defines a function.
LEMMA LayersAreDefined ==
  ASSUME images \in Frames, NEW x, NEW y
  PROVE  /\ Layers(images, x, y)[0] = Clear
         /\ \A i \in 1 .. Len(images) :
              Layers(images, x, y)[i] = Over(Layers(images, x, y)[i - 1], images[i], x, y)
<1> DEFINE Upto(m, g) ==
             g = [i \in 0 .. m |-> IF i = 0 THEN Clear ELSE Over(g[i - 1], images[i], x, y)]
           T == {m \in Nat : ~ \E g : Upto(m, g)}
<1>1. Len(images) \in Nat
  <2>1. images \in Seq({images[k] : k \in DOMAIN images})
    BY FramesAssumption
  <2> QED
    BY <2>1
<1>2. \A m \in Nat : \E g : Upto(m, g)
  <2> SUFFICES ASSUME T # {}
               PROVE  FALSE
    OBVIOUS
  <2>1. PICK m \in T : \A k \in T : m <= k
    <3>1. T \subseteq Nat
      OBVIOUS
    <3> HIDE DEF T
    <3> QED
      BY <3>1, LeastNat
  <2>2. m \in Nat /\ ~ \E g : Upto(m, g)
    OBVIOUS
  <2>3. CASE m = 0
    <3>1. Upto(0, [i \in 0 .. 0 |-> Clear])
      OBVIOUS
    <3> QED
      BY <2>2, <2>3, <3>1
  <2>4. CASE m > 0
    <3>1. m - 1 \in Nat /\ m - 1 \notin T
      BY <2>1, <2>2, <2>4
    <3>2. PICK g : Upto(m - 1, g)
      BY <3>1
    <3> DEFINE h == [i \in 0 .. m |-> IF i = m THEN Over(g[m - 1], images[m], x, y) ELSE g[i]]
    <3>3. ASSUME NEW i \in 0 .. m
          PROVE  h[i] = IF i = 0 THEN Clear ELSE Over(h[i - 1], images[i], x, y)
      <4>1. CASE i = 0
        BY <2>2, <2>4, <3>2, <4>1
      <4>2. CASE i = m
        BY <2>2, <2>4, <4>2
      <4>3. CASE i # 0 /\ i # m
        <5>1. i \in 0 .. m - 1 /\ i - 1 \in 0 .. m /\ i - 1 # m
          BY <2>2, <4>3
        <5>2. h[i] = g[i] /\ h[i - 1] = g[i - 1]
          BY <4>3, <5>1
        <5>3. g[i] = Over(g[i - 1], images[i], x, y)
          BY <3>2, <4>3, <5>1
        <5> QED
          BY <4>3, <5>2, <5>3
      <4> QED
        BY <4>1, <4>2, <4>3
    <3>4. h = [i \in 0 .. m |-> h[i]]
      OBVIOUS
    <3> HIDE DEF h
    <3>5. Upto(m, h)
      BY <3>3, <3>4
    <3> QED
      BY <2>2, <3>5
  <2> QED
    BY <2>2, <2>3, <2>4
<1>3. Layers(images, x, y) = CHOOSE g : Upto(Len(images), g)
  BY Zenon DEF Layers
<1>4. \E g : Upto(Len(images), g)
  BY <1>1, <1>2
<1>5. Upto(Len(images), Layers(images, x, y))
  <2> HIDE DEF Upto
  <2> QED
    BY <1>3, <1>4, Zenon
<1> DEFINE L == Layers(images, x, y)
<1>6. L = [i \in 0 .. Len(images) |-> IF i = 0 THEN Clear ELSE Over(L[i - 1], images[i], x, y)]
  BY <1>5
<1> HIDE DEF L
<1>7. L[0] = Clear /\ \A i \in 1 .. Len(images) : L[i] = Over(L[i - 1], images[i], x, y)
  BY <1>1, <1>6
<1> QED
  BY <1>7 DEF L

-----------------------------------------------------------------------------
(* The picture.                                                            *)

\* The pixel of the bitmap for a place on the screen.
Place(x, y) == (y - rect.top) * Width + (x - rect.left)

OnScreen(x, y) == x \in rect.left .. rect.right - 1 /\ y \in rect.top .. rect.bottom - 1

\* The place is one of the image's that its row's worker has passed.
Drawn(x, y) ==
  /\ x - images[n].x \in 0 .. images[n].w - 1
  /\ y - images[n].y \in 0 .. images[n].h - 1
  /\ x - images[n].x < column[y - images[n].y]

\* The picture has the images before the current one, and of that the pixels that the
\* workers have passed.
PictureInv ==
  /\ stage = "blend" =>
       \A x, y \in Int : OnScreen(x, y) =>
         Shown(x, y) = Layers(images, x, y)[IF Drawn(x, y) THEN n ELSE n - 1]
  /\ stage = "done" /\ images # <<>> =>
       \A x, y \in Int : OnScreen(x, y) => Shown(x, y) = Layers(images, x, y)[Len(images)]

LEMMA PlacesApart ==
  ASSUME TypeInv, NEW x \in Int, NEW y \in Int, NEW u \in Int, NEW v \in Int,
         OnScreen(x, y), OnScreen(u, v)
  PROVE  /\ Place(x, y) \in 0 .. Width * Height - 1
         /\ Place(x, y) = Place(u, v) => x = u /\ y = v
<1>1. rect.left \in Int /\ rect.right \in Int /\ rect.top \in Int /\ rect.bottom \in Int
  BY DEF TypeInv
<1> DEFINE r == y - rect.top
           s == v - rect.top
           c == x - rect.left
           d == u - rect.left
<1>2. /\ Width \in Nat /\ Height \in Nat
      /\ r \in 0 .. Height - 1 /\ s \in 0 .. Height - 1
      /\ c \in 0 .. Width - 1 /\ d \in 0 .. Width - 1
  BY <1>1 DEF OnScreen, Width, Height
<1>3. Place(x, y) = r * Width + c /\ Place(u, v) = s * Width + d
  BY DEF Place
<1>4. (c = d => x = u) /\ (r = s => y = v)
  BY <1>1
<1> HIDE DEF r, s, c, d
<1>5. r * Width + c \in 0 .. Width * Height - 1 /\ (r * Width + c = s * Width + d => r = s)
  BY <1>2, Grid
<1>6. r = s /\ r * Width + c = s * Width + d => c = d
  <2>1. r * Width \in Int
    BY <1>2
  <2> QED
    BY <1>2, <2>1
<1> QED
  BY <1>3, <1>4, <1>5, <1>6

LEMMA AllocatePicture == FrameInv /\ Allocate => PictureInv'
<1> SUFFICES ASSUME FrameInv, Allocate
             PROVE  PictureInv'
  OBVIOUS
<1>1. /\ images' = images /\ rect' = rect /\ n' = 1 /\ stage' = "blend"
      /\ column' = NoColumns(images[1])
      /\ pixels' = [i \in 0 .. Width * Height - 1 |-> Clear]
      /\ images \in Frames /\ images # <<>>
  BY DEF Allocate, FrameInv, TypeInv
<1>2. 1 \in 1 .. Len(images)
  <2>1. images \in Seq({images[k] : k \in DOMAIN images})
    BY <1>1, FramesAssumption
  <2> QED
    BY <1>1, <2>1
<1> SUFFICES ASSUME NEW x \in Int, NEW y \in Int, OnScreen(x, y)
             PROVE  Shown(x, y)' = Layers(images, x, y)[IF Drawn(x, y)' THEN 1 ELSE 0]
  BY <1>1 DEF PictureInv, OnScreen
<1>3. ~Drawn(x, y)'
  <2>1. images[1].x \in Int /\ images[1].w \in Nat /\ images[1].h \in Nat
    BY <1>1, <1>2, ImagesAreImages DEF IsImage
  <2> SUFFICES ASSUME x - images[1].x \in 0 .. images[1].w - 1, y - images[1].y \in 0 .. images[1].h - 1,
                      x - images[1].x < NoColumns(images[1])[y - images[1].y]
               PROVE  FALSE
    BY <1>1 DEF Drawn
  <2> QED
    BY <2>1 DEF NoColumns
<1>4. Shown(x, y)' = pixels'[Place(x, y)]
  BY <1>1 DEF Shown, Place, Width
<1>5. Place(x, y) \in 0 .. Width * Height - 1
  BY PlacesApart DEF FrameInv
<1>6. Shown(x, y)' = Clear
  <2> DEFINE size == Width * Height
             place == Place(x, y)
  <2>1. place \in 0 .. size - 1 /\ pixels' = [i \in 0 .. size - 1 |-> Clear]
    BY <1>1, <1>5
  <2> HIDE DEF size, place
  <2>2. pixels'[place] = Clear
    BY <2>1
  <2> QED
    BY <1>4, <2>2 DEF place
<1> QED
  BY <1>1, <1>3, <1>6, LayersAreDefined

\* A worker draws its pixel over the images before the current one, once.
LEMMA PixelPicture ==
  ASSUME FrameInv, PictureInv, NEW y \in DOMAIN column, Pixel(y)
  PROVE  PictureInv'
<1> DEFINE image == images[n]
           x == column[y]
           d == Dest(image, x, y)
<1>1. /\ stage = "blend" /\ x < image.w
      /\ pixels' = [pixels EXCEPT ![d] = Blend(@, SrcA(image, x, y), image.colour)]
      /\ column' = [column EXCEPT ![y] = x + 1]
      /\ images' = images /\ rect' = rect /\ n' = n /\ stage' = stage
  BY DEF Pixel
<1>2. n \in 1 .. Len(images) /\ images \in Frames
  BY <1>1 DEF FrameInv, TypeInv
<1>3. /\ image.x \in Int /\ image.y \in Int /\ image.w \in Nat /\ image.h \in Nat
      /\ IsImage(image)
  BY <1>2, ImagesAreImages DEF IsImage
<1>4. column \in [0 .. image.h - 1 -> 0 .. image.w] /\ DOMAIN pixels = 0 .. Width * Height - 1
  BY <1>1 DEF FrameInv, TypeInv
<1>5. y \in 0 .. image.h - 1 /\ x \in 0 .. image.w - 1
  BY <1>1, <1>3, <1>4
<1> DEFINE X == image.x + x
           Y == image.y + y
<1>6. X \in Int /\ Y \in Int /\ OnScreen(X, Y)
  <2>1. Holds(n)
    BY <1>1, <1>2 DEF FrameInv, RectInv
  <2>2. rect.left \in Int /\ rect.right \in Int /\ rect.top \in Int /\ rect.bottom \in Int
    BY DEF FrameInv, TypeInv
  <2>3. /\ rect.left <= image.x /\ image.x + image.w <= rect.right
        /\ rect.top <= image.y /\ image.y + image.h <= rect.bottom
    BY <1>3, <1>5, <2>1 DEF Holds
  <2> DEFINE ix == image.x
             iy == image.y
             iw == image.w
             ih == image.h
             cx == x
  <2>4. /\ ix \in Int /\ iy \in Int /\ iw \in Nat /\ ih \in Nat
        /\ rect.left <= ix /\ ix + iw <= rect.right
        /\ rect.top <= iy /\ iy + ih <= rect.bottom
        /\ y \in 0 .. ih - 1 /\ cx \in 0 .. iw - 1
    BY <1>3, <1>5, <2>3
  <2> HIDE DEF ix, iy, iw, ih, cx
  <2>5. /\ ix + cx \in Int /\ iy + y \in Int
        /\ ix + cx \in rect.left .. rect.right - 1
        /\ iy + y \in rect.top .. rect.bottom - 1
    BY <2>2, <2>4
  <2> QED
    BY <2>5 DEF OnScreen, ix, iy, iw, ih, cx
<1>7. d = Place(X, Y)
  <2>1. rect.left \in Int /\ rect.top \in Int
    BY DEF FrameInv, TypeInv
  <2>2. /\ image.y + y - rect.top = Y - rect.top
        /\ image.x + x - rect.left = X - rect.left
    BY <1>3, <1>5, <2>1
  <2>3. d = (image.y + y - rect.top) * Width + (image.x + x - rect.left)
    BY Zenon DEF Dest
  <2> HIDE DEF X, Y, d
  <2> QED
    BY <2>2, <2>3 DEF Place
<1>8. X - image.x = x /\ Y - image.y = y
  BY <1>3, <1>5
<1>9. pixels[d] = Layers(images, X, Y)[n - 1]
  <2>1. ~Drawn(X, Y)
    BY <1>3, <1>5, <1>8 DEF Drawn
  <2>2. Shown(X, Y) = pixels[d]
    BY <1>7 DEF Shown, Place
  <2> QED
    BY <1>1, <1>6, <2>1, <2>2 DEF PictureInv
<1>10. Layers(images, X, Y)[n] = Blend(pixels[d], SrcA(image, x, y), image.colour)
  <2>1. Layers(images, X, Y)[n] = Over(Layers(images, X, Y)[n - 1], image, X, Y)
    BY <1>2, LayersAreDefined
  <2> HIDE DEF X, Y, x, d
  <2> QED
    BY <1>5, <1>8, <1>9, <2>1 DEF Over
<1> SUFFICES ASSUME NEW u \in Int, NEW v \in Int, OnScreen(u, v)
             PROVE  Shown(u, v)' = Layers(images, u, v)[IF Drawn(u, v)' THEN n ELSE n - 1]
  BY <1>1 DEF PictureInv, OnScreen
<1>11. Shown(u, v)' = pixels'[Place(u, v)] /\ Shown(u, v) = pixels[Place(u, v)]
  BY <1>1 DEF Shown, Place, Width
<1>12. /\ Place(u, v) \in DOMAIN pixels
       /\ Place(u, v) = d => u = X /\ v = Y
  <2> HIDE DEF X, Y, d
  <2> QED
    BY <1>4, <1>6, <1>7, PlacesApart DEF FrameInv
<1>13. Drawn(u, v)' <=> /\ u - image.x \in 0 .. image.w - 1
                        /\ v - image.y \in 0 .. image.h - 1
                        /\ u - image.x < column'[v - image.y]
  BY <1>1 DEF Drawn
<1>14. CASE u = X /\ v = Y
  <2>1. Drawn(u, v)'
    <3> HIDE DEF X, Y
    <3> QED
      BY <1>1, <1>4, <1>5, <1>8, <1>13, <1>14
  <2>2. pixels'[d] = Blend(pixels[d], SrcA(image, x, y), image.colour)
    <3>1. d \in DOMAIN pixels
      BY <1>7, <1>12, <1>14
    <3> HIDE DEF d, x
    <3> QED
      BY <1>1, <3>1
  <2> QED
    BY <1>7, <1>10, <1>11, <1>14, <2>1, <2>2
<1>15. CASE ~(u = X /\ v = Y)
  <2>1. Shown(u, v)' = Shown(u, v)
    <3>1. Place(u, v) # d
      BY <1>12, <1>15
    <3> HIDE DEF d, x
    <3> QED
      BY <1>1, <1>11, <1>12, <3>1
  <2>2. Drawn(u, v)' <=> Drawn(u, v)
    <3> SUFFICES ASSUME u - image.x \in 0 .. image.w - 1, v - image.y \in 0 .. image.h - 1
                 PROVE  u - image.x < column'[v - image.y] <=> u - image.x < column[v - image.y]
      BY <1>13 DEF Drawn
    <3>1. CASE v - image.y # y
      BY <1>1, <1>4, <3>1
    <3>2. CASE v - image.y = y
      <4>1. v = Y /\ u # X
        BY <1>3, <1>5, <1>15, <3>2
      <4>2. u - image.x # x
        BY <1>3, <1>5, <4>1
      <4>3. column'[v - image.y] = x + 1
        BY <1>1, <1>4, <1>5, <3>2
      <4> QED
        BY <1>5, <3>2, <4>2, <4>3
    <3> QED
      BY <3>1, <3>2
  <2>3. Shown(u, v) = Layers(images, u, v)[IF Drawn(u, v) THEN n ELSE n - 1]
    BY <1>1 DEF PictureInv
  <2> QED
    BY <2>1, <2>2, <2>3
<1> QED
  BY <1>14, <1>15

\* When all rows are done, every pixel of the image is drawn.
LEMMA NextImagePicture == FrameInv /\ PictureInv /\ NextImage => PictureInv'
<1> SUFFICES ASSUME FrameInv, PictureInv, NextImage
             PROVE  PictureInv'
  OBVIOUS
<1>1. /\ images' = images /\ rect' = rect /\ pixels' = pixels /\ n' = n + 1
      /\ stage = "blend" /\ stage' = IF n = Len(images) THEN "done" ELSE "blend"
      /\ n # Len(images) => column' = NoColumns(images[n + 1])
      /\ \A y \in DOMAIN column : column[y] = images[n].w
      /\ n \in 1 .. Len(images) /\ images \in Frames
  BY DEF NextImage, FrameInv, TypeInv
<1>2. Len(images) \in Nat
  BY <1>1, ImagesAreImages
<1>3. images[n].w \in Nat /\ images[n].h \in Nat
  BY <1>1, ImagesAreImages DEF IsImage
<1>4. ASSUME NEW x \in Int, NEW y \in Int, OnScreen(x, y)
      PROVE  Shown(x, y)' = Layers(images, x, y)[n]
  <2>1. Shown(x, y)' = Shown(x, y)
    BY <1>1 DEF Shown, Width
  <2>2. Shown(x, y) = Layers(images, x, y)[IF Drawn(x, y) THEN n ELSE n - 1]
    BY <1>1, <1>4 DEF PictureInv
  <2>3. Layers(images, x, y)[n] = Over(Layers(images, x, y)[n - 1], images[n], x, y)
    BY <1>1, LayersAreDefined
  <2>4. CASE x - images[n].x \in 0 .. images[n].w - 1 /\ y - images[n].y \in 0 .. images[n].h - 1
    <3>1. column[y - images[n].y] = images[n].w
      BY <1>1, <2>4 DEF FrameInv, TypeInv
    <3>2. Drawn(x, y)
      BY <1>3, <2>4, <3>1 DEF Drawn
    <3> QED
      BY <2>1, <2>2, <3>2
  <2>5. CASE ~(x - images[n].x \in 0 .. images[n].w - 1 /\ y - images[n].y \in 0 .. images[n].h - 1)
    <3>1. ~Drawn(x, y)
      BY <2>5 DEF Drawn
    <3>2. Layers(images, x, y)[n] = Layers(images, x, y)[n - 1]
      BY <2>3, <2>5 DEF Over
    <3> QED
      BY <2>1, <2>2, <3>1, <3>2
  <2> QED
    BY <2>4, <2>5
<1>5. ASSUME NEW x \in Int, NEW y \in Int, stage' = "blend"
      PROVE  ~Drawn(x, y)'
  <2>1. n + 1 \in 1 .. Len(images)
    BY <1>1, <1>2, <1>5
  <2>2. images[n + 1].x \in Int /\ images[n + 1].w \in Nat /\ images[n + 1].h \in Nat
    BY <1>1, <2>1, ImagesAreImages DEF IsImage
  <2> SUFFICES ASSUME x - images[n + 1].x \in 0 .. images[n + 1].w - 1,
                      y - images[n + 1].y \in 0 .. images[n + 1].h - 1,
                      x - images[n + 1].x < NoColumns(images[n + 1])[y - images[n + 1].y]
               PROVE  FALSE
    BY <1>1, <1>5 DEF Drawn
  <2> QED
    BY <2>2 DEF NoColumns
<1>6. n' - 1 = n
  BY <1>1, <1>2
<1>7. CASE n = Len(images)
  <2>1. stage' = "done"
    BY <1>1, <1>7
  <2> QED
    BY <1>1, <1>4, <1>7, <2>1 DEF PictureInv, OnScreen
<1>8. CASE n # Len(images)
  <2>1. stage' = "blend"
    BY <1>1, <1>8
  <2> QED
    BY <1>1, <1>4, <1>5, <1>6, <2>1 DEF PictureInv, OnScreen
<1> QED
  BY <1>7, <1>8

LEMMA PictureStep == FrameInv /\ PictureInv /\ [Next]_vars => PictureInv'
<1> SUFFICES ASSUME FrameInv, PictureInv, [Next]_vars
             PROVE  PictureInv'
  OBVIOUS
<1>1. CASE Bounds
  BY <1>1 DEF Bounds, PictureInv
<1>2. CASE Allocate
  BY <1>2, AllocatePicture
<1>3. CASE \E y \in DOMAIN column : Pixel(y)
  BY <1>3, PixelPicture
<1>4. CASE NextImage
  BY <1>4, NextImagePicture
<1>5. CASE UNCHANGED vars
  BY <1>5 DEF vars, PictureInv, OnScreen, Shown, Width, Drawn
<1> QED
  BY <1>1, <1>2, <1>3, <1>4, <1>5 DEF Next

\* There is nothing of an image outside the rectangle.
LEMMA ImageFits ==
  ASSUME FrameInv, stage = "done", NEW i \in 1 .. Len(images)
  PROVE  UnionRect(rect, RectOf(images[i])) = rect
<1> DEFINE r == RectOf(images[i])
<1>1. /\ images[i].x \in Int /\ images[i].y \in Int
      /\ images[i].w \in Nat /\ images[i].h \in Nat
  BY ImagesAreImages DEF FrameInv, TypeInv, IsImage
<1>2. rect \in RectSet /\ r \in RectSet
  BY <1>1 DEF FrameInv, TypeInv, RectSet, RectOf, Rect
<1>3. CASE IsEmpty(r)
  <2>1. IsEmpty(rect) => rect = Rect(0, 0, 0, 0)
    BY DEF FrameInv, RectInv
  <2> HIDE DEF r
  <2> QED
    BY <1>3, <2>1 DEF UnionRect, r
<1>4. CASE ~IsEmpty(r)
  <2>1. images[i].w > 0 /\ images[i].h > 0
    BY <1>1, <1>4 DEF IsEmpty, RectOf, Rect
  <2>2. Holds(i)
    BY DEF FrameInv, RectInv
  <2>3. Within(r, rect)
    BY <2>1, <2>2 DEF Holds, Within, RectOf, Rect
  <2> HIDE DEF r
  <2>4. ~IsEmpty(rect)
    BY <1>2, <1>4, <2>3 DEF IsEmpty, Within, RectSet
  <2>5. UnionRect(rect, r) = Rect(Least(rect.left, r.left), Least(rect.top, r.top),
                                  Greatest(rect.right, r.right), Greatest(rect.bottom, r.bottom))
    BY <1>4, <2>4 DEF UnionRect
  <2>6. /\ Least(rect.left, r.left) = rect.left /\ Least(rect.top, r.top) = rect.top
        /\ Greatest(rect.right, r.right) = rect.right
        /\ Greatest(rect.bottom, r.bottom) = rect.bottom
    BY <1>2, <2>3 DEF Within, RectSet, Least, Greatest
  <2>7. rect = Rect(rect.left, rect.top, rect.right, rect.bottom)
    BY <1>2 DEF RectSet, Rect
  <2> QED
    BY <2>5, <2>6, <2>7 DEF r
<1> QED
  BY <1>3, <1>4

\* For images of any number, size and overlap, and any order of the threads, every
\* place of the bitmap is the images there, the later over the earlier, and the bitmap
\* has all of them (SubFrame.cpp:60-140).
THEOREM FrameIsLayered == Spec => []PictureIsLayered
<1>1. Init => PictureInv
  <2>1. Init => stage = "bounds" \/ images = <<>>
    BY DEF Init
  <2>2. Init => stage # "blend"
    BY DEF Init
  <2> QED
    BY <2>1, <2>2 DEF PictureInv, Init
<1>2. Spec => []PictureInv
  BY <1>1, FrameInvariant, PictureStep, PTL DEF Spec
<1>3. FrameInv /\ PictureInv => PictureIsLayered
  <2> SUFFICES ASSUME FrameInv, PictureInv, stage = "done", images # <<>>
               PROVE  /\ \A x \in rect.left .. rect.right - 1, y \in rect.top .. rect.bottom - 1 :
                           Shown(x, y) = Layers(images, x, y)[Len(images)]
                      /\ \A i \in DOMAIN images : UnionRect(rect, RectOf(images[i])) = rect
    BY DEF PictureIsLayered
  <2>1. DOMAIN images = 1 .. Len(images)
    <3>1. images \in Seq({images[k] : k \in DOMAIN images})
      BY FramesAssumption DEF FrameInv, TypeInv
    <3> QED
      BY <3>1
  <2>2. ASSUME NEW x \in rect.left .. rect.right - 1, NEW y \in rect.top .. rect.bottom - 1
        PROVE  Shown(x, y) = Layers(images, x, y)[Len(images)]
    <3>1. rect.left \in Int /\ rect.right \in Int /\ rect.top \in Int /\ rect.bottom \in Int
      BY DEF FrameInv, TypeInv
    <3>2. x \in Int /\ y \in Int /\ OnScreen(x, y)
      BY <3>1 DEF OnScreen
    <3> QED
      BY <3>2 DEF PictureInv
  <2> QED
    BY <2>1, <2>2, ImageFits
<1> QED
  BY <1>2, <1>3, FrameInvariant, PTL

=============================================================================
