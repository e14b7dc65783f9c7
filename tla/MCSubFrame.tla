----------------------------- MODULE MCSubFrame -----------------------------
(***************************************************************************)
(* Frames for TLC: up to three images around one another, beside one       *)
(* another or empty, of opaque, half and hardly opaque pixels.             *)
(***************************************************************************)
EXTENDS SubFrame, FiniteSets

Image(x, y, w, h, gap, colour, transparency, values) ==
  LET image == [x |-> x, y |-> y, w |-> w, h |-> h, stride |-> w + gap,
                colour |-> colour, transparency |-> transparency]
      size == BitmapSize(image)
  IN [f \in DOMAIN image \cup {"bitmap"} |->
        IF f = "bitmap" THEN [i \in 0 .. size - 1 |-> values[(i % Len(values)) + 1]]
        ELSE image[f]]

Glyphs ==
  {Image(3, 2, 2, 3, 1, c, t, v) :
     c \in {0, 128, 255}, t \in {0, 1, 255}, v \in {<<255>>, <<0, 1, 128, 255>>}}
Borders ==
  {Image(2, 1, 4, 3, 0, c, 0, <<255, 128, 254>>) : c \in {1, 255}}
  \cup {Image(4, 4, 3, 1, 0, 255, 127, <<255>>), Image(9, 0, 0, 2, 1, 255, 0, <<255>>)}
Shadows == {Image(3, 3, 2, 2, 2, 7, 128, <<255, 200>>), Image(0, 0, 0, 0, 0, 0, 0, <<0>>)}

MCFrames ==
  {<<>>} \cup {<<g>> : g \in Glyphs} \cup {<<b, g>> : b \in Borders, g \in Glyphs}
  \cup {<<s, b, g>> : s \in Shadows, b \in Borders, g \in Glyphs}

=============================================================================
