------------------------------ MODULE MCSrtLine ------------------------------
(***************************************************************************)
(* The lines TLC gives to the parser: everything short that can be written *)
(* with the signs of tags, of a font tag's attributes and of MicroDVD      *)
(* codes, and longer lines put together from whole tags.                   *)
(***************************************************************************)
EXTENDS SrtLine

CONSTANTS
  TagLength,   \* bound: the tokens of a line of signs and short words
  FontLength,  \* bound: the tokens behind "<font "
  DvdLength,   \* bound: the tokens behind "{"
  Pieces       \* bound: the whole tags and texts of a line

TagTokens == {"<", ">", "/", "blank", "b", "x"}
FontTokens == {"size", "color", "=", "'", "num", "x", ">", "blank"}
DvdTokens == {"lbrace", "rbrace", ":", "y", "i", "b", "c", "$", "hex6"}

WholeTags ==
  {<<"x">>, <<"nl">>, <<"<", "b", ">">>, <<"<", "/", "b", ">">>, <<"<", "i", ">">>,
   <<"<", "br", ">">>, <<"<", "/", "font", ">">>,
   <<"<", "font", "blank", "color", "=", "red", ">">>,
   <<"<", "font", "blank", "color", "=", "'", "x", "'", "blank", "size", "=", "num", ">">>,
   <<"<", "font", "blank", "face", "=", "x", "blank", "size", "=", "'", "num", "'", ">">>}

\* Words that do not fit, and what the shorter families leave out.
OddLines ==
  {<<"<", "huge", ">">>, <<"<", "/", "b", "huge", ">">>,
   <<"<", "font", "blank", "huge", "=", "x", ">">>, <<"<", "font", "blank", "color", "=", "huge", ">">>,
   <<"x", "cr", "nl", "x">>,
   <<"<", "font", "blank", "color", "=", "cr", "nl", "red", ">", "x">>,
   <<"lbrace", "s", ":", "num", "rbrace", "x">>,
   <<"lbrace", "f", ":", "x", "rbrace", "lbrace", "x", ":", "rbrace">>,
   <<"<", "font", "blank", "color", "=", "#", "b", ">", "x">>,
   <<"<", "font", "blank", "color", ">", "x", "=", "x", ">", "x">>}

MCLines ==
  SeqOf(TagTokens, TagLength)
  \cup {<<"<", "font", "blank">> \o s : s \in SeqOf(FontTokens, FontLength)}
  \cup {<<"lbrace">> \o s : s \in SeqOf(DvdTokens, DvdLength)}
  \cup {FlattenSeq(s) : s \in SeqOf(WholeTags, Pieces)}
  \cup OddLines

=============================================================================
