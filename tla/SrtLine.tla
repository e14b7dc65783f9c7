------------------------------- MODULE SrtLine -------------------------------
(***************************************************************************)
(* ParseSrtLine: the markup of one SRT subtitle, HTML tags and the codes   *)
(* of MicroDVD, is turned into ASS overrides.                              *)
(*                                                                         *)
(* A line is a sequence of tokens: single characters, and the words the    *)
(* parser compares with.  Two words without anything between them are one  *)
(* longer word, which it does not know.  The style u is handled as b is,   *)
(* and left out; so are the letters of either case.  "num" is a number     *)
(* other than zero, "hex6" the digits of a colour, which begin with a 0,   *)
(* "red" a colour's name, and "huge" a word that does not fit the parser's *)
(* buffers.  "blank", "lbrace" and "rbrace" are the space and the braces,  *)
(* and "none" is an empty word.                                            *)
(***************************************************************************)
EXTENDS Integers, SequencesExt

CONSTANT Lines  \* the lines given to the parser

Alpha == {"b", "i", "br", "font", "face", "size", "color", "red",
          "y", "c", "f", "s", "x", "huge"}
Digits == {"num", "hex6"}
Alnum == Alpha \cup Digits
Signs == {"<", ">", "/", "blank", "=", "'", "#", "lbrace", "rbrace", ":", "$", "nl", "cr"}
Tokens == Alnum \cup Signs

ASSUME LinesAssumption == Lines \subseteq Seq(Tokens)

VARIABLES
  line,  \* the input
  pos,   \* psz_subtitle, as a place in the line
  out,   \* subtitle_output
  pc     \* "text": the loop over the line, "font": over the attributes of a
         \* font tag, "done", or what ends the process: "overrun", "threw",
         \* "aborted"

vars == <<line, pos, out, pc>>

\* What the output consists of: a style set to a value, a newline, or the token
\* of the input at a place.
Set(style, value) == <<[style |-> style, value |-> value, at |-> 0]>>
Newline == <<[style |-> "newline", value |-> "none", at |-> 0]>>
Text(i) == <<[style |-> "text", value |-> "none", at |-> i]>>

Init ==
  /\ line \in Lines
  /\ pos = 1
  /\ out = <<>>
  /\ pc = "text"

-----------------------------------------------------------------------------
(* Reading the line.  The end of the line is the terminating NUL.          *)

At(i) == IF i \in 1 .. Len(line) THEN line[i] ELSE "end"

\* The first place from i on where there is none of these tokens.
After(i, these) ==
  CHOOSE j \in i .. Len(line) + 1 :
    At(j) \notin these /\ \A k \in i .. j - 1 : At(k) \in these

Until(i, token) == After(i, Tokens \ {token})

\* The tokens from i to j - 1 as one word.
Word(i, j) ==
  CASE j = i -> "none"
    [] j = i + 1 -> line[i]
    [] OTHER -> "other"

Huge(i, j) == \E k \in i .. j - 1 : line[k] = "huge"

\* GetTag: the name of the tag that starts here, if one does, and the place
\* after it.
GetTag(closing) ==
  LET start == After(IF closing /\ At(pos + 1) = "/" THEN pos + 2 ELSE pos + 1, {"blank"})
      next == After(start, Alnum)
  IN  IF At(start) \in Alpha
      THEN [name |-> Word(start, next), next |-> next, huge |-> Huge(start, next)]
      ELSE [name |-> "none", next |-> pos, huge |-> FALSE]

AfterTagAndBlanks(i) == After(After(i, Tokens \ {">"}), {">", "blank"})

\* Skip to the end of the tag: to the end of the line if there is none.
AfterTag(i) == IF At(Until(i, ">")) = ">" THEN Until(i, ">") + 1 ELSE Until(i, ">")

\* ConsumeAttribute: a name, "=", and a value that is in quotes or a word.  The
\* "=" is looked for up to the end of the line, and skipped without a look.
NoAttribute == [name |-> "none", value |-> "none", first |-> "none", next |-> 0, fault |-> "none"]

Attribute ==
  LET start == After(pos, {"blank"})
      nameEnd == After(start, Alpha)
      equals == Until(nameEnd, "=")
      quote == After(equals + 1, {"blank", "nl", "cr"})
      quoted == At(quote) = "'"
      sharp == After(IF quoted THEN quote + 1 ELSE quote, {"blank", "nl", "cr"})
      value == IF At(sharp) = "#" THEN sharp + 1 ELSE sharp
      end == IF quoted THEN Until(value, "'") ELSE After(value, Alnum \cup {"#"})
  IN  IF nameEnd = start \/ At(nameEnd) = "end" THEN NoAttribute
      ELSE IF Huge(start, nameEnd) THEN [NoAttribute EXCEPT !.fault = "aborted"]
      ELSE IF At(equals) = "end" THEN [NoAttribute EXCEPT !.fault = "overrun"]
      ELSE IF Huge(value, end) THEN [NoAttribute EXCEPT !.fault = "aborted"]
      ELSE [name |-> Word(start, nameEnd), value |-> Word(value, end),
            first |-> IF end = value THEN "none" ELSE line[value],
            next |-> IF quoted /\ At(end) = "'" THEN end + 1 ELSE end,
            fault |-> "none"]

HexWords == Digits \cup {"b", "br", "c", "f", "face", "font", "color"}

\* The colour of a font tag: white unless it is a known name or strtoul finds a
\* digit, and swapRGBtoBGR writes outside a string of fewer than six characters.
Colour(attribute) ==
  IF attribute.value \in {"red", "hex6"} THEN attribute.value
  ELSE IF attribute.first \in HexWords THEN "garbage"
  ELSE "white"

\* What an attribute puts into the output.
Overrides(attribute) ==
  CASE attribute.name = "face" -> Set("fn", attribute.value)
    [] attribute.name = "size" -> Set("fs", attribute.value)
    [] attribute.name = "color" -> Set("c", Colour(attribute))
    [] OTHER -> <<>>

\* What an opening and a closing tag put into the output.
Opened(name) ==
  CASE name = "br" -> Newline
    [] name \in {"b", "i", "s"} -> Set(name, "on")
    [] OTHER -> <<>>

ClosedKeepsFont(name) ==
  CASE name \in {"b", "i", "s"} -> Set(name, "off")
    [] name = "font" -> Set("c", "default") \o Set("fn", "default")
    [] OTHER -> <<>>

Closed(name) ==
  CASE name \in {"b", "i", "s"} -> Set(name, "off")
    [] name = "font" -> Set("c", "default") \o Set("fn", "default") \o Set("fs", "default")
    [] OTHER -> <<>>

Stop(how) == pc' = how /\ UNCHANGED <<line, pos, out>>

-----------------------------------------------------------------------------
(* HTML tags.                                                              *)

InText(token) == pc = "text" /\ At(pos) = token

OpenTag ==
  LET tag == GetTag(FALSE) IN
  /\ InText("<")
  /\ tag.name \notin {"none", "font"}
  /\ ~tag.huge
  /\ out' = out \o Opened(tag.name)
  /\ pos' = AfterTag(tag.next)
  /\ UNCHANGED <<line, pc>>

HugeTag ==
  /\ InText("<")
  /\ GetTag(TRUE).huge
  /\ Stop("aborted")

FontTag ==
  /\ InText("<")
  /\ GetTag(FALSE).name = "font"
  /\ pos' = GetTag(FALSE).next
  /\ pc' = "font"
  /\ UNCHANGED <<line, out>>

FontAttribute ==
  /\ pc = "font"
  /\ Attribute.name # "none"
  /\ Attribute.name = "size" => Attribute.first \in Digits
  /\ out' = out \o Overrides(Attribute)
  /\ pos' = Attribute.next
  /\ UNCHANGED <<line, pc>>

\* std::stod throws for a size that is no number.
SizeIsNoNumber ==
  /\ pc = "font"
  /\ Attribute.name = "size"
  /\ Attribute.first \notin Digits
  /\ Stop("threw")

AttributeFault ==
  /\ pc = "font"
  /\ Attribute.fault # "none"
  /\ Stop(Attribute.fault)

EndFontTag ==
  /\ pc = "font"
  /\ Attribute.name = "none"
  /\ Attribute.fault = "none"
  /\ pos' = AfterTag(pos)
  /\ pc' = "text"
  /\ UNCHANGED <<line, out>>

ClosesTag == InText("<") /\ GetTag(FALSE).name = "none" /\ At(pos + 1) = "/"

CloseTag ==
  LET tag == GetTag(TRUE)
      end == After(tag.next, {"blank"})
  IN
  /\ ClosesTag
  /\ tag.name # "none"
  /\ ~tag.huge
  /\ out' = out \o Closed(tag.name)
  /\ pos' = IF At(end) = ">" THEN end + 1 ELSE end
  /\ UNCHANGED <<line, pc>>

\* A closing tag without a name moves nothing: the loop looks at it for ever.
NamelessClose ==
  /\ ClosesTag
  /\ GetTag(TRUE).name = "none"
  /\ UNCHANGED vars

-----------------------------------------------------------------------------
(* MicroDVD codes and text.                                                *)

\* The characters a token stands for.
Width == [t \in Tokens |->
  CASE t \in {"br"} -> 2 [] t = "red" -> 3 [] t \in {"font", "face", "size"} -> 4
    [] t = "color" -> 5 [] t = "hex6" -> 6 [] t = "huge" -> 512 [] OTHER -> 1]

\* {x:...}: one character, a colon, and a closing brace somewhere behind it.
IsMicroDvd ==
  /\ InText("lbrace")
  /\ At(pos + 2) = ":"
  /\ Width[At(pos + 1)] = 1
  /\ At(Until(pos + 3, "rbrace")) = "rbrace"

\* What {x:value} puts into the output: y sets styles, i before b, c a colour,
\* f a font and s a size that is not zero.
MicroDvdOverrides(value, end) ==
  LET second == IF At(value) = "i" THEN value + 1 ELSE value
      length == SumFunctionOnSet([k \in value .. end - 1 |-> Width[line[k]]], value .. end - 1)
      colour == IF At(value + 1) = "hex6" THEN "hex6" ELSE "garbage"
  IN  CASE At(pos + 1) = "y" ->
             (IF At(value) = "i" THEN Set("i", "on") ELSE <<>>)
             \o (IF At(second) \in {"b", "br"} THEN Set("b", "on") ELSE <<>>)
        [] At(pos + 1) = "c" /\ At(value) = "$" /\ length >= 7 -> Set("c", colour)
        [] At(pos + 1) = "f" -> Set("fn", Word(value, end))
        [] At(pos + 1) = "s" /\ At(After(value, {"blank", "nl", "cr"})) = "num" -> Set("fs", "num")
        [] OTHER -> <<>>

MicroDvd ==
  LET end == Until(pos + 3, "rbrace") IN
  /\ IsMicroDvd
  /\ out' = out \o MicroDvdOverrides(pos + 3, end)
  /\ pos' = end + 1
  /\ UNCHANGED <<line, pc>>

BraceAtEndOneOff ==
  /\ InText("lbrace")
  /\ pos >= Len(line) - 1
  /\ Stop("overrun")

\* A brace at the end of the line: psz_subtitle[2] is behind the NUL, and the
\* search goes on from there if it happens to be a colon.
BraceAtEnd ==
  /\ InText("lbrace")
  /\ pos = Len(line)
  /\ Stop("overrun")

Literal(token) == token \notin {"end", "cr", "nl", "<"} /\ ~IsMicroDvd

\* Everything else is copied; a "<" that starts no tag is, too.
Copy ==
  /\ pc = "text"
  /\ \/ Literal(At(pos))
     \/ At(pos) = "<" /\ GetTag(FALSE).name = "none" /\ ~ClosesTag
  /\ out' = out \o Text(pos)
  /\ pos' = pos + 1
  /\ UNCHANGED <<line, pc>>

LineBreakStays ==
  /\ pc = "text"
  /\ At(pos) \in {"nl", "cr"}
  /\ out' = IF At(pos) = "nl" THEN out \o Newline ELSE out
  /\ pos' = IF At(pos) = "nl" THEN pos + 1 ELSE pos
  /\ UNCHANGED <<line, pc>>

LineBreak ==
  /\ pc = "text"
  /\ At(pos) \in {"nl", "cr"}
  /\ out' = IF At(pos) = "nl" THEN out \o Newline ELSE out
  /\ pos' = pos + 1
  /\ UNCHANGED <<line, pc>>

Return ==
  /\ InText("end")
  /\ Stop("done")

Next ==
  \/ OpenTag \/ HugeTag \/ FontTag \/ FontAttribute \/ SizeIsNoNumber
  \/ AttributeFault \/ EndFontTag \/ CloseTag \/ NamelessClose
  \/ MicroDvd \/ BraceAtEnd \/ Copy \/ LineBreak \/ Return

Spec == Init /\ [][Next]_vars

\* The function runs to its end on the thread that called it.
FairSpec == Spec /\ WF_vars(Next)

-----------------------------------------------------------------------------
(* Properties.                                                             *)

\* The markup a subtitle is written in: tags that are closed before the next
\* one begins, and font tags with one or two attributes.
Values(name) ==
  CASE name = "color" -> {"red", "hex6", "x"} [] name = "size" -> {"num"} [] OTHER -> {"x"}
Attributes ==
  UNION {{<<"blank", n, "=", v>> : v \in Values(n)}
           \cup {<<"blank", n, "=", "'", v, "'">> : v \in Values(n)} :
         n \in {"color", "size", "face"}}
PlainTags == {<<w>> : w \in {"b", "i", "br", "x"}}
TagBodies ==
  PlainTags \cup {<<"/">> \o t : t \in PlainTags \cup {<<"font">>}}
  \cup {<<"font">> \o a : a \in Attributes}
  \cup {<<"font">> \o ab[1] \o ab[2] : ab \in Attributes \X Attributes}

TagEnd(i) == Until(i, ">")
Body(i) == SubSeq(line, i + 1, TagEnd(i) - 1)
InTag(i) == \E j \in 1 .. i : line[j] = "<" /\ i <= TagEnd(j)

WellFormed ==
  \A i \in 1 .. Len(line) :
    /\ line[i] = "<" => At(TagEnd(i)) = ">" /\ Body(i) \in TagBodies
    /\ line[i] = ">" => InTag(i)
    /\ line[i] \notin {"lbrace", "huge"}

\* What a tag sets a style to, if it does.
Setting(body, style) ==
  LET attribute == CASE style = "c" -> "color" [] style = "fs" -> "size" [] OTHER -> "face"
      places == {k \in 2 .. Len(body) - 1 : body[k] = attribute /\ body[k + 1] = "="}
      value(k) == IF body[k + 2] = "'" THEN body[k + 3] ELSE body[k + 2]
      given == value(Max(places))
  IN  CASE body = <<style>> -> "on"
        [] body = <<"/", style>> -> "off"
        [] style \in {"c", "fn", "fs"} /\ body = <<"/", "font">> -> "default"
        [] style \in {"c", "fn", "fs"} /\ places # {} ->
             IF style = "c" /\ given = "x" THEN "white" ELSE given
        [] OTHER -> "none"

\* The style of the token at i as the tags before it have it.
StyleAt(i, style) ==
  LET tags == {j \in 1 .. i - 1 : line[j] = "<" /\ Setting(Body(j), style) # "none"}
  IN  IF tags = {} THEN "unset" ELSE Setting(Body(Max(tags)), style)

\* The style of the n-th item of the output as the overrides before it have it.
StyleOf(n, style) ==
  LET sets == {m \in 1 .. n - 1 : out[m].style = style}
  IN  IF sets = {} THEN "unset" ELSE out[Max(sets)].value

\* Of a well-formed line the output has the text outside the tags, each token
\* once and in its order, and in the style the tags give it, however the tags are
\* nested or left open (Tools.cpp:297-434).
StyledAsTagged ==
  pc = "done" /\ WellFormed =>
    LET texts == {n \in 1 .. Len(out) : out[n].style = "text"} IN
    /\ {out[n].at : n \in texts} =
         {i \in 1 .. Len(line) : ~InTag(i) /\ line[i] \notin {"nl", "cr"}}
    /\ \A m, n \in texts : m < n => out[m].at < out[n].at
    /\ \A n \in texts, style \in {"b", "i", "c", "fn", "fs"} :
         StyleOf(n, style) = StyleAt(out[n].at, style)

\* Whatever the line is, a token without a font tag before it is left out only if it
\* is markup: between "<" and ">" or "{" and "}", in a tag that is never closed, or
\* the name, the blanks and the ">" of a closing tag (Tools.cpp:297-513).
Markup(i) ==
  \/ line[i] \in {"nl", "cr"}
  \/ \E j \in 1 .. i : line[j] = "<" /\ \A k \in j .. i - 1 : line[k] # ">"
  \/ \E j \in 1 .. i : line[j] = "lbrace" /\ \A k \in j + 2 .. i - 1 : line[k] # "rbrace"

OnlyMarkupIsHidden ==
  \A i \in 1 .. pos - 1 :
    \/ \E n \in 1 .. Len(out) : out[n].at = i
    \/ Markup(i)
    \/ \E j \in 1 .. i : line[j] = "font"

\* The memory behind the line is read only for a brace at its end or for a font tag
\* with no "=" behind it, the call ends with an exception only for a font size that
\* is no number, and with an abort only for a word that does not fit
\* (Tools.cpp:176-218, 253, 347, 442).
FaultsHaveTheirCause ==
  /\ pc = "overrun" =>
       \/ pos = Len(line) /\ line[pos] = "lbrace"
       \/ /\ \E j \in 1 .. pos : At(j) = "font"
          /\ \A j \in pos .. Len(line) : line[j] # "="
  /\ pc = "threw" =>
       \E j \in pos .. Len(line) :
         /\ line[j] = "size"
         /\ ~(At(j + 1) = "=" /\ At(IF At(j + 2) = "'" THEN j + 3 ELSE j + 2) \in Digits)
  /\ pc = "aborted" => \E j \in pos .. Len(line) : line[j] = "huge"

\* The loop ends for every line that has no closing tag without a name, however
\* broken its markup is (Tools.cpp:384-424).
HasNamelessClose ==
  \E i \in 1 .. Len(line) :
    line[i] = "<" /\ At(i + 1) = "/" /\ At(After(i + 2, {"blank"})) \notin Alpha

EndsUnlessNameless == <>(HasNamelessClose \/ pc \notin {"text", "font"})

=============================================================================
