------------------------------ MODULE SrtProofs ------------------------------
(***************************************************************************)
(* Proofs about SRT subtitles: the parser of a line, for lines of any      *)
(* length and any tokens, and the reader of a file, for files of any       *)
(* length and any order of the kinds of lines.                             *)
(*                                                                         *)
(* A line is proved about in two invariants.  ParserInv holds for every    *)
(* line.  StyleInv says of a well-formed line that what has been put out   *)
(* so far agrees with the tags passed so far: between tags the styles are  *)
(* those of the place (PlaceInv), within a font tag those of its first     *)
(* attribute or of both, and every token copied has the styles of its      *)
(* place and stays where it is (TextInv).                                  *)
(***************************************************************************)
EXTENDS SrtLine, SrtFile, FiniteSetTheorems, WellFoundedInduction, TLAPS

\* Natural numbers are well founded: the sets of the numbers below them are finite.
LEMMA LeastNat ==
  ASSUME NEW T, T \subseteq Nat, T # {}
  PROVE  \E m \in T : \A k \in T : m <= k
<1> DEFINE R == StrictSubsetOrdering(Nat)
           D == {0 .. m - 1 : m \in T}
<1>1. IsWellFoundedOn(R, FiniteSubsetsOf(Nat))
  BY FS_StrictSubsetOrderingWellFounded, Zenon
<1>2. ASSUME NEW m \in T
      PROVE  0 .. m - 1 \in FiniteSubsetsOf(Nat)
  <2>1. 0 \in Int /\ m - 1 \in Int
    OBVIOUS
  <2>2. IsFiniteSet(0 .. m - 1)
    BY <2>1, FS_Interval, Zenon
  <2>3. 0 .. m - 1 \in SUBSET Nat
    OBVIOUS
  <2> QED
    BY <2>2, <2>3, Zenon DEF FiniteSubsetsOf
<1>3. D \subseteq FiniteSubsetsOf(Nat) /\ D # {}
  BY <1>2, Zenon
<1>4. PICK d \in D : \A e \in D : ~ (<<e, d>> \in R)
  <2> HIDE DEF D, R
  <2> QED
    BY <1>1, <1>3, WFMin, Zenon
<1>5. PICK m \in T : d = 0 .. m - 1
  OBVIOUS
<1>6. ASSUME NEW k \in T, k < m
      PROVE  FALSE
  <2>1. 0 .. k - 1 \in D
    OBVIOUS
  <2>2. /\ 0 .. k - 1 \in SUBSET Nat
        /\ 0 .. m - 1 \in SUBSET Nat
        /\ 0 .. k - 1 \subseteq 0 .. m - 1
    BY <1>6
  <2>3. k \in 0 .. m - 1 /\ k \notin 0 .. k - 1
    BY <1>6
  <2>4. <<0 .. k - 1, 0 .. m - 1>> \in R
    BY <2>2, <2>3, Zenon DEF StrictSubsetOrdering
  <2> QED
    BY <1>4, <1>5, <2>1, <2>4, Zenon
<1> QED
  BY <1>6

-----------------------------------------------------------------------------
(* Reading the line.                                                       *)

Styles == {"b", "i", "s", "c", "fn", "fs", "newline", "text"}
Settings == Tokens \cup {"none", "other", "on", "off", "default", "white", "garbage"}
Items == [style : Styles, value : Settings, at : Nat]

LineInv ==
  /\ line \in Seq(Tokens)
  /\ pos \in 1 .. Len(line) + 1
  /\ out \in Seq(Items)
  /\ pc \in {"text", "font", "done", "overrun", "threw", "aborted"}

LEMMA AtFacts ==
  ASSUME line \in Seq(Tokens)
  PROVE  /\ Len(line) \in Nat
         /\ \A i \in 1 .. Len(line) : At(i) = line[i] /\ line[i] \in Tokens
         /\ \A i : At(i) \in Tokens <=> i \in 1 .. Len(line)
         /\ \A i : At(i) \notin Tokens <=> At(i) = "end"
         /\ "end" \notin Tokens
<1>1. "end" \notin Tokens
  BY DEF Tokens, Alnum, Alpha, Digits, Signs
<1>2. Len(line) \in Nat /\ \A i \in 1 .. Len(line) : line[i] \in Tokens
  OBVIOUS
<1> QED
  BY <1>1, <1>2 DEF At

\* The search ends: at the end of the line at the latest.
LEMMA AfterFacts ==
  ASSUME line \in Seq(Tokens), NEW i \in 1 .. Len(line) + 1, NEW these, "end" \notin these
  PROVE  /\ After(i, these) \in i .. Len(line) + 1
         /\ At(After(i, these)) \notin these
         /\ \A k \in i .. After(i, these) - 1 : At(k) \in these
<1> DEFINE T == {j \in i .. Len(line) + 1 : At(j) \notin these}
<1>1. Len(line) \in Nat /\ At(Len(line) + 1) = "end"
  BY AtFacts DEF At
<1>2. T \subseteq Nat /\ T # {}
  BY <1>1
<1>3. PICK m \in T : \A k \in T : m <= k
  <2> HIDE DEF T
  <2> QED
    BY <1>2, LeastNat
<1>4. m \in i .. Len(line) + 1 /\ At(m) \notin these /\ \A k \in i .. m - 1 : At(k) \in these
  BY <1>1, <1>3
<1> QED
  BY <1>4 DEF After

\* The search for a token.
LEMMA UntilFacts ==
  ASSUME line \in Seq(Tokens), NEW i \in 1 .. Len(line) + 1, NEW token \in Tokens
  PROVE  /\ Until(i, token) \in i .. Len(line) + 1
         /\ At(Until(i, token)) = token \/ At(Until(i, token)) = "end"
         /\ \A k \in i .. Until(i, token) - 1 : At(k) # token
<1>1. "end" \notin Tokens \ {token}
  BY AtFacts
<1>2. /\ After(i, Tokens \ {token}) \in i .. Len(line) + 1
      /\ At(After(i, Tokens \ {token})) \notin Tokens \ {token}
      /\ \A k \in i .. After(i, Tokens \ {token}) - 1 : At(k) \in Tokens \ {token}
  BY <1>1, AfterFacts
<1> QED
  BY <1>2, AtFacts DEF Until

\* A word that is a token is this token alone.
LEMMA WordFacts ==
  ASSUME line \in Seq(Tokens), NEW i \in 1 .. Len(line) + 1, NEW j \in i .. Len(line) + 1
  PROVE  /\ Word(i, j) \in Settings
         /\ Word(i, j) \in Tokens => j = i + 1 /\ line[i] = Word(i, j)
         /\ j = i + 1 => Word(i, j) = line[i]
<1>1. "none" \notin Tokens /\ "other" \notin Tokens
  BY DEF Tokens, Alnum, Alpha, Digits, Signs
<1>2. Len(line) \in Nat /\ i \in Int /\ j \in Int
  BY AtFacts
<1>3. CASE j = i
  BY <1>1, <1>2, <1>3 DEF Word, Settings
<1>4. CASE j = i + 1
  <2>1. Word(i, j) = line[i]
    BY <1>2, <1>4 DEF Word
  <2>2. line[i] \in Tokens
    BY <1>2, <1>4, AtFacts
  <2> QED
    BY <1>4, <2>1, <2>2 DEF Settings
<1>5. CASE j # i /\ j # i + 1
  BY <1>1, <1>2, <1>5 DEF Word, Settings
<1> QED
  BY <1>3, <1>4, <1>5

\* A tag's name is on the line behind its "<", before any ">".
LEMMA TagFacts ==
  ASSUME LineInv, At(pos) = "<", NEW closing \in BOOLEAN
  PROVE  LET tag == GetTag(closing) IN
         /\ tag.next \in pos .. Len(line) + 1
         /\ tag.name # "none" => tag.next > pos + 1
         /\ tag.name \in Tokens => \E k \in pos + 1 .. tag.next - 1 : line[k] = tag.name
         /\ \A k \in pos .. tag.next - 1 : At(k) # ">"
         /\ tag.huge => \E k \in pos .. Len(line) : line[k] = "huge"
<1> DEFINE first == IF closing /\ At(pos + 1) = "/" THEN pos + 2 ELSE pos + 1
           start == After(first, {"blank"})
           next == After(start, Alnum)
<1>1. /\ line \in Seq(Tokens) /\ Len(line) \in Nat /\ pos \in 1 .. Len(line)
      /\ "<" # ">" /\ "/" # ">" /\ "blank" # ">" /\ "/" \in Tokens /\ "<" \in Tokens
      /\ ">" \notin Alnum
      /\ "none" \notin Tokens /\ Alpha \subseteq Alnum /\ Alnum \subseteq Tokens
  <2>1. /\ "<" # ">" /\ "/" # ">" /\ "blank" # ">" /\ "/" \in Tokens /\ "<" \in Tokens
        /\ ">" \notin Alnum
        /\ "none" \notin Tokens /\ Alpha \subseteq Alnum /\ Alnum \subseteq Tokens
    BY DEF Tokens, Alnum, Alpha, Digits, Signs
  <2> QED
    BY <2>1, AtFacts DEF LineInv
<1>2. /\ first \in pos + 1 .. Len(line) + 1
      /\ \A k \in pos .. first - 1 : At(k) # ">"
  <2>1. At(pos + 1) = "/" => pos + 1 \in 1 .. Len(line)
    BY <1>1, AtFacts
  <2> QED
    BY <1>1, <2>1
<1>3. /\ start \in first .. Len(line) + 1
      /\ At(start) \notin {"blank"}
      /\ \A k \in first .. start - 1 : At(k) \in {"blank"}
  <2> HIDE DEF first
  <2>1. first \in 1 .. Len(line) + 1 /\ "end" \notin {"blank"}
    BY <1>1, <1>2
  <2> QED
    BY <1>1, <2>1, AfterFacts
<1>4. /\ next \in start .. Len(line) + 1
      /\ At(next) \notin Alnum
      /\ \A k \in start .. next - 1 : At(k) \in Alnum
  <2> HIDE DEF start, first
  <2>1. start \in 1 .. Len(line) + 1 /\ "end" \notin Alnum
    BY <1>1, <1>2, <1>3, AtFacts
  <2> QED
    BY <1>1, <2>1, AfterFacts
<1>5. GetTag(closing) = IF At(start) \in Alpha
                        THEN [name |-> Word(start, next), next |-> next, huge |-> Huge(start, next)]
                        ELSE [name |-> "none", next |-> pos, huge |-> FALSE]
  BY DEF GetTag
<1> HIDE DEF first, start, next
<1>6. CASE At(start) \in Alpha
  <2>1. next > start
    BY <1>1, <1>2, <1>3, <1>4, <1>6
  <2>2. \A k \in pos .. next - 1 : At(k) # ">"
    BY <1>1, <1>2, <1>3, <1>4
  <2>3. Word(start, next) \in Tokens => line[start] = Word(start, next)
    BY <1>1, <1>2, <1>3, <1>4, WordFacts
  <2>4. Huge(start, next) => \E k \in pos .. Len(line) : line[k] = "huge"
    BY <1>1, <1>2, <1>3, <1>4 DEF Huge
  <2>5. /\ GetTag(closing).name = Word(start, next)
        /\ GetTag(closing).next = next
        /\ GetTag(closing).huge = Huge(start, next)
    BY <1>5, <1>6
  <2>6. next \in pos .. Len(line) + 1 /\ next > pos + 1 /\ start \in pos + 1 .. next - 1
    BY <1>1, <1>2, <1>3, <1>4, <2>1
  <2> QED
    BY <2>2, <2>3, <2>4, <2>5, <2>6
<1>7. CASE At(start) \notin Alpha
  <2>1. GetTag(closing) = [name |-> "none", next |-> pos, huge |-> FALSE]
    BY <1>5, <1>7
  <2> QED
    BY <1>1, <2>1
<1> QED
  BY <1>6, <1>7

\* The places of an attribute, in the order of ConsumeAttribute.
NameStart == After(pos, {"blank"})
NameEnd == After(NameStart, Alpha)
Equals == Until(NameEnd, "=")
Quote == After(Equals + 1, {"blank", "nl", "cr"})
Quoted == At(Quote) = "'"
Sharp == After(IF Quoted THEN Quote + 1 ELSE Quote, {"blank", "nl", "cr"})
ValueStart == IF At(Sharp) = "#" THEN Sharp + 1 ELSE Sharp
ValueEnd == IF Quoted THEN Until(ValueStart, "'") ELSE After(ValueStart, Alnum \cup {"#"})

LEMMA AttributeIs ==
  Attribute =
    IF NameEnd = NameStart \/ At(NameEnd) = "end" THEN NoAttribute
    ELSE IF Huge(NameStart, NameEnd) THEN [NoAttribute EXCEPT !.fault = "aborted"]
    ELSE IF At(Equals) = "end" THEN [NoAttribute EXCEPT !.fault = "overrun"]
    ELSE IF Huge(ValueStart, ValueEnd) THEN [NoAttribute EXCEPT !.fault = "aborted"]
    ELSE [name |-> Word(NameStart, NameEnd), value |-> Word(ValueStart, ValueEnd),
          first |-> IF ValueEnd = ValueStart THEN "none" ELSE line[ValueStart],
          next |-> IF Quoted /\ At(ValueEnd) = "'" THEN ValueEnd + 1 ELSE ValueEnd,
          fault |-> "none"]
BY Zenon DEF Attribute, NameStart, NameEnd, Equals, Quote, Quoted, Sharp, ValueStart, ValueEnd

LEMMA NameFacts ==
  ASSUME LineInv
  PROVE  /\ NameStart \in pos .. Len(line) + 1
         /\ NameEnd \in NameStart .. Len(line) + 1
         /\ \A k \in pos .. NameStart - 1 : line[k] = "blank"
         /\ \A k \in NameStart .. NameEnd - 1 : line[k] \in Alpha
         /\ At(NameEnd) \notin Alpha
         /\ Equals \in NameEnd .. Len(line) + 1
         /\ At(Equals) = "=" \/ At(Equals) = "end"
         /\ \A k \in NameEnd .. Equals - 1 : At(k) # "="
<1>1. /\ line \in Seq(Tokens) /\ Len(line) \in Nat /\ pos \in 1 .. Len(line) + 1
      /\ \A i : At(i) \in Tokens => At(i) = line[i]
  BY AtFacts DEF LineInv
<1>2. "end" \notin {"blank"} /\ "end" \notin Alpha /\ "blank" \in Tokens /\ Alpha \subseteq Tokens
      /\ "=" \in Tokens
  BY DEF Tokens, Alnum, Alpha, Digits, Signs
<1>3. /\ NameStart \in pos .. Len(line) + 1
      /\ \A k \in pos .. NameStart - 1 : At(k) \in {"blank"}
  BY <1>1, <1>2, AfterFacts DEF NameStart
<1>4. /\ NameEnd \in NameStart .. Len(line) + 1
      /\ At(NameEnd) \notin Alpha
      /\ \A k \in NameStart .. NameEnd - 1 : At(k) \in Alpha
  <2>1. NameStart \in 1 .. Len(line) + 1
    BY <1>1, <1>3
  <2> QED
    BY <1>1, <1>2, <2>1, AfterFacts DEF NameEnd
<1>5. /\ Equals \in NameEnd .. Len(line) + 1
      /\ At(Equals) = "=" \/ At(Equals) = "end"
      /\ \A k \in NameEnd .. Equals - 1 : At(k) # "="
  <2>1. NameEnd \in 1 .. Len(line) + 1
    BY <1>1, <1>3, <1>4
  <2> QED
    BY <1>1, <1>2, <2>1, UntilFacts DEF Equals
<1> QED
  BY <1>1, <1>2, <1>3, <1>4, <1>5

LEMMA ValueFacts ==
  ASSUME LineInv, At(Equals) # "end"
  PROVE  /\ Quote \in Equals + 1 .. Len(line) + 1
         /\ \A k \in Equals + 1 .. Quote - 1 : line[k] \in {"blank", "nl", "cr"}
         /\ At(Quote) \notin {"blank", "nl", "cr"}
         /\ Sharp \in Quote .. Len(line) + 1
         /\ Quoted => Sharp > Quote
         /\ \A k \in (IF Quoted THEN Quote + 1 ELSE Quote) .. Sharp - 1 :
              line[k] \in {"blank", "nl", "cr"}
         /\ At(Sharp) \notin {"blank", "nl", "cr"}
         /\ ValueStart \in Sharp .. Len(line) + 1
         /\ ValueEnd \in ValueStart .. Len(line) + 1
         /\ Quoted => /\ At(ValueEnd) = "'" \/ At(ValueEnd) = "end"
                      /\ \A k \in ValueStart .. ValueEnd - 1 : At(k) # "'"
         /\ ~Quoted => /\ At(ValueEnd) \notin Alnum \cup {"#"}
                       /\ \A k \in ValueStart .. ValueEnd - 1 : At(k) \in Alnum \cup {"#"}
<1>1. /\ line \in Seq(Tokens) /\ Len(line) \in Nat /\ pos \in 1 .. Len(line) + 1
      /\ \A i : At(i) \in Tokens => At(i) = line[i]
      /\ \A i : At(i) \in Tokens => i \in 1 .. Len(line)
  BY AtFacts DEF LineInv
<1>2. /\ "end" \notin {"blank", "nl", "cr"} /\ "end" \notin Alnum \cup {"#"}
      /\ {"blank", "nl", "cr"} \subseteq Tokens
      /\ "=" \in Tokens /\ "'" \in Tokens /\ "#" \in Tokens
  BY DEF Tokens, Alnum, Alpha, Digits, Signs
<1>3. Equals \in 1 .. Len(line)
  BY <1>1, <1>2, NameFacts
<1>4. /\ Quote \in Equals + 1 .. Len(line) + 1
      /\ At(Quote) \notin {"blank", "nl", "cr"}
      /\ \A k \in Equals + 1 .. Quote - 1 : At(k) \in {"blank", "nl", "cr"}
  <2>1. Equals + 1 \in 1 .. Len(line) + 1
    BY <1>1, <1>3
  <2> QED
    BY <1>1, <1>2, <2>1, AfterFacts DEF Quote
<1> DEFINE from == IF Quoted THEN Quote + 1 ELSE Quote
<1>5. from \in Quote .. Len(line) + 1
  BY <1>1, <1>2, <1>3, <1>4 DEF Quoted
<1>6. /\ Sharp \in from .. Len(line) + 1
      /\ At(Sharp) \notin {"blank", "nl", "cr"}
      /\ \A k \in from .. Sharp - 1 : At(k) \in {"blank", "nl", "cr"}
  <2>1. Sharp = After(from, {"blank", "nl", "cr"})
    BY DEF Sharp
  <2> HIDE DEF from
  <2>2. from \in 1 .. Len(line) + 1
    BY <1>1, <1>3, <1>4, <1>5
  <2> QED
    BY <1>1, <1>2, <2>1, <2>2, AfterFacts
<1>7. ValueStart \in Sharp .. Len(line) + 1 /\ ValueStart \in 1 .. Len(line) + 1
  <2> HIDE DEF from
  <2> QED
    BY <1>1, <1>2, <1>3, <1>4, <1>5, <1>6 DEF ValueStart
<1>8. CASE Quoted
  <2>1. /\ ValueEnd \in ValueStart .. Len(line) + 1
        /\ At(ValueEnd) = "'" \/ At(ValueEnd) = "end"
        /\ \A k \in ValueStart .. ValueEnd - 1 : At(k) # "'"
    BY <1>1, <1>2, <1>7, <1>8, UntilFacts DEF ValueEnd
  <2>2. from = Quote + 1
    BY <1>8
  <2>3. Sharp \in Quote .. Len(line) + 1 /\ Sharp > Quote
    BY <1>3, <1>4, <1>6, <2>2
  <2> HIDE DEF from
  <2>4. \A k \in Quote + 1 .. Sharp - 1 : line[k] \in {"blank", "nl", "cr"}
    BY <1>1, <1>2, <1>6, <2>2
  <2>5. \A k \in Equals + 1 .. Quote - 1 : line[k] \in {"blank", "nl", "cr"}
    BY <1>1, <1>2, <1>4
  <2> QED
    BY <1>4, <1>6, <1>7, <1>8, <2>1, <2>3, <2>4, <2>5
<1>9. CASE ~Quoted
  <2>1. /\ ValueEnd \in ValueStart .. Len(line) + 1
        /\ At(ValueEnd) \notin Alnum \cup {"#"}
        /\ \A k \in ValueStart .. ValueEnd - 1 : At(k) \in Alnum \cup {"#"}
    BY <1>1, <1>2, <1>7, <1>9, AfterFacts DEF ValueEnd
  <2>2. from = Quote
    BY <1>9
  <2> HIDE DEF from
  <2>3. Sharp \in Quote .. Len(line) + 1
    BY <1>6, <2>2
  <2>4. \A k \in Quote .. Sharp - 1 : line[k] \in {"blank", "nl", "cr"}
    BY <1>1, <1>2, <1>6, <2>2
  <2>5. \A k \in Equals + 1 .. Quote - 1 : line[k] \in {"blank", "nl", "cr"}
    BY <1>1, <1>2, <1>4
  <2> QED
    BY <1>4, <1>6, <1>7, <1>9, <2>1, <2>3, <2>4, <2>5
<1> QED
  BY <1>8, <1>9

\* What an attribute, and what keeps it from being one, says of the line from here on.
LEMMA AttributeFacts ==
  ASSUME LineInv
  PROVE  /\ Attribute.fault \in {"none", "overrun", "aborted"}
         /\ Attribute.fault = "overrun" => \A j \in pos .. Len(line) : line[j] # "="
         /\ Attribute.fault = "aborted" => \E j \in pos .. Len(line) : line[j] = "huge"
         /\ Attribute.name # "none" => /\ Attribute.fault = "none"
                                       /\ Attribute.next \in pos + 1 .. Len(line) + 1
                                       /\ Attribute.name \in Settings
                                       /\ Attribute.value \in Settings
         /\ Attribute.name = "size" =>
              \E j \in pos .. Len(line) :
                /\ line[j] = "size"
                /\ At(j + 1) = "=" /\ At(IF At(j + 2) = "'" THEN j + 3 ELSE j + 2) \in Digits
                     => Attribute.first \in Digits
<1>1. /\ line \in Seq(Tokens) /\ Len(line) \in Nat /\ pos \in 1 .. Len(line) + 1
      /\ \A i : At(i) \in Tokens => At(i) = line[i]
      /\ \A i : At(i) \in Tokens <=> i \in 1 .. Len(line)
      /\ \A i : At(i) \notin Tokens <=> At(i) = "end"
  BY AtFacts DEF LineInv
<1>2. /\ {"=", "'", "#", "blank", "nl", "cr"} \subseteq Tokens
      /\ Digits \subseteq Alnum /\ Alpha \subseteq Alnum /\ Alnum \subseteq Tokens
      /\ {"=", "'", "#", "blank", "nl", "cr"} \cap Alnum = {} /\ "size" \in Tokens
      /\ "none" \notin Tokens /\ "end" \notin Tokens
  BY DEF Tokens, Alnum, Alpha, Digits, Signs
<1>3. CASE NameEnd = NameStart \/ At(NameEnd) = "end"
  <2>1. Attribute = NoAttribute
    BY <1>3, AttributeIs
  <2> QED
    BY <2>1 DEF NoAttribute
<1>4. CASE NameEnd # NameStart /\ At(NameEnd) # "end" /\ Huge(NameStart, NameEnd)
  <2>1. Attribute = [NoAttribute EXCEPT !.fault = "aborted"]
    BY <1>4, AttributeIs
  <2>2. \E j \in pos .. Len(line) : line[j] = "huge"
    BY <1>1, <1>4, NameFacts DEF Huge
  <2> QED
    BY <2>1, <2>2 DEF NoAttribute
<1>5. CASE NameEnd # NameStart /\ ~Huge(NameStart, NameEnd) /\ At(NameEnd) # "end"
           /\ At(Equals) = "end"
  <2>1. Attribute = [NoAttribute EXCEPT !.fault = "overrun"]
    BY <1>5, AttributeIs
  <2>2. Equals = Len(line) + 1
    BY <1>1, <1>2, <1>5, NameFacts
  <2>3. \A j \in pos .. Len(line) : line[j] # "="
    <3>1. "blank" # "=" /\ "=" \notin Alpha
      BY <1>2
    <3> QED
      BY <1>1, <2>2, <3>1, NameFacts DEF At
  <2> QED
    BY <2>1, <2>3 DEF NoAttribute
<1>6. CASE NameEnd # NameStart /\ ~Huge(NameStart, NameEnd) /\ At(NameEnd) # "end"
           /\ At(Equals) # "end"
  <2>1. /\ NameStart \in pos .. Len(line) /\ NameEnd \in NameStart + 1 .. Len(line)
        /\ Equals \in NameEnd .. Len(line)
        /\ ValueStart \in Equals + 1 .. Len(line) + 1 /\ ValueEnd \in ValueStart .. Len(line) + 1
    BY <1>1, <1>6, NameFacts, ValueFacts
  <2>2. CASE Huge(ValueStart, ValueEnd)
    <3>1. Attribute = [NoAttribute EXCEPT !.fault = "aborted"]
      BY <1>6, <2>2, AttributeIs
    <3>2. \E j \in pos .. Len(line) : line[j] = "huge"
      BY <1>1, <2>1, <2>2 DEF Huge
    <3> QED
      BY <3>1, <3>2 DEF NoAttribute
  <2>3. CASE ~Huge(ValueStart, ValueEnd)
    <3>1. /\ Attribute.name = Word(NameStart, NameEnd)
          /\ Attribute.value = Word(ValueStart, ValueEnd)
          /\ Attribute.first = IF ValueEnd = ValueStart THEN "none" ELSE line[ValueStart]
          /\ Attribute.next = IF Quoted /\ At(ValueEnd) = "'" THEN ValueEnd + 1 ELSE ValueEnd
          /\ Attribute.fault = "none"
      BY <1>6, <2>3, AttributeIs
    <3>2. /\ Attribute.next \in pos + 1 .. Len(line) + 1
          /\ Attribute.name \in Settings /\ Attribute.value \in Settings
      <4>1. Attribute.next \in pos + 1 .. Len(line) + 1
        BY <1>1, <1>2, <2>1, <3>1
      <4>2. Word(NameStart, NameEnd) \in Settings /\ Word(ValueStart, ValueEnd) \in Settings
        <5>1. /\ NameStart \in 1 .. Len(line) + 1 /\ NameEnd \in NameStart .. Len(line) + 1
              /\ ValueStart \in 1 .. Len(line) + 1 /\ ValueEnd \in ValueStart .. Len(line) + 1
          BY <1>1, <2>1
        <5> QED
          BY <1>1, <5>1, WordFacts
      <4> QED
        BY <3>1, <4>1, <4>2
    <3>3. ASSUME Attribute.name = "size"
          PROVE  \E j \in pos .. Len(line) :
                   /\ line[j] = "size"
                   /\ At(j + 1) = "=" /\ At(IF At(j + 2) = "'" THEN j + 3 ELSE j + 2) \in Digits
                        => Attribute.first \in Digits
      <4>1. NameEnd = NameStart + 1 /\ line[NameStart] = "size"
        <5>1. NameStart \in 1 .. Len(line) + 1 /\ NameEnd \in NameStart .. Len(line) + 1
          BY <1>1, <2>1
        <5>2. Word(NameStart, NameEnd) = "size" /\ Word(NameStart, NameEnd) \in Tokens
          BY <1>2, <3>1, <3>3
        <5>3. line \in Seq(Tokens)
          BY <1>1
        <5> QED
          BY <5>1, <5>2, <5>3, WordFacts
      <4>2. ASSUME At(NameStart + 1) = "=",
                   At(IF At(NameStart + 2) = "'" THEN NameStart + 3 ELSE NameStart + 2) \in Digits
            PROVE  Attribute.first \in Digits
        <5>1. Equals = NameStart + 1
          BY <1>1, <2>1, <4>1, <4>2, NameFacts
        <5>2. At(NameStart + 2) = "'" \/ At(NameStart + 2) \in Digits
          BY <4>2
        <5>3. Quote = NameStart + 2
          BY <1>1, <1>2, <1>6, <2>1, <5>1, <5>2, ValueFacts
        <5>4. CASE At(NameStart + 2) = "'"
          <6>1. Quoted /\ At(NameStart + 3) \in Digits
            BY <4>2, <5>3, <5>4 DEF Quoted
          <6>2. Sharp = NameStart + 3
            BY <1>1, <1>2, <1>6, <2>1, <5>3, <6>1, ValueFacts
          <6>3. ValueStart = NameStart + 3
            BY <1>2, <6>1, <6>2 DEF ValueStart
          <6>4. ValueEnd # ValueStart
            BY <1>2, <1>6, <6>1, <6>3, ValueFacts
          <6> QED
            BY <1>1, <1>2, <3>1, <6>1, <6>3, <6>4
        <5>5. CASE At(NameStart + 2) \in Digits
          <6>1. ~Quoted
            BY <1>2, <5>3, <5>5 DEF Quoted
          <6>2. Sharp = NameStart + 2
            BY <1>1, <1>2, <1>6, <2>1, <5>3, <5>5, <6>1, ValueFacts
          <6>3. ValueStart = NameStart + 2
            BY <1>2, <5>5, <6>2 DEF ValueStart
          <6>4. ValueEnd # ValueStart
            BY <1>2, <1>6, <5>5, <6>1, <6>3, ValueFacts
          <6> QED
            BY <1>1, <1>2, <3>1, <5>5, <6>3, <6>4
        <5> QED
          BY <5>2, <5>4, <5>5
      <4> QED
        BY <2>1, <4>1, <4>2
    <3> QED
      BY <3>1, <3>2, <3>3
  <2> QED
    BY <2>2, <2>3
<1> QED
  BY <1>3, <1>4, <1>5, <1>6

-----------------------------------------------------------------------------
(* One step of the parser.                                                 *)

\* Attributes are read only behind the name of a font tag.
FontInv == pc = "font" => \E j \in 1 .. pos - 1 : line[j] = "font"

ParserInv == LineInv /\ FontInv /\ OnlyMarkupIsHidden /\ FaultsHaveTheirCause

LEMMA SetIsItem ==
  ASSUME NEW style \in Styles, NEW value \in Settings
  PROVE  Set(style, value) \in Seq(Items)
BY DEF Set, Items

\* The parser goes on from a later place with more output.
LEMMA Advance ==
  ASSUME ParserInv, line' = line, NEW next \in pos .. Len(line) + 1, pos' = next,
         NEW more \in Seq(Items), out' = out \o more,
         pc' \in {"text", "font"}, FontInv',
         \A i \in pos .. next - 1 :
           \/ \E n \in 1 .. Len(out') : out'[n].at = i
           \/ Markup(i)
           \/ \E j \in 1 .. i : line[j] = "font"
  PROVE  ParserInv'
<1>1. line \in Seq(Tokens) /\ Len(line) \in Nat /\ pos \in 1 .. Len(line) + 1 /\ out \in Seq(Items)
  BY AtFacts DEF ParserInv, LineInv
<1>2. LineInv'
  <2>1. out' \in Seq(Items) /\ next \in 1 .. Len(line) + 1
    BY <1>1
  <2> QED
    BY <1>1, <2>1 DEF LineInv
<1>3. FaultsHaveTheirCause'
  BY DEF FaultsHaveTheirCause
<1>4. \A i : Markup(i)' <=> Markup(i)
  BY DEF Markup
<1>5. \A n \in 1 .. Len(out) : n \in 1 .. Len(out') /\ out'[n] = out[n]
  BY <1>1
<1>6. \A i \in 1 .. pos - 1 :
        \/ \E n \in 1 .. Len(out) : out[n].at = i
        \/ Markup(i)
        \/ \E j \in 1 .. i : line[j] = "font"
  BY DEF ParserInv, OnlyMarkupIsHidden
<1>7. \A i \in 1 .. next - 1 : i \in 1 .. pos - 1 \/ i \in pos .. next - 1
  BY <1>1
<1>8. ASSUME NEW i \in 1 .. next - 1
      PROVE  \/ \E n \in 1 .. Len(out') : out'[n].at = i
             \/ Markup(i)
             \/ \E j \in 1 .. i : line[j] = "font"
  <2>1. CASE i \in 1 .. pos - 1
    BY <1>5, <1>6, <2>1
  <2>2. CASE i \in pos .. next - 1
    BY <2>2
  <2> QED
    BY <1>7, <2>1, <2>2
<1>9. OnlyMarkupIsHidden'
  BY <1>4, <1>8, Zenon DEF OnlyMarkupIsHidden
<1> QED
  BY <1>2, <1>3, <1>9 DEF ParserInv

\* The parser stops where it is.
LEMMA Stops ==
  ASSUME ParserInv, NEW how \in {"done", "overrun", "threw", "aborted"}, Stop(how),
         FaultsHaveTheirCause'
  PROVE  ParserInv'
<1>1. line' = line /\ pos' = pos /\ out' = out /\ pc' = how
  BY DEF Stop
<1>2. LineInv' /\ FontInv'
  BY <1>1 DEF ParserInv, LineInv, FontInv
<1>3. OnlyMarkupIsHidden'
  BY <1>1 DEF ParserInv, OnlyMarkupIsHidden, Markup
<1> QED
  BY <1>2, <1>3 DEF ParserInv

LEMMA SkipFacts ==
  ASSUME LineInv, NEW i \in 1 .. Len(line) + 1
  PROVE  /\ AfterTag(i) \in i .. Len(line) + 1
         /\ \A k \in i .. AfterTag(i) - 2 : At(k) # ">"
<1>1. /\ line \in Seq(Tokens) /\ Len(line) \in Nat /\ ">" \in Tokens
      /\ \A k : At(k) \in Tokens <=> k \in 1 .. Len(line)
  <2>1. ">" \in Tokens
    BY DEF Tokens, Signs
  <2> QED
    BY <2>1, AtFacts DEF LineInv
<1>2. /\ Until(i, ">") \in i .. Len(line) + 1
      /\ \A k \in i .. Until(i, ">") - 1 : At(k) # ">"
  BY <1>1, UntilFacts
<1> QED
  BY <1>1, <1>2 DEF AfterTag

LEMMA OpenTagKeeps == ParserInv /\ OpenTag => ParserInv'
<1> SUFFICES ASSUME ParserInv, OpenTag
             PROVE  ParserInv'
  OBVIOUS
<1> DEFINE next == GetTag(FALSE).next
           more == Opened(GetTag(FALSE).name)
           behind == AfterTag(next)
<1>1. /\ pc = "text" /\ At(pos) = "<" /\ line' = line /\ pc' = pc
      /\ out' = out \o more
      /\ pos' = behind
  BY DEF OpenTag, InText
<1>2. /\ LineInv /\ line \in Seq(Tokens) /\ Len(line) \in Nat /\ pos \in 1 .. Len(line)
      /\ \A k \in 1 .. Len(line) : At(k) = line[k]
      /\ "<" \in Tokens
  <2>1. "<" \in Tokens
    BY DEF Tokens, Signs
  <2> QED
    BY <1>1, <2>1, AtFacts DEF ParserInv, LineInv
<1>3. next \in pos .. Len(line) + 1 /\ \A k \in pos .. next - 1 : At(k) # ">"
  BY <1>1, <1>2, TagFacts
<1>4. more \in Seq(Items)
  <2> DEFINE name == GetTag(FALSE).name
  <2>1. more = Opened(name)
    OBVIOUS
  <2> HIDE DEF name, more
  <2>2. Newline \in Seq(Items) /\ <<>> \in Seq(Items)
    BY DEF Newline, Items, Styles, Settings
  <2>3. name \in {"b", "i", "s"} => Set(name, "on") \in Seq(Items)
    BY SetIsItem DEF Styles, Settings
  <2> QED
    BY <2>1, <2>2, <2>3 DEF Opened
<1> HIDE DEF next, more
<1>5. behind \in next .. Len(line) + 1 /\ \A k \in next .. behind - 2 : At(k) # ">"
  <2>1. next \in 1 .. Len(line) + 1
    BY <1>2, <1>3
  <2> QED
    BY <1>2, <2>1, SkipFacts
<1> HIDE DEF behind
<1>6. ASSUME NEW i \in pos .. behind - 1
      PROVE  Markup(i)
  <2>1. \A k \in pos .. i - 1 : line[k] # ">"
    BY <1>2, <1>3, <1>5
  <2> QED
    BY <1>1, <1>2, <1>5, <2>1 DEF Markup
<1>7. behind \in pos .. Len(line) + 1
  BY <1>2, <1>3, <1>5
<1> QED
  BY <1>1, <1>4, <1>6, <1>7, Advance DEF FontInv

\* The facts of the place that most steps begin with.
LEMMA HereFacts ==
  ASSUME ParserInv
  PROVE  /\ LineInv /\ line \in Seq(Tokens) /\ Len(line) \in Nat /\ pos \in 1 .. Len(line) + 1
         /\ \A k \in 1 .. Len(line) : At(k) = line[k] /\ line[k] \in Tokens
         /\ \A k : At(k) \in Tokens <=> k \in 1 .. Len(line)
         /\ \A k : At(k) \notin Tokens <=> At(k) = "end"
BY AtFacts DEF ParserInv, LineInv

LEMMA TokenFacts ==
  /\ {"<", ">", "/", "blank", "nl", "cr", "lbrace", "rbrace", ":", "=", "font", "huge"}
        \subseteq Tokens
  /\ "end" \notin Tokens
BY DEF Tokens, Alnum, Alpha, Digits, Signs

LEMMA FontTagKeeps == ParserInv /\ FontTag => ParserInv'
<1> SUFFICES ASSUME ParserInv, FontTag
             PROVE  ParserInv'
  OBVIOUS
<1> DEFINE next == GetTag(FALSE).next
<1>1. /\ At(pos) = "<" /\ line' = line /\ pc' = "font" /\ out' = out /\ pos' = next
      /\ GetTag(FALSE).name = "font"
  BY DEF FontTag, InText
<1>2. pos \in 1 .. Len(line) /\ line[pos] = "<"
  BY <1>1, HereFacts, TokenFacts
<1>3. /\ next \in pos .. Len(line) + 1
      /\ \A k \in pos .. next - 1 : At(k) # ">"
      /\ \E k \in pos + 1 .. next - 1 : line[k] = "font"
  BY <1>1, HereFacts, TokenFacts, TagFacts
<1> HIDE DEF next
<1>4. FontInv'
  BY <1>1, <1>2, <1>3 DEF FontInv
<1>5. ASSUME NEW i \in pos .. next - 1
      PROVE  Markup(i)
  <2>1. \A k \in pos .. i - 1 : line[k] # ">"
    BY <1>2, <1>3, HereFacts
  <2> QED
    BY <1>2, <2>1, HereFacts DEF Markup
<1>6. <<>> \in Seq(Items) /\ out' = out \o <<>>
  BY <1>1 DEF ParserInv, LineInv
<1> QED
  BY <1>1, <1>3, <1>4, <1>5, <1>6, Advance

LEMMA FontAttributeKeeps == ParserInv /\ FontAttribute => ParserInv'
<1> SUFFICES ASSUME ParserInv, FontAttribute
             PROVE  ParserInv'
  OBVIOUS
<1> DEFINE next == Attribute.next
           more == Overrides(Attribute)
<1>1. /\ pc = "font" /\ line' = line /\ pc' = "font" /\ out' = out \o more /\ pos' = next
      /\ Attribute.name # "none"
  BY DEF FontAttribute
<1>2. next \in pos + 1 .. Len(line) + 1 /\ Attribute.value \in Settings
  BY <1>1, AttributeFacts, HereFacts
<1>3. PICK j \in 1 .. pos - 1 : line[j] = "font"
  BY <1>1 DEF ParserInv, FontInv
<1>4. more \in Seq(Items)
  <2>1. Colour(Attribute) \in Settings
    BY <1>2 DEF Colour, Settings, Tokens, Alnum, Alpha, Digits
  <2>2. /\ Set("fn", Attribute.value) \in Seq(Items)
        /\ Set("fs", Attribute.value) \in Seq(Items)
        /\ Set("c", Colour(Attribute)) \in Seq(Items)
    BY <1>2, <2>1, SetIsItem DEF Styles
  <2>3. <<>> \in Seq(Items)
    OBVIOUS
  <2> QED
    BY <2>2, <2>3, Zenon DEF Overrides
<1> HIDE DEF next, more
<1>5. FontInv'
  BY <1>1, <1>2, <1>3, HereFacts DEF FontInv
<1>6. \A i \in pos .. next - 1 : \E k \in 1 .. i : line[k] = "font"
  BY <1>2, <1>3, HereFacts
<1>7. next \in pos .. Len(line) + 1
  BY <1>2, HereFacts
<1> QED
  BY <1>1, <1>4, <1>5, <1>6, <1>7, Advance

LEMMA EndFontTagKeeps == ParserInv /\ EndFontTag => ParserInv'
<1> SUFFICES ASSUME ParserInv, EndFontTag
             PROVE  ParserInv'
  OBVIOUS
<1> DEFINE next == AfterTag(pos)
<1>1. pc = "font" /\ line' = line /\ pc' = "text" /\ out' = out /\ pos' = next
  BY DEF EndFontTag
<1>2. next \in pos .. Len(line) + 1
  BY SkipFacts, HereFacts
<1>3. PICK j \in 1 .. pos - 1 : line[j] = "font"
  BY <1>1 DEF ParserInv, FontInv
<1>4. <<>> \in Seq(Items) /\ out' = out \o <<>>
  BY <1>1 DEF ParserInv, LineInv
<1> HIDE DEF next
<1>5. FontInv'
  BY <1>1 DEF FontInv
<1>6. \A i \in pos .. next - 1 : \E k \in 1 .. i : line[k] = "font"
  BY <1>2, <1>3, HereFacts
<1> QED
  BY <1>1, <1>2, <1>4, <1>5, <1>6, Advance

LEMMA CloseTagKeeps == ParserInv /\ CloseTag => ParserInv'
<1> SUFFICES ASSUME ParserInv, CloseTag
             PROVE  ParserInv'
  OBVIOUS
<1> DEFINE name == GetTag(TRUE).name
           next == GetTag(TRUE).next
           more == Closed(name)
           end == After(next, {"blank"})
           behind == IF At(end) = ">" THEN end + 1 ELSE end
<1>1. /\ pc = "text" /\ At(pos) = "<" /\ line' = line /\ pc' = pc
      /\ out' = out \o more /\ pos' = behind
  BY DEF CloseTag, ClosesTag, InText
<1>2. pos \in 1 .. Len(line) /\ line[pos] = "<"
  BY <1>1, HereFacts, TokenFacts
<1>3. next \in pos .. Len(line) + 1 /\ \A k \in pos .. next - 1 : At(k) # ">"
  BY <1>1, HereFacts, TagFacts
<1>4. more \in Seq(Items)
  <2> HIDE DEF name, more
  <2>1. <<>> \in Seq(Items)
    OBVIOUS
  <2>2. /\ Set("c", "default") \in Seq(Items)
        /\ Set("fn", "default") \in Seq(Items)
        /\ Set("fs", "default") \in Seq(Items)
    BY SetIsItem DEF Styles, Settings
  <2>3. Set("c", "default") \o Set("fn", "default") \o Set("fs", "default") \in Seq(Items)
    BY <2>2
  <2>4. name \in {"b", "i", "s"} => Set(name, "off") \in Seq(Items)
    BY SetIsItem DEF Styles, Settings
  <2> QED
    BY <2>1, <2>3, <2>4, Zenon DEF Closed, more
<1> HIDE DEF next, more
<1>5. /\ end \in next .. Len(line) + 1
      /\ \A k \in next .. end - 1 : At(k) \in {"blank"}
  <2>1. next \in 1 .. Len(line) + 1 /\ "end" \notin {"blank"}
    BY <1>2, <1>3
  <2> QED
    BY <2>1, AfterFacts, HereFacts
<1> HIDE DEF end
<1>6. behind \in end .. Len(line) + 1 /\ behind <= end + 1
  BY <1>2, <1>3, <1>5, HereFacts, TokenFacts
<1> HIDE DEF behind
<1>7. ASSUME NEW i \in pos .. behind - 1
      PROVE  Markup(i)
  <2>1. \A k \in pos .. i - 1 : line[k] # ">"
    BY <1>2, <1>3, <1>5, <1>6, HereFacts
  <2> QED
    BY <1>2, <1>3, <1>5, <1>6, <2>1, HereFacts DEF Markup
<1>8. behind \in pos .. Len(line) + 1
  BY <1>2, <1>3, <1>5, <1>6
<1>9. FontInv'
  BY <1>1 DEF FontInv
<1> QED
  BY <1>1, <1>4, <1>7, <1>8, <1>9, Advance

LEMMA MicroDvdKeeps == ParserInv /\ MicroDvd => ParserInv'
<1> SUFFICES ASSUME ParserInv, MicroDvd
             PROVE  ParserInv'
  OBVIOUS
<1> DEFINE end == Until(pos + 3, "rbrace")
           more == MicroDvdOverrides(pos + 3, end)
           next == end + 1
<1>1. /\ pc = "text" /\ At(pos) = "lbrace" /\ At(pos + 2) = ":" /\ At(end) = "rbrace"
      /\ line' = line /\ pc' = pc /\ out' = out \o more /\ pos' = next
  BY DEF MicroDvd, IsMicroDvd, InText
<1>2. pos \in 1 .. Len(line) /\ line[pos] = "lbrace" /\ pos + 2 \in 1 .. Len(line)
  BY <1>1, HereFacts, TokenFacts
<1>3. /\ end \in pos + 3 .. Len(line)
      /\ \A k \in pos + 3 .. end - 1 : line[k] # "rbrace"
  <2>1. pos + 3 \in 1 .. Len(line) + 1
    BY <1>2, HereFacts
  <2>2. /\ end \in pos + 3 .. Len(line) + 1
        /\ \A k \in pos + 3 .. end - 1 : At(k) # "rbrace"
    BY <2>1, HereFacts, TokenFacts, UntilFacts
  <2> HIDE DEF end
  <2> QED
    BY <1>1, <1>2, <2>2, HereFacts, TokenFacts
<1>4. more \in Seq(Items)
  <2> DEFINE value == pos + 3
             first == IF At(value) = "i" THEN Set("i", "on") ELSE <<>>
             second(k) == IF At(k) \in {"b", "br"} THEN Set("b", "on") ELSE <<>>
  <2>1. Word(value, end) \in Settings
    <3> HIDE DEF end
    <3> QED
      BY <1>2, <1>3, HereFacts, WordFacts
  <2>2. /\ <<>> \in Seq(Items)
        /\ Set("i", "on") \in Seq(Items) /\ Set("b", "on") \in Seq(Items)
        /\ \A colour \in {"hex6", "garbage"} : Set("c", colour) \in Seq(Items)
        /\ Set("fs", "num") \in Seq(Items)
    BY SetIsItem DEF Styles, Settings, Tokens, Alnum, Digits
  <2>3. Set("fn", Word(value, end)) \in Seq(Items)
    BY <2>1, SetIsItem DEF Styles
  <2>4. \A k : first \o second(k) \in Seq(Items)
    BY <2>2
  <2> HIDE DEF end, first, second, value
  <2>5. \A k : (IF At(value) = "i" THEN Set("i", "on") ELSE <<>>)
               \o (IF At(k) \in {"b", "br"} THEN Set("b", "on") ELSE <<>>) \in Seq(Items)
    BY <2>4, Zenon DEF first, second
  <2>6. MicroDvdOverrides(value, end) \in Seq(Items)
    BY <2>2, <2>3, <2>5, Zenon DEF MicroDvdOverrides
  <2> QED
    BY <2>6 DEF value
<1> HIDE DEF end, more
<1>5. ASSUME NEW i \in pos .. end
      PROVE  Markup(i)
  <2>1. \A k \in pos + 2 .. i - 1 : line[k] # "rbrace"
    <3>1. line[pos + 2] # "rbrace"
      BY <1>1, <1>2, HereFacts
    <3> QED
      BY <1>2, <1>3, <3>1
  <2> QED
    BY <1>2, <2>1, HereFacts DEF Markup
<1>6. next \in pos .. Len(line) + 1 /\ next - 1 = end
  BY <1>2, <1>3
<1> HIDE DEF next
<1>7. FontInv'
  BY <1>1 DEF FontInv
<1> QED
  BY <1>1, <1>4, <1>5, <1>6, <1>7, Advance

LEMMA CopyKeeps == ParserInv /\ Copy => ParserInv'
<1> SUFFICES ASSUME ParserInv, Copy
             PROVE  ParserInv'
  OBVIOUS
<1> DEFINE next == pos + 1
<1>1. /\ pc = "text" /\ At(pos) # "end" /\ line' = line /\ pc' = pc
      /\ out' = out \o Text(pos) /\ pos' = next
  BY DEF Copy, Literal
<1>2. pos \in 1 .. Len(line) /\ out \in Seq(Items)
  BY <1>1, HereFacts DEF LineInv
<1>3. Text(pos) \in Seq(Items)
  BY <1>2, HereFacts DEF Text, Items, Styles, Settings
<1>4. Len(out) + 1 \in 1 .. Len(out') /\ out'[Len(out) + 1].at = pos
  BY <1>1, <1>2, <1>3 DEF Text
<1>5. next \in pos .. Len(line) + 1 /\ \A i \in pos .. next - 1 : i = pos
  BY <1>2, HereFacts
<1> HIDE DEF next
<1>6. FontInv'
  BY <1>1 DEF FontInv
<1> QED
  BY <1>1, <1>3, <1>4, <1>5, <1>6, Advance

LEMMA LineBreakKeeps == ParserInv /\ LineBreak => ParserInv'
<1> SUFFICES ASSUME ParserInv, LineBreak
             PROVE  ParserInv'
  OBVIOUS
<1> DEFINE more == IF At(pos) = "nl" THEN Newline ELSE <<>>
           next == pos + 1
<1>1. /\ pc = "text" /\ At(pos) \in {"nl", "cr"} /\ line' = line /\ pc' = pc
      /\ out' = out \o more /\ pos' = next
  BY DEF LineBreak, ParserInv, LineInv
<1>2. pos \in 1 .. Len(line) /\ line[pos] \in {"nl", "cr"}
  BY <1>1, HereFacts, TokenFacts
<1>3. more \in Seq(Items)
  <2>1. Newline \in Seq(Items) /\ <<>> \in Seq(Items)
    BY DEF Newline, Items, Styles, Settings
  <2> QED
    BY <2>1
<1>4. Markup(pos)
  BY <1>2 DEF Markup
<1>5. next \in pos .. Len(line) + 1 /\ \A i \in pos .. next - 1 : i = pos
  BY <1>2, HereFacts
<1> HIDE DEF next
<1>6. FontInv'
  BY <1>1 DEF FontInv
<1> HIDE DEF more
<1> QED
  BY <1>1, <1>3, <1>4, <1>5, <1>6, Advance

LEMMA BraceAtEndKeeps == ParserInv /\ BraceAtEnd => ParserInv'
<1> SUFFICES ASSUME ParserInv, BraceAtEnd
             PROVE  ParserInv'
  OBVIOUS
<1>1. At(pos) = "lbrace" /\ pos = Len(line) /\ Stop("overrun")
  BY DEF BraceAtEnd, InText
<1>2. line[pos] = "lbrace"
  BY <1>1, HereFacts, TokenFacts
<1>3. FaultsHaveTheirCause'
  BY <1>1, <1>2 DEF FaultsHaveTheirCause, Stop
<1> QED
  BY <1>1, <1>3, Stops

LEMMA HugeTagKeeps == ParserInv /\ HugeTag => ParserInv'
<1> SUFFICES ASSUME ParserInv, HugeTag
             PROVE  ParserInv'
  OBVIOUS
<1>1. At(pos) = "<" /\ GetTag(TRUE).huge /\ Stop("aborted")
  BY DEF HugeTag, InText
<1>2. \E k \in pos .. Len(line) : line[k] = "huge"
  BY <1>1, HereFacts, TagFacts
<1>3. FaultsHaveTheirCause'
  BY <1>1, <1>2 DEF FaultsHaveTheirCause, Stop
<1> QED
  BY <1>1, <1>3, Stops

LEMMA AttributeFaultKeeps == ParserInv /\ AttributeFault => ParserInv'
<1> SUFFICES ASSUME ParserInv, AttributeFault
             PROVE  ParserInv'
  OBVIOUS
<1>1. pc = "font" /\ Attribute.fault # "none" /\ Stop(Attribute.fault)
  BY DEF AttributeFault
<1>2. /\ Attribute.fault \in {"overrun", "aborted"}
      /\ Attribute.fault = "overrun" => \A j \in pos .. Len(line) : line[j] # "="
      /\ Attribute.fault = "aborted" => \E j \in pos .. Len(line) : line[j] = "huge"
  BY <1>1, HereFacts, AttributeFacts
<1>3. \E j \in 1 .. pos : At(j) = "font"
  <2>1. PICK j \in 1 .. pos - 1 : line[j] = "font"
    BY <1>1 DEF ParserInv, FontInv
  <2>2. j \in 1 .. Len(line) /\ j \in 1 .. pos
    BY HereFacts
  <2> QED
    BY <2>1, <2>2, HereFacts
<1>4. line' = line /\ pos' = pos /\ pc' = Attribute.fault
  BY <1>1 DEF Stop
<1>5. FaultsHaveTheirCause'
  BY <1>2, <1>3, <1>4 DEF FaultsHaveTheirCause, At
<1> QED
  BY <1>1, <1>2, <1>5, Stops

LEMMA SizeIsNoNumberKeeps == ParserInv /\ SizeIsNoNumber => ParserInv'
<1> SUFFICES ASSUME ParserInv, SizeIsNoNumber
             PROVE  ParserInv'
  OBVIOUS
<1>1. Attribute.name = "size" /\ Attribute.first \notin Digits /\ Stop("threw")
  BY DEF SizeIsNoNumber
<1>2. \E j \in pos .. Len(line) :
        /\ line[j] = "size"
        /\ ~(At(j + 1) = "=" /\ At(IF At(j + 2) = "'" THEN j + 3 ELSE j + 2) \in Digits)
  BY <1>1, HereFacts, AttributeFacts
<1>3. line' = line /\ pos' = pos /\ pc' = "threw"
  BY <1>1 DEF Stop
<1>4. FaultsHaveTheirCause'
  BY <1>2, <1>3 DEF FaultsHaveTheirCause, At
<1> QED
  BY <1>1, <1>4, Stops

LEMMA ParserStep == ParserInv /\ [Next]_vars => ParserInv'
<1> SUFFICES ASSUME ParserInv, [Next]_vars
             PROVE  ParserInv'
  OBVIOUS
<1>1. CASE Return
  <2>1. Stop("done")
    BY <1>1 DEF Return
  <2>2. FaultsHaveTheirCause'
    BY <2>1 DEF FaultsHaveTheirCause, Stop
  <2> QED
    BY <2>1, <2>2, Stops
<1>2. CASE UNCHANGED vars
  BY <1>2 DEF vars, ParserInv, LineInv, FontInv, OnlyMarkupIsHidden, Markup,
              FaultsHaveTheirCause, At
<1>3. CASE NamelessClose
  BY <1>2, <1>3 DEF NamelessClose
<1> QED
  BY <1>1, <1>2, <1>3, OpenTagKeeps, HugeTagKeeps, FontTagKeeps, FontAttributeKeeps,
     SizeIsNoNumberKeeps, AttributeFaultKeeps, EndFontTagKeeps, CloseTagKeeps,
     MicroDvdKeeps, BraceAtEndKeeps, CopyKeeps, LineBreakKeeps
  DEF Next

LEMMA ParserInit == Init => ParserInv
<1> SUFFICES ASSUME Init
             PROVE  ParserInv
  OBVIOUS
<1>1. line \in Seq(Tokens) /\ pos = 1 /\ out = <<>> /\ pc = "text"
  BY LinesAssumption DEF Init
<1>2. LineInv
  BY <1>1, AtFacts DEF LineInv
<1>3. FontInv /\ OnlyMarkupIsHidden /\ FaultsHaveTheirCause
  BY <1>1 DEF FontInv, OnlyMarkupIsHidden, FaultsHaveTheirCause
<1> QED
  BY <1>2, <1>3 DEF ParserInv

\* Whatever the line, the parser stays on it and its output is of known styles, values and
\* places (Tools.cpp:297-513).
THEOREM ParserInvariance == Spec => []ParserInv
BY ParserInit, ParserStep, PTL DEF Spec

\* For every line, of any length and with any markup, what is read and not part of the
\* output is markup or stands behind a font tag (Tools.cpp:297-513).
THEOREM OnlyMarkup == Spec => []OnlyMarkupIsHidden
<1>1. ParserInv => OnlyMarkupIsHidden
  BY DEF ParserInv
<1> QED
  BY <1>1, ParserInvariance, PTL

\* For every line, the parser reads behind it, throws or aborts only for the named causes,
\* which stand at or behind the place it had come to (Tools.cpp:176-218, 253, 347, 442).
THEOREM Faults == Spec => []FaultsHaveTheirCause
<1>1. ParserInv => FaultsHaveTheirCause
  BY DEF ParserInv
<1> QED
  BY <1>1, ParserInvariance, PTL

-----------------------------------------------------------------------------
(* The styles.                                                             *)

Followed == {"b", "i", "c", "fn", "fs"}
Now(style) == StyleOf(Len(out) + 1, style)

\* The n-th item of the output is the token at i; the token at i is text.
TextAt(n, i) == out[n].style = "text" /\ out[n].at = i
IsText(i) == ~InTag(i) /\ line[i] \notin {"nl", "cr"}

TextInv ==
  /\ \A n \in 1 .. Len(out), i \in Nat : TextAt(n, i) =>
       /\ i \in 1 .. pos - 1
       /\ IsText(i)
       /\ \A style \in Followed : StyleOf(n, style) = StyleAt(i, style)
  /\ \A i \in 1 .. pos - 1 : IsText(i) => \E n \in 1 .. Len(out) : TextAt(n, i)
  /\ \A m, n \in 1 .. Len(out), i, j \in Nat :
       TextAt(m, i) /\ TextAt(n, j) /\ m < n => i < j

\* No tag that began before this place reaches it.
Outside(i) == \A j \in 1 .. i - 1 : line[j] = "<" => TagEnd(j) < i

AttributeNames == {"color", "size", "face"}

\* There is an attribute here, without or with quotes.
AttributeAt(p, name, value, next) ==
  /\ name \in AttributeNames /\ value \in Values(name)
  /\ line[p] = "blank" /\ line[p + 1] = name /\ line[p + 2] = "="
  /\ \/ line[p + 3] = value /\ next = p + 4
     \/ line[p + 3] = "'" /\ line[p + 4] = value /\ line[p + 5] = "'" /\ next = p + 6

StyleName(name) == IF name = "color" THEN "c" ELSE IF name = "size" THEN "fs" ELSE "fn"
Given(name, value) == IF name = "color" /\ value = "x" THEN "white" ELSE value

\* A font tag has one attribute or two.
OneAttribute(j, n, v) == AttributeAt(j + 2, n, v, TagEnd(j))
TwoAttributes(j, n, v, next, m, w) ==
  AttributeAt(j + 2, n, v, next) /\ AttributeAt(next, m, w, TagEnd(j))

FontPlace(j) ==
  /\ line[j] = "<" /\ line[j + 1] = "font" /\ Outside(j)
  /\ \/ pos = j + 2 /\ \A style \in Followed : Now(style) = StyleAt(j, style)
     \/ \E n, m \in AttributeNames, v, w \in Tokens, next \in 1 .. TagEnd(j) :
          /\ TwoAttributes(j, n, v, next, m, w)
          /\ pos = next
          /\ \A style \in Followed :
               Now(style) = IF style = StyleName(n) THEN Given(n, v) ELSE StyleAt(j, style)
     \/ /\ pos = TagEnd(j)
        /\ \A style \in Followed :
             Now(style) = IF Setting(Body(j), style) = "none" THEN StyleAt(j, style)
                          ELSE Setting(Body(j), style)

PlaceInv ==
  /\ pc = "text" => Outside(pos) /\ \A style \in Followed : Now(style) = StyleAt(pos, style)
  /\ pc = "font" => \E j \in 1 .. pos - 1 : FontPlace(j)
  /\ pc = "done" => pos = Len(line) + 1

StyleInv == WellFormed => TextInv /\ PlaceInv

\* What is said of the line stays.
LEMMA LineStays ==
  ASSUME line' = line
  PROVE  /\ WellFormed' <=> WellFormed
         /\ \A i : TagEnd(i)' = TagEnd(i)
         /\ \A i : InTag(i)' <=> InTag(i)
         /\ \A i : Outside(i)' <=> Outside(i)
         /\ \A i, style : StyleAt(i, style)' = StyleAt(i, style)
         /\ \A i, style : Setting(Body(i), style)' = Setting(Body(i), style)
<1>1. ASSUME NEW i, NEW these
      PROVE  After(i, these)' = After(i, these)
  BY DEF After, At
<1>2. ASSUME NEW i
      PROVE  Body(i)' = Body(i) /\ TagEnd(i)' = TagEnd(i)
  BY <1>1 DEF Body, TagEnd, Until
<1>3. ASSUME NEW i
      PROVE  (InTag(i)' <=> InTag(i)) /\ (Outside(i)' <=> Outside(i))
  BY <1>2 DEF InTag, Outside
<1>4. ASSUME NEW i, NEW style
      PROVE  StyleAt(i, style)' = StyleAt(i, style)
  BY <1>2 DEF StyleAt
<1>5. WellFormed' <=> WellFormed
  BY <1>2, <1>3 DEF WellFormed, At
<1>6. ASSUME NEW i, NEW style
      PROVE  Setting(Body(i), style)' = Setting(Body(i), style)
  BY <1>2
<1> QED
  BY <1>2, <1>3, <1>4, <1>5, <1>6

LEMMA ValueTokens ==
  /\ AttributeNames \subseteq Alpha
  /\ \A n \in AttributeNames : Values(n) \subseteq Alnum /\ Values(n) \cap AttributeNames = {}
  /\ Alpha \subseteq Alnum /\ Alnum \subseteq Tokens
  /\ {"<", ">", "/", "'", "=", "blank", "#", "nl", "cr", "end"} \cap Alnum = {}
<1>1. \A n \in AttributeNames : Values(n) \subseteq {"red", "hex6", "x", "num"}
  BY DEF AttributeNames, Values
<1>2. {"red", "hex6", "x", "num"} \subseteq Alnum
      /\ {"red", "hex6", "x", "num"} \cap AttributeNames = {}
  BY DEF Alnum, Alpha, Digits, AttributeNames
<1> QED
  BY <1>1, <1>2 DEF AttributeNames, Alnum, Alpha, Digits, Tokens

LEMMA AttributeShape ==
  ASSUME NEW a \in Attributes
  PROVE  \E n \in AttributeNames : \E v \in Values(n) :
           a = <<"blank", n, "=", v>> \/ a = <<"blank", n, "=", "'", v, "'">>
BY DEF Attributes, AttributeNames

\* A part of the line that is an attribute.
LEMMA AttributeIsAt ==
  ASSUME NEW a \in Attributes, NEW p \in Nat,
         \A k \in 1 .. Len(a) : line[p + (k - 1)] = a[k]
  PROVE  \E n \in AttributeNames : \E v \in Values(n) : AttributeAt(p, n, v, p + Len(a))
<1>1. PICK n \in AttributeNames : \E v \in Values(n) :
        a = <<"blank", n, "=", v>> \/ a = <<"blank", n, "=", "'", v, "'">>
  BY AttributeShape
<1>2. PICK v \in Values(n) : a = <<"blank", n, "=", v>> \/ a = <<"blank", n, "=", "'", v, "'">>
  BY <1>1
<1>3. CASE a = <<"blank", n, "=", v>>
  <2>1. Len(a) = 4 /\ a[1] = "blank" /\ a[2] = n /\ a[3] = "=" /\ a[4] = v
    BY <1>3
  <2>2. 1 \in 1 .. Len(a) /\ 2 \in 1 .. Len(a) /\ 3 \in 1 .. Len(a) /\ 4 \in 1 .. Len(a)
    BY <2>1
  <2>3. line[p] = "blank" /\ line[p + 1] = n /\ line[p + 2] = "=" /\ line[p + 3] = v
    BY <2>1, <2>2
  <2> QED
    BY <2>1, <2>3 DEF AttributeAt
<1>4. CASE a = <<"blank", n, "=", "'", v, "'">>
  <2>1. /\ Len(a) = 6 /\ a[1] = "blank" /\ a[2] = n /\ a[3] = "="
        /\ a[4] = "'" /\ a[5] = v /\ a[6] = "'"
    BY <1>4
  <2>2. /\ 1 \in 1 .. Len(a) /\ 2 \in 1 .. Len(a) /\ 3 \in 1 .. Len(a) /\ 4 \in 1 .. Len(a)
        /\ 5 \in 1 .. Len(a) /\ 6 \in 1 .. Len(a)
    BY <2>1
  <2>3. /\ line[p] = "blank" /\ line[p + 1] = n /\ line[p + 2] = "="
        /\ line[p + 3] = "'" /\ line[p + 4] = v /\ line[p + 5] = "'"
    BY <2>1, <2>2
  <2> QED
    BY <2>1, <2>3 DEF AttributeAt
<1> QED
  BY <1>2, <1>3, <1>4

\* The tokens of an attribute, none of which begins or ends a tag.
LEMMA AttributeTokens ==
  ASSUME NEW p \in Nat, NEW n, NEW v, NEW next, AttributeAt(p, n, v, next)
  PROVE  /\ next \in {p + 4, p + 6}
         /\ \A k \in p .. next - 1 : line[k] \in Tokens \ {"<", ">"}
         /\ \A k \in p .. next - 1 : line[k] = "=" => k = p + 2
<1>1. /\ n \in Tokens \ {"<", ">", "="} /\ v \in Tokens \ {"<", ">", "="}
      /\ {"blank", "=", "'"} \subseteq Tokens \ {"<", ">"}
  <2>1. {"blank", "=", "'"} \subseteq Tokens \ {"<", ">"}
    BY DEF Tokens, Signs
  <2> QED
    BY <2>1, ValueTokens DEF AttributeAt
<1>2. next \in {p + 4, p + 6}
  BY DEF AttributeAt
<1>3. CASE next = p + 4
  <2>1. \A k \in p .. next - 1 : k = p \/ k = p + 1 \/ k = p + 2 \/ k = p + 3
    BY <1>3
  <2>2. line[p] = "blank" /\ line[p + 1] = n /\ line[p + 2] = "=" /\ line[p + 3] = v
    BY <1>3 DEF AttributeAt
  <2> QED
    BY <1>1, <1>2, <2>1, <2>2
<1>4. CASE next = p + 6
  <2>1. \A k \in p .. next - 1 :
          k = p \/ k = p + 1 \/ k = p + 2 \/ k = p + 3 \/ k = p + 4 \/ k = p + 5
    BY <1>4
  <2>2. /\ line[p] = "blank" /\ line[p + 1] = n /\ line[p + 2] = "=" /\ line[p + 3] = "'"
        /\ line[p + 4] = v /\ line[p + 5] = "'"
    BY <1>4 DEF AttributeAt
  <2> QED
    BY <1>1, <1>2, <2>1, <2>2
<1> QED
  BY <1>2, <1>3, <1>4

\* The place a search ends at.
LEMMA AfterIs ==
  ASSUME line \in Seq(Tokens), NEW i \in 1 .. Len(line) + 1, NEW these, "end" \notin these,
         NEW j \in i .. Len(line) + 1, At(j) \notin these, \A k \in i .. j - 1 : At(k) \in these
  PROVE  After(i, these) = j
<1>1. /\ After(i, these) \in i .. Len(line) + 1
      /\ At(After(i, these)) \notin these
      /\ \A k \in i .. After(i, these) - 1 : At(k) \in these
  BY AfterFacts
<1> DEFINE a == After(i, these)
<1> HIDE DEF a
<1>2. ~ (a < j)
  BY <1>1, AtFacts DEF a
<1>3. ~ (j < a)
  BY <1>1, AtFacts DEF a
<1> QED
  BY <1>1, <1>2, <1>3, AtFacts DEF a

LEMMA MaxIs ==
  ASSUME NEW S, S \subseteq Int, NEW m \in S, \A k \in S : k <= m
  PROVE  Max(S) = m
<1>1. \A x \in S : (\A y \in S : x >= y) => x = m
  OBVIOUS
<1>2. \A y \in S : m >= y
  OBVIOUS
<1> QED
  BY <1>1, <1>2 DEF Max

-----------------------------------------------------------------------------
(* The tags of a well-formed line.                                         *)

PlainNames == {"b", "i", "br", "x"}
PlainTag(j) ==
  /\ TagEnd(j) = j + 2
  /\ line[j + 1] \in PlainNames
  /\ Body(j) = <<line[j + 1]>>
ClosingTag(j) ==
  /\ TagEnd(j) = j + 3
  /\ line[j + 1] = "/" /\ line[j + 2] \in PlainNames \cup {"font"}
  /\ Body(j) = <<"/", line[j + 2]>>
OneFont(j) ==
  /\ line[j + 1] = "font"
  /\ \E n \in AttributeNames : \E v \in Values(n) : OneAttribute(j, n, v)
TwoFont(j) ==
  /\ line[j + 1] = "font"
  /\ \E n, m \in AttributeNames, v, w \in Tokens, next \in 1 .. TagEnd(j) :
       TwoAttributes(j, n, v, next, m, w)

LEMMA BodyFacts ==
  ASSUME LineInv, WellFormed, NEW j \in 1 .. Len(line), line[j] = "<"
  PROVE  /\ TagEnd(j) \in j + 1 .. Len(line) /\ line[TagEnd(j)] = ">"
         /\ \A k \in j .. TagEnd(j) - 1 : line[k] # ">"
         /\ Len(Body(j)) = TagEnd(j) - (j + 1)
         /\ \A k \in 1 .. TagEnd(j) - (j + 1) : Body(j)[k] = line[j + k]
         /\ Body(j) \in TagBodies
<1> DEFINE e == TagEnd(j)
<1>1. /\ line \in Seq(Tokens) /\ Len(line) \in Nat /\ "<" \in Tokens /\ ">" \in Tokens
      /\ \A k \in 1 .. Len(line) : At(k) = line[k]
      /\ \A k : At(k) \in Tokens <=> k \in 1 .. Len(line)
  BY AtFacts, TokenFacts DEF LineInv
<1>2. At(e) = ">" /\ Body(j) \in TagBodies
  BY DEF WellFormed
<1>3. e \in j .. Len(line) + 1 /\ \A k \in j .. e - 1 : At(k) # ">"
  BY <1>1, UntilFacts DEF TagEnd
<1>4. Body(j) = SubSeq(line, j + 1, e - 1)
  BY DEF Body
<1> HIDE DEF e
<1>5. e \in j + 1 .. Len(line) /\ line[e] = ">"
  BY <1>1, <1>2, <1>3
<1>6. Len(Body(j)) = e - (j + 1) /\ \A k \in 1 .. e - (j + 1) : Body(j)[k] = line[j + k]
  BY <1>1, <1>4, <1>5
<1>7. \A k \in j .. e - 1 : line[k] # ">"
  BY <1>1, <1>3, <1>5
<1> QED
  BY <1>2, <1>5, <1>6, <1>7 DEF e

LEMMA AttributeLength ==
  ASSUME NEW a \in Attributes
  PROVE  a \in Seq(Tokens) /\ (Len(a) = 4 \/ Len(a) = 6)
<1>1. PICK n \in AttributeNames : \E v \in Values(n) :
        a = <<"blank", n, "=", v>> \/ a = <<"blank", n, "=", "'", v, "'">>
  BY AttributeShape
<1>2. PICK v \in Values(n) : a = <<"blank", n, "=", v>> \/ a = <<"blank", n, "=", "'", v, "'">>
  BY <1>1
<1>3. n \in Tokens /\ v \in Tokens
  BY ValueTokens
<1>4. {"blank", "=", "'"} \subseteq Tokens
  BY DEF Tokens, Signs
<1>5. CASE a = <<"blank", n, "=", v>>
  BY <1>3, <1>4, <1>5
<1>6. CASE a = <<"blank", n, "=", "'", v, "'">>
  BY <1>3, <1>4, <1>6
<1> QED
  BY <1>2, <1>5, <1>6

\* A tag is of one of four shapes.
LEMMA TagShape ==
  ASSUME LineInv, WellFormed, NEW j \in 1 .. Len(line), line[j] = "<"
  PROVE  PlainTag(j) \/ ClosingTag(j) \/ OneFont(j) \/ TwoFont(j)
<1> DEFINE e == TagEnd(j)
           body == Body(j)
<1>1. /\ e \in j + 1 .. Len(line) /\ Len(line) \in Nat /\ j \in Int /\ e \in Int
      /\ Len(body) = e - (j + 1)
      /\ \A k \in 1 .. e - (j + 1) : body[k] = line[j + k]
      /\ body \in TagBodies
  BY BodyFacts DEF LineInv
<1> HIDE DEF e, body
<1>2. CASE body \in PlainTags
  <2>1. PICK w \in PlainNames : body = <<w>>
    BY <1>2 DEF PlainTags, PlainNames
  <2>2. Len(body) = 1 /\ body[1] = w
    BY <2>1
  <2>3. e = j + 2
    <3>1. e - (j + 1) = 1
      BY <1>1, <2>2
    <3> QED
      BY <1>1, <3>1
  <2>4. 1 \in 1 .. e - (j + 1)
    BY <2>3
  <2>5. line[j + 1] = w
    BY <1>1, <2>2, <2>4
  <2> QED
    BY <2>1, <2>3, <2>5 DEF PlainTag, e, body
<1>3. CASE body \in {<<"/">> \o t : t \in PlainTags \cup {<<"font">>}}
  <2>1. PICK t \in PlainTags \cup {<<"font">>} : body = <<"/">> \o t
    BY <1>3
  <2>2. PICK w \in PlainNames \cup {"font"} : t = <<w>>
    BY <2>1 DEF PlainTags, PlainNames
  <2>3. Len(body) = 2 /\ body[1] = "/" /\ body[2] = w
    BY <2>1, <2>2
  <2>4. e = j + 3
    <3>1. e - (j + 1) = 2
      BY <1>1, <2>3
    <3> QED
      BY <1>1, <3>1
  <2>5. 1 \in 1 .. e - (j + 1) /\ 2 \in 1 .. e - (j + 1)
    BY <2>4
  <2>6. line[j + 1] = "/" /\ line[j + 2] = w
    BY <1>1, <2>3, <2>5
  <2>7. body = <<"/", w>>
    <3> DEFINE pair == <<"/", w>>
    <3>1. /\ body \in Seq({"/", w}) /\ pair \in Seq({"/", w})
          /\ Len(pair) = 2 /\ pair[1] = "/" /\ pair[2] = w
      BY <2>1, <2>2
    <3> HIDE DEF pair
    <3>2. body = pair
      BY <2>3, <3>1
    <3> QED
      BY <3>2 DEF pair
  <2> QED
    BY <2>4, <2>6, <2>7 DEF ClosingTag, e, body
<1>4. CASE body \in {<<"font">> \o a : a \in Attributes}
  <2>1. PICK a \in Attributes : body = <<"font">> \o a
    BY <1>4
  <2>2. /\ a \in Seq(Tokens) /\ Len(a) \in Nat
        /\ Len(body) = Len(a) + 1 /\ body[1] = "font"
        /\ \A k \in 1 .. Len(a) : body[k + 1] = a[k]
    BY <2>1, AttributeLength
  <2>3. e = (j + 2) + Len(a) /\ line[j + 1] = "font" /\ j + 2 \in Nat
    <3>1. e - (j + 1) = Len(a) + 1
      BY <1>1, <2>2
    <3>2. 1 \in 1 .. e - (j + 1)
      BY <2>2, <3>1
    <3> QED
      BY <1>1, <2>2, <3>1, <3>2
  <2>4. \A k \in 1 .. Len(a) : line[(j + 2) + (k - 1)] = a[k]
    <3> TAKE k \in 1 .. Len(a)
    <3>1. k + 1 \in 1 .. e - (j + 1)
      BY <2>2, <2>3
    <3>2. body[k + 1] = line[j + (k + 1)]
      BY <1>1, <3>1
    <3>3. j + (k + 1) = (j + 2) + (k - 1)
      OBVIOUS
    <3> QED
      BY <2>2, <3>2, <3>3
  <2>5. \E n \in AttributeNames : \E v \in Values(n) : AttributeAt(j + 2, n, v, (j + 2) + Len(a))
    BY <2>3, <2>4, AttributeIsAt
  <2> QED
    BY <2>3, <2>5 DEF OneFont, OneAttribute, e
<1>5. CASE body \in {<<"font">> \o ab[1] \o ab[2] : ab \in Attributes \X Attributes}
  <2>1. PICK ab \in Attributes \X Attributes : body = <<"font">> \o ab[1] \o ab[2]
    BY <1>5
  <2>2. PICK a, b : a \in Attributes /\ b \in Attributes /\ body = <<"font">> \o a \o b
    BY <2>1
  <2>3. a \in Seq(Tokens) /\ b \in Seq(Tokens) /\ Len(a) \in Nat /\ Len(b) \in Nat
    BY <2>2, AttributeLength
  <2>4. /\ Len(body) = (Len(a) + 1) + Len(b) /\ body[1] = "font"
        /\ \A k \in 1 .. Len(a) : body[k + 1] = a[k]
        /\ \A k \in 1 .. Len(b) : body[(Len(a) + 1) + k] = b[k]
    BY <2>2, <2>3
  <2> DEFINE p == j + 2
             next == p + Len(a)
  <2>5. /\ p \in Nat /\ next \in Nat /\ e = next + Len(b) /\ line[j + 1] = "font" /\ next \in 1 .. e
    <3>1. e - (j + 1) = (Len(a) + 1) + Len(b)
      BY <1>1, <2>4
    <3>2. 1 \in 1 .. e - (j + 1)
      BY <2>3, <3>1
    <3>3. line[j + 1] = "font"
      BY <1>1, <2>4, <3>2
    <3> QED
      BY <1>1, <2>3, <3>1, <3>3
  <2>6. \A k \in 1 .. Len(a) : line[p + (k - 1)] = a[k]
    <3> TAKE k \in 1 .. Len(a)
    <3>1. k + 1 \in 1 .. e - (j + 1) /\ j + (k + 1) = p + (k - 1)
      BY <2>3, <2>5
    <3>2. body[k + 1] = line[j + (k + 1)]
      BY <1>1, <3>1
    <3> QED
      BY <2>4, <3>1, <3>2
  <2>7. \A k \in 1 .. Len(b) : line[next + (k - 1)] = b[k]
    <3> TAKE k \in 1 .. Len(b)
    <3> DEFINE m == (Len(a) + 1) + k
    <3>1. m \in 1 .. e - (j + 1) /\ j + m = next + (k - 1)
      BY <2>3, <2>5
    <3>2. body[m] = line[j + m]
      BY <1>1, <3>1
    <3>3. body[m] = b[k]
      BY <2>4
    <3> QED
      BY <3>1, <3>2, <3>3
  <2> HIDE DEF next
  <2>8. PICK n \in AttributeNames : \E v \in Values(n) : AttributeAt(p, n, v, p + Len(a))
    BY <2>2, <2>5, <2>6, AttributeIsAt
  <2>9. PICK v \in Values(n) : AttributeAt(p, n, v, p + Len(a))
    BY <2>8
  <2>10. PICK m \in AttributeNames : \E w \in Values(m) : AttributeAt(next, m, w, next + Len(b))
    BY <2>2, <2>5, <2>7, AttributeIsAt
  <2>11. PICK w \in Values(m) : AttributeAt(next, m, w, next + Len(b))
    BY <2>10
  <2>12. v \in Tokens /\ w \in Tokens
    BY ValueTokens
  <2>13. TwoAttributes(j, n, v, next, m, w)
    BY <2>5, <2>9, <2>11 DEF TwoAttributes, next, e
  <2> QED
    BY <2>5, <2>12, <2>13 DEF TwoFont, e
<1> QED
  BY <1>1, <1>2, <1>3, <1>4, <1>5 DEF TagBodies

\* No tag begins or ends in a tag.
LEMMA TagInside ==
  ASSUME LineInv, WellFormed, NEW j \in 1 .. Len(line), line[j] = "<"
  PROVE  /\ TagEnd(j) \in j + 2 .. Len(line)
         /\ \A k \in j + 1 .. TagEnd(j) : line[k] # "<"
<1> DEFINE e == TagEnd(j)
<1>1. /\ e \in j + 1 .. Len(line) /\ Len(line) \in Nat /\ j \in Nat /\ e \in Nat
      /\ line[e] = ">"
  BY BodyFacts DEF LineInv
<1> HIDE DEF e
<1>2. "<" \notin PlainNames \cup {"font", "/", ">"}
  BY DEF PlainNames
<1>3. CASE PlainTag(j)
  <2>1. e = j + 2 /\ line[j + 1] \in PlainNames
    BY <1>3 DEF PlainTag, e
  <2>2. \A k \in j + 1 .. e : k = j + 1 \/ k = e
    BY <1>1, <2>1
  <2>3. \A k \in j + 1 .. e : line[k] # "<"
    BY <1>1, <1>2, <2>1, <2>2
  <2> QED
    BY <1>1, <2>1, <2>3 DEF e
<1>4. CASE ClosingTag(j)
  <2>1. e = j + 3 /\ line[j + 1] = "/" /\ line[j + 2] \in PlainNames \cup {"font"}
    BY <1>4 DEF ClosingTag, e
  <2>2. \A k \in j + 1 .. e : k = j + 1 \/ k = j + 2 \/ k = e
    BY <1>1, <2>1
  <2>3. \A k \in j + 1 .. e : line[k] # "<"
    BY <1>1, <1>2, <2>1, <2>2
  <2> QED
    BY <1>1, <2>1, <2>3 DEF e
<1>5. CASE OneFont(j)
  <2>1. PICK n \in AttributeNames : \E v \in Values(n) : AttributeAt(j + 2, n, v, e)
    BY <1>5 DEF OneFont, OneAttribute, e
  <2>2. PICK v \in Values(n) : AttributeAt(j + 2, n, v, e)
    BY <2>1
  <2>3. /\ e \in {(j + 2) + 4, (j + 2) + 6}
        /\ \A k \in j + 2 .. e - 1 : line[k] \in Tokens \ {"<", ">"}
    <3>1. j + 2 \in Nat
      BY <1>1
    <3> QED
      BY <2>2, <3>1, AttributeTokens
  <2>4. \A k \in j + 1 .. e : k = j + 1 \/ k \in j + 2 .. e - 1 \/ k = e
    BY <1>1, <2>3
  <2>5. line[j + 1] # "<"
    BY <1>5 DEF OneFont
  <2>6. \A k \in j + 1 .. e : line[k] # "<"
    BY <1>1, <2>3, <2>4, <2>5
  <2> QED
    BY <1>1, <2>3, <2>6 DEF e
<1>6. CASE TwoFont(j)
  <2>1. PICK n \in AttributeNames, m \in AttributeNames, v \in Tokens, w \in Tokens,
             next \in 1 .. e : TwoAttributes(j, n, v, next, m, w)
    BY <1>6 DEF TwoFont, e
  <2>2. AttributeAt(j + 2, n, v, next) /\ AttributeAt(next, m, w, e)
    BY <2>1 DEF TwoAttributes, e
  <2>3. /\ next \in {(j + 2) + 4, (j + 2) + 6} /\ e \in {next + 4, next + 6}
        /\ \A k \in j + 2 .. next - 1 : line[k] \in Tokens \ {"<", ">"}
        /\ \A k \in next .. e - 1 : line[k] \in Tokens \ {"<", ">"}
    <3>1. j + 2 \in Nat /\ next \in Nat
      BY <1>1
    <3> QED
      BY <2>2, <3>1, AttributeTokens
  <2>4. \A k \in j + 1 .. e :
          k = j + 1 \/ k \in j + 2 .. next - 1 \/ k \in next .. e - 1 \/ k = e
    BY <1>1, <2>3
  <2>5. line[j + 1] # "<"
    BY <1>6 DEF TwoFont
  <2>6. \A k \in j + 1 .. e : line[k] # "<"
    BY <1>1, <2>3, <2>4, <2>5
  <2> QED
    BY <1>1, <2>3, <2>6 DEF e
<1> QED
  BY <1>3, <1>4, <1>5, <1>6, TagShape

-----------------------------------------------------------------------------
(* What the tags set the styles to.                                        *)

LEMMA PlainSetting ==
  ASSUME NEW w \in PlainNames, NEW style \in Followed
  PROVE  Setting(<<w>>, style) = IF w = style THEN "on" ELSE "none"
<1> DEFINE body == <<w>>
<1>1. Len(body) = 1 /\ body[1] = w
  OBVIOUS
<1>2. 2 .. Len(body) - 1 = {}
  BY <1>1
<1>3. /\ body = <<style>> <=> w = style
      /\ body # <<"/", style>> /\ body # <<"/", "font">>
  OBVIOUS
<1> HIDE DEF body
<1>4. Setting(body, style) = IF w = style THEN "on" ELSE "none"
  BY <1>2, <1>3 DEF Setting
<1> QED
  BY <1>4 DEF body

LEMMA ClosingSetting ==
  ASSUME NEW w \in PlainNames \cup {"font"}, NEW style \in Followed
  PROVE  Setting(<<"/", w>>, style) =
           IF w = style THEN "off"
           ELSE IF w = "font" /\ style \in {"c", "fn", "fs"} THEN "default" ELSE "none"
<1> DEFINE body == <<"/", w>>
<1>1. Len(body) = 2 /\ body[1] = "/" /\ body[2] = w
  OBVIOUS
<1>2. 2 .. Len(body) - 1 = {}
  BY <1>1
<1>3. /\ body # <<style>>
      /\ body = <<"/", style>> <=> w = style
      /\ body = <<"/", "font">> <=> w = "font"
  OBVIOUS
<1>4. style # "font"
  BY DEF Followed
<1> HIDE DEF body
<1>5. CASE w = style
  BY <1>2, <1>3, <1>4, <1>5 DEF Setting
<1>6. CASE w # style /\ w = "font" /\ style \in {"c", "fn", "fs"}
  BY <1>2, <1>3, <1>6 DEF Setting
<1>7. CASE w # style /\ ~(w = "font" /\ style \in {"c", "fn", "fs"})
  BY <1>2, <1>3, <1>7 DEF Setting
<1> QED
  BY <1>5, <1>6, <1>7 DEF body

LEMMA LongBody ==
  ASSUME NEW body, Len(body) \in Nat, Len(body) >= 3
  PROVE  \A u, w : body # <<u>> /\ body # <<u, w>>
<1>1. \A u, w : Len(<<u>>) = 1 /\ Len(<<u, w>>) = 2
  OBVIOUS
<1>2. ~(1 >= 3) /\ ~(2 >= 3)
  OBVIOUS
<1> QED
  BY <1>1, <1>2, Zenon

\* The last attribute of a name gives its style the value.
LEMMA GivenSetting ==
  ASSUME NEW body, Len(body) \in Nat, Len(body) >= 3, NEW n \in AttributeNames,
         NEW k \in 2 .. Len(body) - 1, body[k] = n, body[k + 1] = "=",
         \A l \in k + 1 .. Len(body) - 1 : ~(body[l] = n /\ body[l + 1] = "="),
         NEW v, v = IF body[k + 2] = "'" THEN body[k + 3] ELSE body[k + 2]
  PROVE  Setting(body, StyleName(n)) = Given(n, v)
<1> DEFINE style == StyleName(n)
           places == {l \in 2 .. Len(body) - 1 : body[l] = n /\ body[l + 1] = "="}
<1>1. k \in places /\ places \subseteq Int /\ \A l \in places : l <= k
  OBVIOUS
<1>2. Max(places) = k
  <2> HIDE DEF places
  <2> QED
    BY <1>1, MaxIs
<1>3. body # <<style>> /\ body # <<"/", style>> /\ body # <<"/", "font">>
  BY LongBody
<1>4. /\ style \in {"c", "fn", "fs"}
      /\ n = CASE style = "c" -> "color" [] style = "fs" -> "size" [] OTHER -> "face"
      /\ Given(n, v) = IF style = "c" /\ v = "x" THEN "white" ELSE v
  BY DEF AttributeNames, StyleName, Given
<1> HIDE DEF style
<1>5. places # {}
  BY <1>1, Zenon
<1>6. Setting(body, style) = IF style = "c" /\ v = "x" THEN "white" ELSE v
  BY <1>2, <1>3, <1>4, <1>5 DEF Setting
<1> QED
  BY <1>4, <1>6 DEF style

LEMMA NoSetting ==
  ASSUME NEW body, Len(body) \in Nat, Len(body) >= 3, NEW style \in Followed,
         \A n \in AttributeNames : StyleName(n) = style =>
           \A k \in 2 .. Len(body) - 1 : ~(body[k] = n /\ body[k + 1] = "=")
  PROVE  Setting(body, style) = "none"
<1>1. body # <<style>> /\ body # <<"/", style>> /\ body # <<"/", "font">>
  BY LongBody
<1> DEFINE n == CASE style = "c" -> "color" [] style = "fs" -> "size" [] OTHER -> "face"
<1>2. n \in AttributeNames /\ (style \in {"c", "fn", "fs"} => StyleName(n) = style)
  BY DEF AttributeNames, StyleName, Followed
<1>3. style \in {"c", "fn", "fs"} =>
        {k \in 2 .. Len(body) - 1 : body[k] = n /\ body[k + 1] = "="} = {}
  <2> HIDE DEF n
  <2> QED
    BY <1>2
<1> QED
  BY <1>1, <1>3 DEF Setting

\* The body of a tag from its attributes.
LEMMA OneFontSetting ==
  ASSUME LineInv, WellFormed, NEW j \in 1 .. Len(line), line[j] = "<",
         NEW n, NEW v, OneAttribute(j, n, v), NEW style \in Followed
  PROVE  Setting(Body(j), style) = IF style = StyleName(n) THEN Given(n, v) ELSE "none"
<1> DEFINE e == TagEnd(j)
           body == Body(j)
           p == j + 2
<1>1. /\ e \in j + 1 .. Len(line) /\ Len(line) \in Nat /\ j \in Nat /\ e \in Nat /\ p \in Nat
      /\ Len(body) = e - (j + 1)
      /\ \A k \in 1 .. e - (j + 1) : body[k] = line[j + k]
  BY BodyFacts DEF LineInv
<1>2. AttributeAt(p, n, v, e)
  BY DEF OneAttribute
<1> HIDE DEF e, body
<1>3. /\ e \in {p + 4, p + 6}
      /\ \A k \in p .. e - 1 : line[k] = "=" => k = p + 2
  BY <1>1, <1>2, AttributeTokens
<1>4. Len(body) \in Nat /\ Len(body) >= 5 /\ 3 \in 2 .. Len(body) - 1
  BY <1>1, <1>3
<1>5. \A k \in 2 .. Len(body) - 1 : body[k + 1] = "=" => k = 3
  <2> SUFFICES ASSUME NEW k \in 2 .. Len(body) - 1, body[k + 1] = "="
               PROVE  k = 3
    OBVIOUS
  <2>1. k + 1 \in 1 .. e - (j + 1) /\ j + (k + 1) \in p .. e - 1
    BY <1>1, <1>4
  <2>2. line[j + (k + 1)] = "="
    BY <1>1, <2>1
  <2>3. j + (k + 1) = p + 2
    BY <1>3, <2>1, <2>2
  <2> QED
    BY <1>1, <2>3
<1>6. body[3] = n /\ body[4] = "=" /\ n \in AttributeNames
  <2>1. 3 \in 1 .. e - (j + 1) /\ 4 \in 1 .. e - (j + 1)
    BY <1>1, <1>3
  <2>2. body[3] = line[j + 3] /\ body[4] = line[j + 4]
    BY <1>1, <2>1
  <2>3. line[p + 1] = n /\ line[p + 2] = "=" /\ n \in AttributeNames
    BY <1>2 DEF AttributeAt
  <2> QED
    BY <1>1, <2>2, <2>3
<1>7. v = IF body[5] = "'" THEN body[6] ELSE body[5]
  <2>1. 5 \in 1 .. e - (j + 1) /\ body[5] = line[p + 3]
    <3>1. 5 \in 1 .. e - (j + 1) /\ j + 5 = p + 3
      BY <1>1, <1>3
    <3> QED
      BY <1>1, <3>1
  <2>2. CASE line[p + 3] = v /\ e = p + 4
    <3>1. v # "'"
      BY <1>2, ValueTokens DEF AttributeAt
    <3> QED
      BY <2>1, <2>2, <3>1
  <2>3. CASE line[p + 3] = "'" /\ line[p + 4] = v /\ e = p + 6
    <3>1. 6 \in 1 .. e - (j + 1) /\ j + 6 = p + 4
      BY <1>1, <2>3
    <3> QED
      BY <1>1, <2>1, <2>3, <3>1
  <2> QED
    BY <1>2, <2>2, <2>3 DEF AttributeAt
<1>8. CASE style = StyleName(n)
  <2>1. \A l \in 3 + 1 .. Len(body) - 1 : ~(body[l] = n /\ body[l + 1] = "=")
    BY <1>4, <1>5
  <2>2. body[3 + 1] = "=" /\ v = IF body[3 + 2] = "'" THEN body[3 + 3] ELSE body[3 + 2]
    BY <1>6, <1>7
  <2>3. Setting(body, StyleName(n)) = Given(n, v)
    BY <1>4, <1>6, <2>1, <2>2, GivenSetting
  <2> QED
    BY <1>8, <2>3 DEF body
<1>9. CASE style # StyleName(n)
  <2>1. \A m \in AttributeNames : StyleName(m) = style =>
          \A k \in 2 .. Len(body) - 1 : ~(body[k] = m /\ body[k + 1] = "=")
    BY <1>5, <1>6, <1>9
  <2>2. Setting(body, style) = "none"
    BY <1>4, <2>1, NoSetting
  <2> QED
    BY <1>9, <2>2 DEF body
<1> QED
  BY <1>8, <1>9

LEMMA TwoFontSetting ==
  ASSUME NEW j \in 1 .. Len(line), NEW next \in Nat, NEW style \in Followed,
         NEW n, NEW v, NEW m, NEW w,
         LineInv, WellFormed, line[j] = "<", TwoAttributes(j, n, v, next, m, w)
  PROVE  Setting(Body(j), style) =
           IF style = StyleName(m) THEN Given(m, w)
           ELSE IF style = StyleName(n) THEN Given(n, v) ELSE "none"
<1> DEFINE e == TagEnd(j)
           body == Body(j)
           p == j + 2
           k2 == next - j + 1
<1>1. /\ e \in j + 1 .. Len(line) /\ Len(line) \in Nat /\ j \in Nat /\ e \in Nat /\ p \in Nat
      /\ Len(body) = e - (j + 1)
      /\ \A k \in 1 .. e - (j + 1) : body[k] = line[j + k]
  BY BodyFacts DEF LineInv
<1>2. AttributeAt(p, n, v, next) /\ AttributeAt(next, m, w, e)
  BY DEF TwoAttributes
<1> HIDE DEF e, body
<1>3. /\ next \in {p + 4, p + 6} /\ e \in {next + 4, next + 6}
      /\ \A k \in p .. next - 1 : line[k] = "=" => k = p + 2
      /\ \A k \in next .. e - 1 : line[k] = "=" => k = next + 2
  BY <1>1, <1>2, AttributeTokens
<1>4. /\ Len(body) \in Nat /\ Len(body) >= 9
      /\ 3 \in 2 .. Len(body) - 1 /\ k2 \in 4 .. Len(body) - 1 /\ j + k2 = next + 1
  BY <1>1, <1>3
<1>5. \A k \in 2 .. Len(body) - 1 : body[k + 1] = "=" => k = 3 \/ k = k2
  <2> SUFFICES ASSUME NEW k \in 2 .. Len(body) - 1, body[k + 1] = "="
               PROVE  k = 3 \/ k = k2
    OBVIOUS
  <2>1. k + 1 \in 1 .. e - (j + 1)
        /\ (j + (k + 1) \in p .. next - 1 \/ j + (k + 1) \in next .. e - 1)
    BY <1>1, <1>3, <1>4
  <2>2. line[j + (k + 1)] = "="
    BY <1>1, <2>1
  <2>3. j + (k + 1) = p + 2 \/ j + (k + 1) = next + 2
    BY <1>3, <2>1, <2>2
  <2> QED
    BY <1>1, <2>3
<1>6. /\ body[3] = n /\ body[3 + 1] = "=" /\ n \in AttributeNames
      /\ body[k2] = m /\ body[k2 + 1] = "=" /\ m \in AttributeNames
  <2>1. /\ 3 \in 1 .. e - (j + 1) /\ 4 \in 1 .. e - (j + 1) /\ j + 3 = p + 1 /\ j + 4 = p + 2
        /\ k2 \in 1 .. e - (j + 1) /\ k2 + 1 \in 1 .. e - (j + 1)
        /\ j + k2 = next + 1 /\ j + (k2 + 1) = next + 2
    BY <1>1, <1>3, <1>4
  <2> HIDE DEF k2, p
  <2>2. /\ body[3] = line[p + 1] /\ body[4] = line[p + 2]
        /\ body[k2] = line[next + 1] /\ body[k2 + 1] = line[next + 2]
    BY <1>1, <2>1
  <2>3. /\ line[p + 1] = n /\ line[p + 2] = "=" /\ n \in AttributeNames
        /\ line[next + 1] = m /\ line[next + 2] = "=" /\ m \in AttributeNames
    BY <1>2 DEF AttributeAt
  <2> QED
    BY <2>2, <2>3
<1>7. ASSUME NEW q \in Nat, NEW name, NEW value, NEW behind, AttributeAt(q, name, value, behind),
             q >= p, behind <= e, NEW k \in Nat, j + k = q + 1
      PROVE  value = IF body[k + 2] = "'" THEN body[k + 3] ELSE body[k + 2]
  <2>1. behind \in {q + 4, q + 6}
    BY <1>7 DEF AttributeAt
  <2>2. k + 2 \in 1 .. e - (j + 1) /\ j + (k + 2) = q + 3
    BY <1>1, <1>7, <2>1
  <2>3. body[k + 2] = line[q + 3]
    BY <1>1, <2>2
  <2>4. CASE line[q + 3] = value /\ behind = q + 4
    <3>1. value # "'"
      BY <1>7, ValueTokens DEF AttributeAt
    <3> QED
      BY <2>3, <2>4, <3>1
  <2>5. CASE line[q + 3] = "'" /\ line[q + 4] = value /\ behind = q + 6
    <3>1. k + 3 \in 1 .. e - (j + 1) /\ j + (k + 3) = q + 4
      BY <1>1, <1>7, <2>5
    <3>2. body[k + 3] = line[q + 4]
      BY <1>1, <3>1
    <3> QED
      BY <2>3, <2>5, <3>2
  <2> QED
    BY <1>7, <2>4, <2>5 DEF AttributeAt
<1>8. v = IF body[3 + 2] = "'" THEN body[3 + 3] ELSE body[3 + 2]
  <2>1. p \in Nat /\ p >= p /\ next <= e /\ 3 \in Nat /\ j + 3 = p + 1
    BY <1>1, <1>3
  <2> QED
    BY <1>2, <1>7, <2>1
<1>9. w = IF body[k2 + 2] = "'" THEN body[k2 + 3] ELSE body[k2 + 2]
  <2>1. next \in Nat /\ next >= p /\ e <= e /\ k2 \in Nat /\ j + k2 = next + 1
    BY <1>1, <1>3, <1>4
  <2> HIDE DEF k2
  <2> QED
    BY <1>2, <1>7, <2>1
<1> HIDE DEF k2
<1>10. CASE style = StyleName(m)
  <2>1. \A l \in k2 + 1 .. Len(body) - 1 : ~(body[l] = m /\ body[l + 1] = "=")
    BY <1>4, <1>5
  <2>2. k2 \in 2 .. Len(body) - 1
    BY <1>4
  <2>3. Setting(body, StyleName(m)) = Given(m, w)
    BY <1>4, <1>6, <1>9, <2>1, <2>2, GivenSetting
  <2> QED
    BY <1>10, <2>3 DEF body
<1>11. CASE style # StyleName(m) /\ style = StyleName(n)
  <2>1. n # m
    BY <1>11
  <2>2. \A l \in 3 + 1 .. Len(body) - 1 : ~(body[l] = n /\ body[l + 1] = "=")
    BY <1>4, <1>5, <1>6, <2>1
  <2>3. Setting(body, StyleName(n)) = Given(n, v)
    BY <1>4, <1>6, <1>8, <2>2, GivenSetting
  <2> QED
    BY <1>11, <2>3 DEF body
<1>12. CASE style # StyleName(m) /\ style # StyleName(n)
  <2>1. \A o \in AttributeNames : StyleName(o) = style =>
          \A k \in 2 .. Len(body) - 1 : ~(body[k] = o /\ body[k + 1] = "=")
    BY <1>5, <1>6, <1>12
  <2>2. Setting(body, style) = "none"
    BY <1>4, <2>1, NoSetting
  <2> QED
    BY <1>12, <2>2 DEF body
<1> QED
  BY <1>10, <1>11, <1>12

-----------------------------------------------------------------------------
(* The style at a place of the line and of the output.                     *)

LEMMA MaxIn ==
  ASSUME NEW n \in Nat, NEW S, S \subseteq 0 .. n, S # {}
  PROVE  Max(S) \in S /\ \A k \in S : k <= Max(S)
<1> DEFINE T == {n - k : k \in S}
<1>1. T \subseteq Nat /\ T # {}
  <2>1. \A k \in S : k \in 0 .. n /\ n - k \in Nat
    OBVIOUS
  <2> QED
    BY <2>1
<1>2. PICK t \in T : \A u \in T : t <= u
  <2> HIDE DEF T
  <2> QED
    BY <1>1, LeastNat
<1>3. PICK m \in S : t = n - m
  BY <1>2
<1>4. \A k \in S : k <= m
  <2> TAKE k \in S
  <2>1. n - m <= n - k
    BY <1>2, <1>3
  <2>2. k \in 0 .. n /\ m \in 0 .. n
    OBVIOUS
  <2> QED
    BY <2>1, <2>2
<1>5. Max(S) = m
  <2>1. S \subseteq Int
    OBVIOUS
  <2> QED
    BY <1>4, <2>1, MaxIs
<1> QED
  BY <1>4, <1>5

\* Behind the last place of a tag, or a place without one, its setting has been added.
LEMMA StylePassed ==
  ASSUME LineInv, NEW i \in 1 .. Len(line), NEW e \in i .. Len(line),
         \A k \in i + 1 .. e : line[k] # "<", NEW style
  PROVE  StyleAt(e + 1, style) =
           IF line[i] = "<" /\ Setting(Body(i), style) # "none" THEN Setting(Body(i), style)
           ELSE StyleAt(i, style)
<1> DEFINE Sets(j) == line[j] = "<" /\ Setting(Body(j), style) # "none"
           before == {j \in 1 .. i - 1 : Sets(j)}
           behind == {j \in 1 .. (e + 1) - 1 : Sets(j)}
<1>1. Len(line) \in Nat /\ i \in Nat /\ e \in Nat
  BY AtFacts DEF LineInv
<1>2. /\ StyleAt(i, style) = IF before = {} THEN "unset" ELSE Setting(Body(Max(before)), style)
      /\ StyleAt(e + 1, style) = IF behind = {} THEN "unset" ELSE Setting(Body(Max(behind)), style)
  BY DEF StyleAt
<1>3. \A j \in 1 .. (e + 1) - 1 : j \in 1 .. i - 1 \/ j = i \/ j \in i + 1 .. e
  BY <1>1
<1>4. CASE Sets(i)
  <2>1. i \in behind /\ behind \subseteq Int
    BY <1>1, <1>4
  <2>2. \A j \in behind : j <= i
    BY <1>1, <1>3
  <2>3. Max(behind) = i
    <3> HIDE DEF behind
    <3> QED
      BY <2>1, <2>2, MaxIs
  <2>4. behind # {}
    BY <2>1
  <2> QED
    BY <1>2, <1>4, <2>3, <2>4
<1>5. CASE ~Sets(i)
  <2>1. behind = before
    BY <1>1, <1>3, <1>5
  <2> QED
    BY <1>2, <1>5, <2>1
<1> QED
  BY <1>4, <1>5

\* More output changes no style before it.
LEMMA StyleKept ==
  ASSUME NEW more \in Seq(Items), out \in Seq(Items), NEW o, out' = o, o = out \o more,
         NEW n \in 1 .. Len(out) + 1, NEW style
  PROVE  StyleOf(n, style)' = StyleOf(n, style)
<1> DEFINE sets == {m \in 1 .. n - 1 : out[m].style = style}
<1>1. \A m \in 1 .. Len(out) : o[m] = out[m]
  OBVIOUS
<1>2. sets = {m \in 1 .. n - 1 : o[m].style = style}
  BY <1>1
<1>3. /\ StyleOf(n, style) = IF sets = {} THEN "unset" ELSE out[Max(sets)].value
      /\ StyleOf(n, style)' = IF sets = {} THEN "unset" ELSE o[Max(sets)].value
  BY <1>2 DEF StyleOf
<1>4. sets # {} => Max(sets) \in 1 .. Len(out)
  <2>1. sets \subseteq 1 .. Len(out) /\ Len(out) \in Nat
    OBVIOUS
  <2> HIDE DEF sets
  <2>2. sets \subseteq 0 .. Len(out)
    BY <2>1
  <2>3. sets # {} => Max(sets) \in sets
    BY <2>1, <2>2, MaxIn
  <2> QED
    BY <2>1, <2>3
<1> HIDE DEF sets
<1> QED
  BY <1>1, <1>3, <1>4

LEMMA NowKept ==
  ASSUME NEW more \in Seq(Items), out \in Seq(Items), NEW o, out' = o, o = out \o more,
         NEW style, \A k \in 1 .. Len(more) : more[k].style # style
  PROVE  Now(style)' = Now(style)
<1>1. PICK n \in 1 .. Len(out) + 1 : n = Len(out) + 1
  OBVIOUS
<1> DEFINE last == Len(o) + 1
           sets == {m \in 1 .. n - 1 : out[m].style = style}
<1>2. /\ last - 1 = Len(out) + Len(more) /\ n - 1 = Len(out)
      /\ \A m \in 1 .. Len(out) : o[m] = out[m]
      /\ \A m \in Len(out) + 1 .. Len(out) + Len(more) : o[m] = more[m - Len(out)]
  BY <1>1
<1>3. {m \in 1 .. last - 1 : o[m].style = style} = sets
  <2>1. ASSUME NEW m \in 1 .. last - 1, o[m].style = style
        PROVE  m \in 1 .. n - 1
    <3>1. CASE m \in Len(out) + 1 .. Len(out) + Len(more)
      <4>1. m - Len(out) \in 1 .. Len(more)
        BY <3>1
      <4> QED
        BY <1>2, <2>1, <3>1, <4>1
    <3> QED
      BY <1>2, <3>1
  <2>2. n - 1 <= last - 1
    BY <1>2
  <2> HIDE DEF last
  <2> QED
    BY <1>2, <2>1, <2>2
<1>4. Now(style) = StyleOf(n, style) /\ StyleOf(n, style)' = StyleOf(n, style)
  BY <1>1, StyleKept DEF Now
<1>5. StyleOf(n, style)' = IF sets = {} THEN "unset" ELSE o[Max(sets)].value
  <2>1. sets = {m \in 1 .. n - 1 : o[m].style = style}
    BY <1>2
  <2> QED
    BY <2>1 DEF StyleOf
<1>6. Now(style)' = IF sets = {} THEN "unset" ELSE o[Max(sets)].value
  BY <1>3 DEF Now, StyleOf
<1> QED
  BY <1>4, <1>5, <1>6

LEMMA NowSet ==
  ASSUME NEW more \in Seq(Items), out \in Seq(Items), NEW o, out' = o, o = out \o more,
         NEW style, NEW k \in 1 .. Len(more), more[k].style = style,
         \A l \in k + 1 .. Len(more) : more[l].style # style
  PROVE  Now(style)' = more[k].value
<1> DEFINE last == Len(o) + 1
           sets == {m \in 1 .. last - 1 : o[m].style = style}
           m0 == Len(out) + k
<1>1. /\ last - 1 = Len(out) + Len(more) /\ Len(out) \in Nat
      /\ \A m \in Len(out) + 1 .. Len(out) + Len(more) : o[m] = more[m - Len(out)]
  OBVIOUS
<1>2. m0 \in sets /\ o[m0] = more[k] /\ sets \subseteq Int
  BY <1>1
<1>3. \A m \in sets : m <= m0
  <2> SUFFICES ASSUME NEW m \in sets, m > m0
               PROVE  FALSE
    BY <1>1
  <2>1. m \in Len(out) + 1 .. Len(out) + Len(more) /\ m - Len(out) \in k + 1 .. Len(more)
    BY <1>1
  <2>2. o[m] = more[m - Len(out)]
    BY <1>1, <2>1
  <2> QED
    BY <2>1, <2>2
<1>4. Max(sets) = m0
  <2> HIDE DEF sets, m0
  <2> QED
    BY <1>2, <1>3, MaxIs
<1>5. sets # {}
  BY <1>2, Zenon
<1>6. Now(style)' = IF sets = {} THEN "unset" ELSE o[Max(sets)].value
  BY DEF Now, StyleOf
<1> QED
  BY <1>2, <1>4, <1>5, <1>6

-----------------------------------------------------------------------------
(* One step of the parser on a well-formed line.                           *)

LEMMA HereStays ==
  ASSUME line' = line, NEW next, pos' = next
  PROVE  /\ Outside(pos)' <=> Outside(next)
         /\ \A style : StyleAt(pos, style)' = StyleAt(next, style)
<1>1. Outside(pos)' <=> Outside(next)
  BY LineStays DEF Outside
<1>2. ASSUME NEW style
      PROVE  StyleAt(pos, style)' = StyleAt(next, style)
  BY LineStays DEF StyleAt
<1> QED
  BY <1>1, <1>2

\* Places that are no text are passed, and styles are set.
LEMMA NoTextKeeps ==
  ASSUME LineInv, TextInv, line' = line, NEW next \in pos .. Len(line) + 1, pos' = next,
         NEW more \in Seq(Items), NEW o, out' = o, o = out \o more,
         \A k \in 1 .. Len(more) : more[k].style # "text",
         \A i \in pos .. next - 1 : ~IsText(i)
  PROVE  TextInv'
<1>1. /\ out \in Seq(Items) /\ Len(out) \in Nat /\ Len(line) \in Nat /\ pos \in 1 .. Len(line) + 1
      /\ next \in Nat
  BY AtFacts DEF LineInv
<1>2. \A n \in 1 .. Len(o) : \A i : TextAt(n, i)' <=> n \in 1 .. Len(out) /\ TextAt(n, i)
  <2>1. \A n \in 1 .. Len(out) : o[n] = out[n]
    BY <1>1
  <2>2. \A n \in 1 .. Len(o) : n \notin 1 .. Len(out) => o[n].style # "text"
    <3> SUFFICES ASSUME NEW n \in 1 .. Len(o), n \notin 1 .. Len(out)
                 PROVE  o[n].style # "text"
      OBVIOUS
    <3>1. n - Len(out) \in 1 .. Len(more) /\ o[n] = more[n - Len(out)]
      BY <1>1
    <3> QED
      BY <3>1
  <2> QED
    BY <2>1, <2>2 DEF TextAt
<1>3. \A n \in 1 .. Len(out) : n \in 1 .. Len(o)
  BY <1>1
<1>4. \A i : IsText(i)' <=> IsText(i)
  BY LineStays DEF IsText
<1>5. ASSUME NEW n \in 1 .. Len(out), NEW style
      PROVE  StyleOf(n, style)' = StyleOf(n, style) /\ \A i : StyleAt(i, style)' = StyleAt(i, style)
  <2>1. n \in 1 .. Len(out) + 1
    BY <1>1
  <2> QED
    BY <1>1, <2>1, StyleKept, LineStays
<1>6. ASSUME NEW n \in 1 .. Len(o), NEW i \in Nat, TextAt(n, i)'
      PROVE  /\ i \in 1 .. next - 1
             /\ IsText(i)'
             /\ \A style \in Followed : StyleOf(n, style)' = StyleAt(i, style)'
  <2>1. n \in 1 .. Len(out) /\ TextAt(n, i)
    BY <1>2, <1>6
  <2>2. i \in 1 .. pos - 1 /\ IsText(i)
        /\ \A style \in Followed : StyleOf(n, style) = StyleAt(i, style)
    BY <2>1 DEF TextInv
  <2> QED
    BY <1>1, <1>4, <1>5, <2>1, <2>2
<1>7. ASSUME NEW i \in 1 .. next - 1, IsText(i)'
      PROVE  \E n \in 1 .. Len(o) : TextAt(n, i)'
  <2>1. i \in 1 .. pos - 1 /\ IsText(i)
    BY <1>1, <1>4, <1>7
  <2>2. PICK n \in 1 .. Len(out) : TextAt(n, i)
    BY <2>1 DEF TextInv
  <2> QED
    BY <1>2, <1>3, <2>2
<1>8. ASSUME NEW m \in 1 .. Len(o), NEW n \in 1 .. Len(o), NEW i \in Nat, NEW j \in Nat,
             TextAt(m, i)', TextAt(n, j)', m < n
      PROVE  i < j
  BY <1>2, <1>8 DEF TextInv
<1> QED
  BY <1>6, <1>7, <1>8 DEF TextInv

LEMMA Joined ==
  ASSUME NEW s \in Seq(Items), NEW t \in Seq(Items)
  PROVE  Len(s \o t) = Len(s) + Len(t) /\ \A n \in 1 .. Len(s) : (s \o t)[n] = s[n]
OBVIOUS

LEMMA Appended ==
  ASSUME NEW s \in Seq(Items), NEW t \in Seq(Items), Len(t) = 1
  PROVE  /\ Len(s \o t) = Len(s) + 1
         /\ \A n \in 1 .. Len(s) : (s \o t)[n] = s[n]
         /\ (s \o t)[Len(s) + 1] = t[1]
<1>1. Len(s) \in Nat /\ Len(s \o t) = Len(s) + 1 /\ \A n \in 1 .. Len(s) : (s \o t)[n] = s[n]
  <2>1. Len(s) \in Nat
    OBVIOUS
  <2>2. Len(s \o t) = Len(s) + Len(t) /\ \A n \in 1 .. Len(s) : (s \o t)[n] = s[n]
    BY Joined
  <2> QED
    BY <2>1, <2>2
<1>2. PICK k : k = Len(s) + 1
  OBVIOUS
<1>3. k \in Len(s) + 1 .. Len(s) + Len(t) /\ k - Len(s) = 1
  BY <1>1, <1>2
<1>4. (s \o t)[k] = t[k - Len(s)]
  BY <1>1, <1>3
<1> QED
  BY <1>1, <1>2, <1>3, <1>4

\* A token is copied.
LEMMA TextKeeps ==
  ASSUME LineInv, TextInv, line' = line, NEW p \in 1 .. Len(line), pos = p,
         NEW next, next = p + 1, pos' = next,
         NEW o, out' = o, o = out \o Text(p), IsText(p),
         \A style \in Followed : Now(style) = StyleAt(p, style)
  PROVE  TextInv'
<1>1. next \in Nat /\ pos = p /\ next = p + 1
  OBVIOUS
<1>2. PICK last \in 1 .. Len(out) + 1 : last = Len(out) + 1
  BY DEF LineInv
<1>3. /\ out \in Seq(Items) /\ Len(out) \in Nat /\ Len(line) \in Nat
      /\ Text(p) \in Seq(Items) /\ Len(o) = last
      /\ \A n \in 1 .. Len(out) : o[n] = out[n]
      /\ o[last].style = "text" /\ o[last].at = p
  <2>1. out \in Seq(Items) /\ Len(out) \in Nat /\ Len(line) \in Nat
    BY AtFacts DEF LineInv
  <2>2. Text(p) \in Seq(Items) /\ Len(Text(p)) = 1 /\ Text(p)[1].style = "text" /\ Text(p)[1].at = p
    BY <2>1 DEF Text, Items, Styles, Settings
  <2>3. /\ Len(out \o Text(p)) = Len(out) + 1
        /\ \A n \in 1 .. Len(out) : (out \o Text(p))[n] = out[n]
        /\ (out \o Text(p))[Len(out) + 1] = Text(p)[1]
    BY <2>1, <2>2, Appended
  <2>4. Len(o) = last /\ (\A n \in 1 .. Len(out) : o[n] = out[n]) /\ o[last] = Text(p)[1]
    BY <1>2, <2>3
  <2> QED
    BY <2>1, <2>2, <2>4
<1>4. \A n \in 1 .. last : \A i : TextAt(n, i)' <=>
        \/ n = last /\ i = p
        \/ n \in 1 .. Len(out) /\ TextAt(n, i)
  <2>1. \A n \in 1 .. last : n \in 1 .. Len(out) <=> n # last
    <3>1. Len(out) \in Nat /\ last = Len(out) + 1
      BY <1>2, <1>3
    <3> QED
      BY <3>1
  <2> QED
    BY <1>1, <1>3, <2>1 DEF TextAt
<1>5. \A i : IsText(i)' <=> IsText(i)
  BY LineStays DEF IsText
<1>6. ASSUME NEW n \in 1 .. last, NEW style
      PROVE  StyleOf(n, style)' = StyleOf(n, style) /\ \A i : StyleAt(i, style)' = StyleAt(i, style)
  <2>1. n \in 1 .. Len(out) + 1
    BY <1>2
  <2> QED
    BY <1>3, <2>1, StyleKept, LineStays
<1>7. \A style \in Followed : StyleOf(last, style) = StyleAt(p, style)
  BY <1>1, <1>2 DEF Now
<1>8. ASSUME NEW n \in 1 .. last, NEW i \in Nat, TextAt(n, i)'
      PROVE  /\ i \in 1 .. next - 1
             /\ IsText(i)'
             /\ \A style \in Followed : StyleOf(n, style)' = StyleAt(i, style)'
  <2>1. CASE n = last /\ i = p
    BY <1>1, <1>3, <1>5, <1>6, <1>7, <2>1
  <2>2. CASE n \in 1 .. Len(out) /\ TextAt(n, i)
    <3>1. i \in 1 .. p - 1 /\ IsText(i)
          /\ \A style \in Followed : StyleOf(n, style) = StyleAt(i, style)
      BY <1>1, <2>2 DEF TextInv
    <3> QED
      BY <1>1, <1>3, <1>5, <1>6, <3>1
  <2> QED
    BY <1>4, <1>8, <2>1, <2>2
<1>9. ASSUME NEW i \in 1 .. next - 1, IsText(i)'
      PROVE  \E n \in 1 .. last : TextAt(n, i)'
  <2>1. CASE i = p
    <3>1. last \in 1 .. last
      BY <1>2, <1>3
    <3> QED
      BY <1>4, <2>1, <3>1
  <2>2. CASE i # p
    <3>1. i \in 1 .. p - 1 /\ IsText(i)
      BY <1>1, <1>3, <1>5, <1>9, <2>2
    <3>2. PICK n \in 1 .. Len(out) : TextAt(n, i)
      BY <1>1, <3>1 DEF TextInv
    <3>3. n \in 1 .. last
      BY <1>2, <1>3
    <3> QED
      BY <1>4, <3>2, <3>3
  <2> QED
    BY <2>1, <2>2
<1>10. ASSUME NEW m \in 1 .. last, NEW n \in 1 .. last, NEW i \in Nat, NEW j \in Nat,
              TextAt(m, i)', TextAt(n, j)', m < n
       PROVE  i < j
  <2>1. m \in 1 .. Len(out) /\ TextAt(m, i) /\ i \in 1 .. p - 1
    <3>1. m # last
      BY <1>2, <1>3, <1>10
    <3>2. m \in 1 .. Len(out) /\ TextAt(m, i)
      BY <1>4, <1>10, <3>1
    <3> QED
      BY <1>1, <3>2 DEF TextInv
  <2>2. CASE n = last /\ j = p
    BY <1>1, <1>3, <2>1, <2>2
  <2>3. CASE n \in 1 .. Len(out) /\ TextAt(n, j)
    BY <1>10, <2>1, <2>3 DEF TextInv
  <2> QED
    BY <1>4, <1>10, <2>2, <2>3
<1> QED
  BY <1>1, <1>3, <1>8, <1>9, <1>10 DEF TextInv

\* These items leave a style alone, for "none", or set it to a value.
Gives(more, style, value) ==
  IF value = "none"
  THEN \A k \in 1 .. Len(more) : more[k].style # style
  ELSE \E k \in 1 .. Len(more) :
         /\ more[k].style = style /\ more[k].value = value
         /\ \A l \in k + 1 .. Len(more) : more[l].style # style

LEMMA NowGiven ==
  ASSUME NEW more \in Seq(Items), out \in Seq(Items), out' = out \o more,
         NEW style, NEW value, Gives(more, style, value)
  PROVE  Now(style)' = IF value = "none" THEN Now(style) ELSE value
<1>1. PICK o : out' = o /\ o = out \o more
  OBVIOUS
<1>2. CASE value = "none"
  <2>1. \A k \in 1 .. Len(more) : more[k].style # style
    BY <1>2 DEF Gives
  <2> QED
    BY <1>1, <1>2, <2>1, NowKept
<1>3. CASE value # "none"
  <2>1. PICK k \in 1 .. Len(more) :
          /\ more[k].style = style /\ more[k].value = value
          /\ \A l \in k + 1 .. Len(more) : more[l].style # style
    BY <1>3 DEF Gives
  <2> QED
    BY <1>1, <1>3, <2>1, NowSet
<1> QED
  BY <1>2, <1>3

\* Behind a tag.
LEMMA BehindTag ==
  ASSUME LineInv, WellFormed, NEW j \in 1 .. Len(line), line[j] = "<", Outside(j)
  PROVE  /\ Outside(TagEnd(j) + 1)
         /\ \A i \in j .. TagEnd(j) : ~IsText(i)
         /\ \A style : StyleAt(TagEnd(j) + 1, style) =
              IF Setting(Body(j), style) = "none" THEN StyleAt(j, style)
              ELSE Setting(Body(j), style)
<1> DEFINE e == TagEnd(j)
<1>1. /\ e \in j .. Len(line) /\ e \in Nat /\ j \in Nat /\ Len(line) \in Nat
      /\ \A k \in j + 1 .. e : line[k] # "<"
  BY TagInside, AtFacts DEF LineInv
<1>2. \A i \in j .. e : ~IsText(i)
  BY <1>1 DEF IsText, InTag
<1> HIDE DEF e
<1>3. Outside(e + 1)
  <2> SUFFICES ASSUME NEW k \in 1 .. (e + 1) - 1, line[k] = "<"
               PROVE  TagEnd(k) < e + 1
    BY DEF Outside
  <2>1. CASE k \in 1 .. j - 1
    <3>1. TagEnd(k) < j
      BY <2>1 DEF Outside
    <3>2. TagEnd(k) \in Nat
      <4>1. k \in 1 .. Len(line)
        BY <1>1, <2>1
      <4> QED
        BY <1>1, <4>1, BodyFacts
    <3> QED
      BY <1>1, <3>1, <3>2
  <2>2. CASE k = j
    BY <1>1, <2>2 DEF e
  <2>3. CASE k \in j + 1 .. e
    BY <1>1, <2>3
  <2> QED
    BY <1>1, <2>1, <2>2, <2>3
<1>4. ASSUME NEW style
      PROVE  StyleAt(e + 1, style) =
               IF Setting(Body(j), style) = "none" THEN StyleAt(j, style)
               ELSE Setting(Body(j), style)
  BY <1>1, StylePassed
<1> QED
  BY <1>2, <1>3, <1>4 DEF e

\* Text at a place where every style is as the tags have it.
LEMMA PlaceReached ==
  ASSUME line' = line, NEW next, pos' = next, pc' = "text", Outside(next),
         \A style \in Followed : Now(style)' = StyleAt(next, style)
  PROVE  PlaceInv'
<1>1. /\ Outside(pos)'
      /\ \A style : StyleAt(pos, style)' = StyleAt(next, style)
  BY HereStays
<1> QED
  BY <1>1 DEF PlaceInv

\* A tag that is passed at once.
LEMMA WholeTag ==
  ASSUME LineInv, WellFormed, TextInv, PlaceInv, pc = "text", pc' = "text", line' = line,
         NEW j \in 1 .. Len(line), pos = j, line[j] = "<", pos' = TagEnd(j) + 1,
         NEW more \in Seq(Items), out' = out \o more, Gives(more, "text", "none"),
         \A style \in Followed : Gives(more, style, Setting(Body(j), style))
  PROVE  TextInv' /\ PlaceInv'
<1>1. Outside(j) /\ \A style \in Followed : Now(style) = StyleAt(j, style)
  BY DEF PlaceInv
<1>2. PICK next : next = TagEnd(j) + 1
  OBVIOUS
<1>3. /\ Outside(next)
      /\ \A i \in j .. TagEnd(j) : ~IsText(i)
      /\ \A style : StyleAt(next, style) =
           IF Setting(Body(j), style) = "none" THEN StyleAt(j, style) ELSE Setting(Body(j), style)
  BY <1>1, <1>2, BehindTag
<1>4. out \in Seq(Items) /\ Len(line) \in Nat
  BY AtFacts DEF LineInv
<1>5. TagEnd(j) \in j .. Len(line) /\ next \in j .. Len(line) + 1 /\ next - 1 = TagEnd(j)
  BY <1>2, <1>4, TagInside
<1>6. TextInv'
  <2>1. PICK o : out' = o /\ o = out \o more
    OBVIOUS
  <2>2. \A k \in 1 .. Len(more) : more[k].style # "text"
    BY DEF Gives
  <2>3. /\ next \in pos .. Len(line) + 1 /\ pos' = next
        /\ \A i \in pos .. next - 1 : ~IsText(i)
    BY <1>2, <1>3, <1>5
  <2> QED
    BY <2>1, <2>2, <2>3, NoTextKeeps
<1>7. \A style \in Followed : Now(style)' = StyleAt(next, style)
  BY <1>1, <1>3, <1>4, NowGiven
<1>8. PlaceInv'
  BY <1>2, <1>3, <1>7, PlaceReached
<1> QED
  BY <1>6, <1>8

\* The name of a tag.
LEMMA TagRead ==
  ASSUME LineInv, NEW closing \in BOOLEAN, NEW start \in 1 .. Len(line) - 1,
         start = IF closing /\ At(pos + 1) = "/" THEN pos + 2 ELSE pos + 1,
         line[start] \in Alpha, line[start + 1] \notin Alnum
  PROVE  GetTag(closing).name = line[start] /\ GetTag(closing).next = start + 1
<1>1. /\ line \in Seq(Tokens) /\ Len(line) \in Nat /\ start \in 1 .. Len(line)
      /\ start + 1 \in 1 .. Len(line)
      /\ At(start) = line[start] /\ At(start + 1) = line[start + 1]
  BY AtFacts DEF LineInv
<1>2. "blank" \notin Alpha /\ "end" \notin {"blank"} /\ "end" \notin Alnum /\ Alpha \subseteq Alnum
  BY DEF Alnum, Alpha, Digits
<1>3. After(start, {"blank"}) = start
  <2>1. start \in 1 .. Len(line) + 1 /\ start \in start .. Len(line) + 1
        /\ \A k \in start .. start - 1 : At(k) \in {"blank"}
    BY <1>1
  <2>2. At(start) \notin {"blank"}
    BY <1>1, <1>2
  <2> QED
    BY <1>1, <1>2, <2>1, <2>2, AfterIs
<1>4. After(start, Alnum) = start + 1
  <2>1. start \in 1 .. Len(line) + 1 /\ start + 1 \in start .. Len(line) + 1
        /\ \A k \in start .. (start + 1) - 1 : At(k) \in Alnum
    BY <1>1, <1>2
  <2> QED
    BY <1>1, <1>2, <2>1, AfterIs
<1>5. Word(start, start + 1) = line[start]
  BY <1>1 DEF Word
<1> QED
  BY <1>1, <1>3, <1>4, <1>5 DEF GetTag

LEMMA TagNames ==
  ASSUME LineInv, WellFormed, pos \in 1 .. Len(line), line[pos] = "<"
  PROVE  /\ PlainTag(pos) => GetTag(FALSE).name = line[pos + 1] /\ GetTag(FALSE).next = pos + 2
         /\ ClosingTag(pos) => /\ GetTag(FALSE).name = "none"
                               /\ GetTag(TRUE).name = line[pos + 2] /\ GetTag(TRUE).next = pos + 3
                               /\ At(pos + 1) = "/"
         /\ OneFont(pos) \/ TwoFont(pos) =>
              /\ GetTag(FALSE).name = "font" /\ GetTag(FALSE).next = pos + 2
              /\ At(pos + 1) # "/"
<1>1. /\ line \in Seq(Tokens) /\ Len(line) \in Nat /\ TagEnd(pos) \in pos + 2 .. Len(line)
      /\ \A k \in 1 .. Len(line) : At(k) = line[k]
      /\ line[TagEnd(pos)] = ">"
  BY AtFacts, TagInside, BodyFacts DEF LineInv
<1>2. /\ PlainNames \cup {"font"} \subseteq Alpha /\ ">" \notin Alnum /\ "blank" \notin Alnum
      /\ "/" \notin Alpha
  BY DEF PlainNames, Alnum, Alpha, Digits
<1>3. CASE PlainTag(pos)
  <2>1. line[pos + 1] \in Alpha /\ line[pos + 2] \notin Alnum
    BY <1>1, <1>2, <1>3 DEF PlainTag
  <2>2. pos + 1 \in 1 .. Len(line) - 1 /\ (pos + 1) + 1 = pos + 2
    BY <1>1
  <2>3. GetTag(FALSE).name = line[pos + 1] /\ GetTag(FALSE).next = (pos + 1) + 1
    BY <2>1, <2>2, TagRead
  <2>4. ~ClosingTag(pos) /\ ~OneFont(pos) /\ ~TwoFont(pos)
    BY <1>3 DEF PlainTag, ClosingTag, OneFont, TwoFont, PlainNames
  <2> QED
    BY <2>2, <2>3, <2>4
<1>4. CASE ClosingTag(pos)
  <2>1. /\ line[pos + 1] = "/" /\ TagEnd(pos) = pos + 3
        /\ line[pos + 2] \in Alpha /\ line[pos + 3] \notin Alnum
    BY <1>1, <1>2, <1>4 DEF ClosingTag
  <2>2. /\ pos + 1 \in 1 .. Len(line) /\ At(pos + 1) = "/"
        /\ pos + 2 \in 1 .. Len(line) - 1 /\ (pos + 2) + 1 = pos + 3
    BY <1>1, <2>1
  <2>3. GetTag(TRUE).name = line[pos + 2] /\ GetTag(TRUE).next = (pos + 2) + 1
    BY <2>1, <2>2, TagRead
  <2>4. After(pos + 1, {"blank"}) = pos + 1
    <3>1. /\ pos + 1 \in 1 .. Len(line) + 1 /\ pos + 1 \in pos + 1 .. Len(line) + 1
          /\ \A k \in pos + 1 .. (pos + 1) - 1 : At(k) \in {"blank"}
          /\ At(pos + 1) \notin {"blank"} /\ "end" \notin {"blank"}
      BY <1>1, <2>2
    <3> QED
      BY <1>1, <3>1, AfterIs
  <2>5. GetTag(FALSE).name = "none"
    BY <1>2, <2>2, <2>4 DEF GetTag
  <2>6. ~PlainTag(pos) /\ ~OneFont(pos) /\ ~TwoFont(pos)
    BY <2>1 DEF PlainTag, OneFont, TwoFont, PlainNames
  <2> QED
    BY <2>2, <2>3, <2>5, <2>6
<1>5. CASE OneFont(pos) \/ TwoFont(pos)
  <2>1. line[pos + 1] = "font" /\ line[pos + 2] = "blank"
    BY <1>5 DEF OneFont, TwoFont, OneAttribute, TwoAttributes, AttributeAt
  <2>2. line[pos + 1] \in Alpha /\ line[pos + 2] \notin Alnum
    BY <1>2, <2>1
  <2>3. pos + 1 \in 1 .. Len(line) - 1 /\ (pos + 1) + 1 = pos + 2
    BY <1>1
  <2>4. GetTag(FALSE).name = line[pos + 1] /\ GetTag(FALSE).next = (pos + 1) + 1
    BY <2>2, <2>3, TagRead
  <2>5. ~PlainTag(pos) /\ ~ClosingTag(pos) /\ At(pos + 1) # "/"
    BY <1>1, <2>1, <2>3 DEF PlainTag, ClosingTag, PlainNames
  <2> QED
    BY <2>1, <2>3, <2>4, <2>5
<1> QED
  BY <1>3, <1>4, <1>5

\* ConsumeAttribute finds the attribute that is there.
LEMMA AttributeRead ==
  ASSUME LineInv, NEW n, NEW v, NEW next \in 1 .. Len(line), AttributeAt(pos, n, v, next),
         line[next] \in {"blank", ">"}
  PROVE  Attribute = [name |-> n, value |-> v, first |-> v, next |-> next, fault |-> "none"]
<1>1. /\ line \in Seq(Tokens) /\ Len(line) \in Nat /\ pos \in 1 .. Len(line) + 1 /\ pos \in Nat
      /\ \A k \in 1 .. Len(line) : At(k) = line[k]
  BY AtFacts DEF LineInv
<1>2. /\ n \in Alpha /\ v \in Alnum /\ "=" \notin Alnum /\ "'" \notin Alnum /\ "blank" \notin Alnum
      /\ ">" \notin Alnum /\ "nl" \notin Alnum /\ "cr" \notin Alnum /\ "#" \notin Alnum
      /\ "end" \notin Alnum
      /\ Alpha \subseteq Alnum /\ "=" \in Tokens /\ "'" \in Tokens
      /\ n # "huge" /\ v # "huge" /\ Alnum \subseteq Tokens
  <2>1. n \in AttributeNames /\ v \in Values(n)
    BY DEF AttributeAt
  <2>2. Values(n) \subseteq {"red", "hex6", "x", "num"}
    BY <2>1 DEF AttributeNames, Values
  <2>3. n # "huge" /\ v # "huge"
    BY <2>1, <2>2 DEF AttributeNames
  <2>4. "=" \in Tokens /\ "'" \in Tokens
    BY DEF Tokens, Signs
  <2> QED
    BY <2>1, <2>3, <2>4, ValueTokens
<1>3. /\ next \in {pos + 4, pos + 6}
      /\ line[pos] = "blank" /\ line[pos + 1] = n /\ line[pos + 2] = "="
  <2>1. next \in {pos + 4, pos + 6}
    BY <1>1, AttributeTokens
  <2> QED
    BY <2>1 DEF AttributeAt
<1>4. /\ pos \in 1 .. Len(line) /\ pos + 1 \in 1 .. Len(line) /\ pos + 2 \in 1 .. Len(line)
      /\ pos + 3 \in 1 .. Len(line) /\ pos + 4 \in 1 .. Len(line)
  BY <1>1, <1>3
<1>5. /\ At(pos) = "blank" /\ At(pos + 1) = n /\ At(pos + 2) = "=" /\ At(pos + 3) = line[pos + 3]
  BY <1>1, <1>3, <1>4
<1>6. NameStart = pos + 1
  <2>1. /\ pos + 1 \in pos .. Len(line) + 1 /\ pos \in 1 .. Len(line) + 1
        /\ \A k \in pos .. (pos + 1) - 1 : k = pos
    BY <1>1, <1>4
  <2>2. "end" \notin {"blank"} /\ At(pos + 1) \notin {"blank"} /\ At(pos) \in {"blank"}
    BY <1>2, <1>5
  <2> QED
    BY <1>1, <2>1, <2>2, AfterIs DEF NameStart
<1>7. NameEnd = pos + 2
  <2>1. /\ pos + 2 \in pos + 1 .. Len(line) + 1 /\ pos + 1 \in 1 .. Len(line) + 1
        /\ \A k \in pos + 1 .. (pos + 2) - 1 : k = pos + 1
    BY <1>1, <1>4
  <2>2. "end" \notin Alpha /\ At(pos + 2) \notin Alpha /\ At(pos + 1) \in Alpha
    BY <1>2, <1>5
  <2>3. After(pos + 1, Alpha) = pos + 2
    BY <1>1, <2>1, <2>2, AfterIs
  <2> QED
    BY <1>6, <2>3 DEF NameEnd
<1>8. Equals = pos + 2
  <2>1. /\ pos + 2 \in pos + 2 .. Len(line) + 1 /\ pos + 2 \in 1 .. Len(line) + 1
        /\ \A k \in pos + 2 .. (pos + 2) - 1 : At(k) \in Tokens \ {"="}
    BY <1>1, <1>4
  <2>2. "end" \notin Tokens \ {"="} /\ At(pos + 2) \notin Tokens \ {"="}
    BY <1>5, TokenFacts
  <2>3. After(pos + 2, Tokens \ {"="}) = pos + 2
    BY <1>1, <2>1, <2>2, AfterIs
  <2> QED
    BY <1>7, <2>3 DEF Equals, Until
<1>9. line[pos + 3] \in Alnum \cup {"'"}
  BY <1>2 DEF AttributeAt
<1>10. Quote = pos + 3
  <2>1. /\ pos + 3 \in pos + 3 .. Len(line) + 1 /\ pos + 3 \in 1 .. Len(line) + 1
        /\ \A k \in pos + 3 .. (pos + 3) - 1 : At(k) \in {"blank", "nl", "cr"}
    BY <1>1, <1>4
  <2>2. "end" \notin {"blank", "nl", "cr"} /\ At(pos + 3) \notin {"blank", "nl", "cr"}
    BY <1>2, <1>5, <1>9
  <2>3. After(pos + 3, {"blank", "nl", "cr"}) = pos + 3 /\ (pos + 2) + 1 = pos + 3
    BY <1>1, <2>1, <2>2, AfterIs
  <2> QED
    BY <1>8, <2>3 DEF Quote
<1>11. /\ ~Huge(NameStart, NameEnd) /\ NameEnd # NameStart
       /\ At(NameEnd) # "end" /\ At(Equals) # "end"
       /\ Word(NameStart, NameEnd) = n
  <2>1. \A k \in pos + 1 .. (pos + 2) - 1 : k = pos + 1
    BY <1>1
  <2>2. ~Huge(pos + 1, pos + 2)
    BY <1>2, <1>3, <2>1 DEF Huge
  <2>3. Word(pos + 1, pos + 2) = n
    BY <1>1, <1>3 DEF Word
  <2> QED
    BY <1>1, <1>5, <1>6, <1>7, <1>8, <2>2, <2>3
<1>12. ASSUME NEW value \in {pos + 3, pos + 4}, line[value] = v, ValueStart = value,
              ValueEnd = value + 1,
              next = IF Quoted /\ At(ValueEnd) = "'" THEN ValueEnd + 1 ELSE ValueEnd
       PROVE  Attribute = [name |-> n, value |-> v, first |-> v, next |-> next, fault |-> "none"]
  <2>1. \A k \in value .. (value + 1) - 1 : k = value
    BY <1>1
  <2>2. ~Huge(value, value + 1)
    BY <1>2, <1>12, <2>1 DEF Huge
  <2>3. Word(value, value + 1) = v /\ value + 1 # value
    BY <1>1, <1>12 DEF Word
  <2>4. Attribute = [name |-> Word(NameStart, NameEnd), value |-> Word(ValueStart, ValueEnd),
          first |-> IF ValueEnd = ValueStart THEN "none" ELSE line[ValueStart],
          next |-> IF Quoted /\ At(ValueEnd) = "'" THEN ValueEnd + 1 ELSE ValueEnd,
          fault |-> "none"]
    BY <1>11, <1>12, <2>2, AttributeIs
  <2> QED
    BY <1>11, <1>12, <2>3, <2>4
<1>13. CASE line[pos + 3] = v /\ next = pos + 4
  <2>1. ~Quoted
    BY <1>2, <1>5, <1>10, <1>13 DEF Quoted
  <2>2. /\ At(pos + 3) = v /\ At(pos + 3) \in Alnum /\ At(pos + 3) \notin {"blank", "nl", "cr", "#"}
        /\ At(pos + 4) \notin Alnum \cup {"#"} /\ "end" \notin Alnum \cup {"#"}
        /\ "end" \notin {"blank", "nl", "cr"}
    BY <1>1, <1>2, <1>4, <1>5, <1>13
  <2>3. Sharp = pos + 3
    <3>1. /\ pos + 3 \in pos + 3 .. Len(line) + 1 /\ pos + 3 \in 1 .. Len(line) + 1
          /\ \A k \in pos + 3 .. (pos + 3) - 1 : At(k) \in {"blank", "nl", "cr"}
      BY <1>1, <1>4
    <3>2. After(pos + 3, {"blank", "nl", "cr"}) = pos + 3
      BY <1>1, <2>2, <3>1, AfterIs
    <3> QED
      BY <1>10, <2>1, <3>2 DEF Sharp
  <2>4. ValueStart = pos + 3
    BY <2>2, <2>3 DEF ValueStart
  <2>5. ValueEnd = pos + 4
    <3>1. /\ pos + 4 \in pos + 3 .. Len(line) + 1 /\ pos + 3 \in 1 .. Len(line) + 1
          /\ \A k \in pos + 3 .. (pos + 4) - 1 : k = pos + 3
      BY <1>1, <1>4
    <3>2. After(pos + 3, Alnum \cup {"#"}) = pos + 4
      BY <1>1, <2>2, <3>1, AfterIs
    <3> QED
      BY <2>1, <2>4, <3>2 DEF ValueEnd
  <2>6. (pos + 3) + 1 = pos + 4
    BY <1>1
  <2> QED
    BY <1>12, <1>13, <2>1, <2>4, <2>5, <2>6
<1>14. CASE line[pos + 3] = "'" /\ line[pos + 4] = v /\ line[pos + 5] = "'" /\ next = pos + 6
  <2>1. Quoted
    BY <1>5, <1>10, <1>14 DEF Quoted
  <2>2. /\ pos + 5 \in 1 .. Len(line) /\ At(pos + 4) = v /\ At(pos + 5) = "'"
        /\ At(pos + 4) \notin {"blank", "nl", "cr", "#"} /\ "end" \notin {"blank", "nl", "cr"}
        /\ At(pos + 4) \in Tokens \ {"'"} /\ At(pos + 5) \notin Tokens \ {"'"}
        /\ "end" \notin Tokens \ {"'"}
    BY <1>1, <1>2, <1>4, <1>14, TokenFacts
  <2>3. Sharp = pos + 4
    <3>1. /\ pos + 4 \in pos + 4 .. Len(line) + 1 /\ pos + 4 \in 1 .. Len(line) + 1
          /\ \A k \in pos + 4 .. (pos + 4) - 1 : At(k) \in {"blank", "nl", "cr"}
          /\ (pos + 3) + 1 = pos + 4
      BY <1>1, <1>4
    <3>2. After(pos + 4, {"blank", "nl", "cr"}) = pos + 4
      BY <1>1, <2>2, <3>1, AfterIs
    <3> QED
      BY <1>10, <2>1, <3>1, <3>2 DEF Sharp
  <2>4. ValueStart = pos + 4
    BY <2>2, <2>3 DEF ValueStart
  <2>5. ValueEnd = pos + 5
    <3>1. /\ pos + 5 \in pos + 4 .. Len(line) + 1 /\ pos + 4 \in 1 .. Len(line) + 1
          /\ \A k \in pos + 4 .. (pos + 5) - 1 : k = pos + 4
      BY <1>1, <1>4, <2>2
    <3>2. After(pos + 4, Tokens \ {"'"}) = pos + 5
      BY <1>1, <2>2, <3>1, AfterIs
    <3> QED
      BY <2>1, <2>4, <3>2 DEF ValueEnd, Until
  <2>6. (pos + 4) + 1 = pos + 5 /\ (pos + 5) + 1 = pos + 6
    BY <1>1
  <2> QED
    BY <1>12, <1>14, <2>1, <2>2, <2>4, <2>5, <2>6
<1> QED
  BY <1>13, <1>14 DEF AttributeAt

\* One item.
LEMMA OneGives ==
  ASSUME NEW name \in Styles, NEW value \in Settings, value # "none", NEW style
  PROVE  Gives(Set(name, value), style, IF style = name THEN value ELSE "none")
<1> DEFINE more == Set(name, value)
<1>1. Len(more) = 1 /\ more[1].style = name /\ more[1].value = value
  BY DEF Set
<1> HIDE DEF more
<1>2. 1 \in 1 .. Len(more) /\ 1 + 1 .. Len(more) = {} /\ \A k \in 1 .. Len(more) : k = 1
  BY <1>1
<1>3. Gives(more, style, IF style = name THEN value ELSE "none")
  BY <1>1, <1>2 DEF Gives
<1> QED
  BY <1>3 DEF more

LEMMA NothingGives == \A style : Gives(<<>>, style, "none")
BY DEF Gives

\* What a tag puts into the output is what it sets the styles to.
LEMMA OpenedGives ==
  ASSUME NEW w \in PlainNames
  PROVE  /\ Opened(w) \in Seq(Items)
         /\ Gives(Opened(w), "text", "none")
         /\ \A style \in Followed : Gives(Opened(w), style, Setting(<<w>>, style))
<1>1. CASE w \in {"b", "i"}
  <2>1. Opened(w) = Set(w, "on")
    BY <1>1 DEF Opened
  <2>2. w \in Styles /\ "on" \in Settings /\ "on" # "none" /\ w # "text"
    BY <1>1 DEF Styles, Settings
  <2>3. Set(w, "on") \in Seq(Items)
    BY <2>2, SetIsItem
  <2>4. \A style : Gives(Set(w, "on"), style, IF style = w THEN "on" ELSE "none")
    BY <2>2, OneGives
  <2> QED
    BY <2>1, <2>2, <2>3, <2>4, PlainSetting
<1>2. CASE w = "br"
  <2>1. Opened(w) = Newline
    BY <1>2 DEF Opened
  <2>2. Newline \in Seq(Items) /\ \A k \in 1 .. Len(Newline) : Newline[k].style = "newline"
    BY DEF Newline, Items, Styles, Settings
  <2>3. \A style \in Followed \cup {"text"} : style # "newline" /\ style # w
    BY <1>2 DEF Followed
  <2>4. \A style \in Followed \cup {"text"} : Gives(Newline, style, "none")
    BY <2>2, <2>3 DEF Gives
  <2> QED
    BY <2>1, <2>2, <2>3, <2>4, PlainSetting
<1>3. CASE w = "x"
  <2>1. Opened(w) = <<>> /\ <<>> \in Seq(Items)
    BY <1>3 DEF Opened
  <2>2. \A style \in Followed : style # w
    BY <1>3 DEF Followed
  <2> QED
    BY <2>1, <2>2, NothingGives, PlainSetting
<1> QED
  BY <1>1, <1>2, <1>3 DEF PlainNames

LEMMA ClosedGives ==
  ASSUME NEW w \in PlainNames \cup {"font"}
  PROVE  /\ Closed(w) \in Seq(Items)
         /\ Gives(Closed(w), "text", "none")
         /\ \A style \in Followed : Gives(Closed(w), style, Setting(<<"/", w>>, style))
<1>1. CASE w \in {"b", "i"}
  <2>1. Closed(w) = Set(w, "off")
    BY <1>1 DEF Closed
  <2>2. w \in Styles /\ "off" \in Settings /\ "off" # "none" /\ w # "text" /\ w # "font"
    BY <1>1 DEF Styles, Settings
  <2>3. Set(w, "off") \in Seq(Items)
    BY <2>2, SetIsItem
  <2>4. \A style : Gives(Set(w, "off"), style, IF style = w THEN "off" ELSE "none")
    BY <2>2, OneGives
  <2> QED
    BY <2>1, <2>2, <2>3, <2>4, ClosingSetting
<1>2. CASE w = "font"
  <2> DEFINE more == Set("c", "default") \o Set("fn", "default") \o Set("fs", "default")
  <2>1. /\ Set("c", "default") \in Seq(Items)
        /\ Set("fn", "default") \in Seq(Items)
        /\ Set("fs", "default") \in Seq(Items)
    BY SetIsItem DEF Styles, Settings
  <2>2. /\ more \in Seq(Items) /\ Len(more) = 3
        /\ more[1].style = "c" /\ more[2].style = "fn" /\ more[3].style = "fs"
        /\ more[1].value = "default" /\ more[2].value = "default" /\ more[3].value = "default"
    BY <2>1 DEF Set
  <2>3. Closed(w) = more
    BY <1>2 DEF Closed
  <2> HIDE DEF more
  <2>4. /\ \A k \in 1 .. Len(more) : k = 1 \/ k = 2 \/ k = 3
        /\ 1 \in 1 .. Len(more) /\ 2 \in 1 .. Len(more) /\ 3 \in 1 .. Len(more)
        /\ \A k \in 1 + 1 .. Len(more) : k = 2 \/ k = 3
        /\ \A k \in 2 + 1 .. Len(more) : k = 3
        /\ 3 + 1 .. Len(more) = {}
    BY <2>2
  <2>5. \A style : style \notin {"c", "fn", "fs"} => Gives(more, style, "none")
    BY <2>2, <2>4 DEF Gives
  <2>6. Gives(more, "c", "default") /\ Gives(more, "fn", "default") /\ Gives(more, "fs", "default")
    BY <2>2, <2>4 DEF Gives
  <2>7. ASSUME NEW style \in Followed
        PROVE  Gives(more, style, Setting(<<"/", w>>, style))
    <3>1. Setting(<<"/", w>>, style) = IF style \in {"c", "fn", "fs"} THEN "default" ELSE "none"
      BY <1>2, ClosingSetting DEF Followed
    <3> QED
      BY <2>5, <2>6, <3>1
  <2> QED
    BY <2>2, <2>3, <2>5, <2>7
<1>3. CASE w \in {"br", "x"}
  <2>1. Closed(w) = <<>> /\ <<>> \in Seq(Items)
    BY <1>3 DEF Closed
  <2>2. \A style \in Followed : style # w /\ w # "font"
    BY <1>3 DEF Followed
  <2> QED
    BY <2>1, <2>2, NothingGives, ClosingSetting
<1> QED
  BY <1>1, <1>2, <1>3 DEF PlainNames

LEMMA AttributeGives ==
  ASSUME NEW n \in AttributeNames, NEW v \in Values(n), NEW next, NEW attribute,
         attribute = [name |-> n, value |-> v, first |-> v, next |-> next, fault |-> "none"]
  PROVE  /\ Overrides(attribute) \in Seq(Items)
         /\ Gives(Overrides(attribute), "text", "none")
         /\ \A style \in Followed : Gives(Overrides(attribute), style,
              IF style = StyleName(n) THEN Given(n, v) ELSE "none")
         /\ n = "size" => v \in Digits
         /\ Given(n, v) # "none"
<1>1. Overrides(attribute) = Set(StyleName(n), Given(n, v))
  <2>1. CASE n = "color"
    <3>1. v \in {"red", "hex6", "x"}
      BY <2>1 DEF Values
    <3>2. Colour(attribute) = Given(n, v)
      BY <2>1, <3>1 DEF Colour, Given, HexWords, Digits
    <3> QED
      BY <2>1, <3>2 DEF Overrides, StyleName
  <2>2. CASE n = "size"
    BY <2>2 DEF Overrides, StyleName, Given
  <2>3. CASE n = "face"
    BY <2>3 DEF Overrides, StyleName, Given
  <2> QED
    BY <2>1, <2>2, <2>3 DEF AttributeNames
<1>2. /\ StyleName(n) \in Styles /\ StyleName(n) # "text"
      /\ Given(n, v) \in Settings /\ Given(n, v) # "none"
  <2>1. v \in Tokens /\ v # "none"
    BY ValueTokens DEF Tokens, Alnum, Alpha, Digits, Signs
  <2> QED
    BY <2>1 DEF StyleName, Styles, Given, Settings
<1>3. Set(StyleName(n), Given(n, v)) \in Seq(Items)
  BY <1>2, SetIsItem
<1>4. \A style : Gives(Set(StyleName(n), Given(n, v)), style,
                   IF style = StyleName(n) THEN Given(n, v) ELSE "none")
  BY <1>2, OneGives
<1>5. n = "size" => v \in Digits
  BY DEF Values, Digits
<1> QED
  BY <1>1, <1>2, <1>3, <1>4, <1>5

\* The styles and the text while the parser is on a well-formed line.
LineStyles == LineInv /\ WellFormed /\ TextInv /\ PlaceInv

LEMMA LineFacts ==
  ASSUME LineStyles
  PROVE  /\ LineInv /\ WellFormed /\ line \in Seq(Tokens) /\ Len(line) \in Nat
         /\ pos \in 1 .. Len(line) + 1 /\ out \in Seq(Items)
         /\ \A k \in 1 .. Len(line) : At(k) = line[k] /\ line[k] \notin {"lbrace", "huge"}
         /\ \A k : At(k) \in Tokens <=> k \in 1 .. Len(line)
         /\ \A k : At(k) \notin Tokens <=> At(k) = "end"
BY AtFacts DEF LineStyles, LineInv, WellFormed

LEMMA OpenTagStyles == LineStyles /\ OpenTag => TextInv' /\ PlaceInv'
<1> SUFFICES ASSUME LineStyles, OpenTag
             PROVE  TextInv' /\ PlaceInv'
  OBVIOUS
<1>1. PICK j : j = pos
  OBVIOUS
<1>2. /\ pc = "text" /\ pc' = "text" /\ line' = line
      /\ At(pos) = "<" /\ GetTag(FALSE).name \notin {"none", "font"}
      /\ out' = out \o Opened(GetTag(FALSE).name)
      /\ pos' = AfterTag(GetTag(FALSE).next)
  BY DEF OpenTag, InText
<1>3. pos \in 1 .. Len(line) /\ line[pos] = "<"
  BY <1>2, LineFacts, TokenFacts
<1>4. PlainTag(pos)
  <2>1. PlainTag(pos) \/ ClosingTag(pos) \/ OneFont(pos) \/ TwoFont(pos)
    BY <1>3, LineFacts, TagShape
  <2> QED
    BY <1>2, <1>3, <2>1, LineFacts, TagNames
<1>5. GetTag(FALSE).name = line[j + 1] /\ GetTag(FALSE).next = j + 2
  BY <1>1, <1>3, <1>4, LineFacts, TagNames
<1>6. TagEnd(j) = j + 2 /\ line[j + 1] \in PlainNames /\ Body(j) = <<line[j + 1]>>
  BY <1>1, <1>4 DEF PlainTag
<1>7. AfterTag(j + 2) = TagEnd(j) + 1
  <2>1. /\ j + 2 \in 1 .. Len(line) /\ line[j + 2] = ">"
    BY <1>1, <1>3, <1>6, LineFacts, BodyFacts
  <2>2. /\ j + 2 \in j + 2 .. Len(line) + 1 /\ j + 2 \in 1 .. Len(line) + 1
        /\ \A k \in j + 2 .. (j + 2) - 1 : At(k) \in Tokens \ {">"}
        /\ At(j + 2) = ">"
    BY <1>1, <1>3, <2>1, LineFacts
  <2>3. At(j + 2) \notin Tokens \ {">"} /\ "end" \notin Tokens \ {">"}
    BY <2>2, TokenFacts
  <2>4. Until(j + 2, ">") = j + 2
    BY <2>2, <2>3, LineFacts, AfterIs DEF Until
  <2> QED
    BY <1>6, <2>2, <2>4 DEF AfterTag
<1> DEFINE more == Opened(line[j + 1])
<1>8. /\ more \in Seq(Items) /\ Gives(more, "text", "none")
      /\ \A style \in Followed : Gives(more, style, Setting(Body(j), style))
  BY <1>6, OpenedGives
<1>9. out' = out \o more /\ pos' = TagEnd(j) + 1
  BY <1>2, <1>5, <1>7
<1> HIDE DEF more
<1> QED
  BY <1>1, <1>2, <1>3, <1>8, <1>9, WholeTag DEF LineStyles

LEMMA CloseTagStyles == LineStyles /\ CloseTag => TextInv' /\ PlaceInv'
<1> SUFFICES ASSUME LineStyles, CloseTag
             PROVE  TextInv' /\ PlaceInv'
  OBVIOUS
<1>1. PICK j : j = pos
  OBVIOUS
<1> DEFINE end == After(GetTag(TRUE).next, {"blank"})
<1>2. /\ pc = "text" /\ pc' = "text" /\ line' = line
      /\ At(pos) = "<" /\ At(pos + 1) = "/" /\ GetTag(FALSE).name = "none"
      /\ out' = out \o Closed(GetTag(TRUE).name)
      /\ pos' = IF At(end) = ">" THEN end + 1 ELSE end
  BY DEF CloseTag, ClosesTag, InText
<1>3. pos \in 1 .. Len(line) /\ line[pos] = "<"
  BY <1>2, LineFacts, TokenFacts
<1>4. ClosingTag(pos)
  <2>1. PlainTag(pos) \/ ClosingTag(pos) \/ OneFont(pos) \/ TwoFont(pos)
    BY <1>3, LineFacts, TagShape
  <2>2. ~PlainTag(pos)
    <3>1. PlainTag(pos) => GetTag(FALSE).name \in PlainNames
      BY <1>3, LineFacts, TagNames DEF PlainTag
    <3> QED
      BY <1>2, <3>1 DEF PlainNames
  <2>3. ~OneFont(pos) /\ ~TwoFont(pos)
    BY <1>2, <1>3, LineFacts, TagNames
  <2> QED
    BY <2>1, <2>2, <2>3
<1>5. GetTag(TRUE).name = line[j + 2] /\ GetTag(TRUE).next = j + 3
  BY <1>1, <1>3, <1>4, LineFacts, TagNames
<1>6. /\ TagEnd(j) = j + 3 /\ line[j + 2] \in PlainNames \cup {"font"}
      /\ Body(j) = <<"/", line[j + 2]>>
  BY <1>1, <1>4 DEF ClosingTag
<1>7. end = j + 3 /\ At(j + 3) = ">"
  <2>1. /\ j + 3 \in 1 .. Len(line) /\ line[j + 3] = ">"
    BY <1>1, <1>3, <1>6, LineFacts, BodyFacts
  <2>2. /\ j + 3 \in j + 3 .. Len(line) + 1 /\ j + 3 \in 1 .. Len(line) + 1
        /\ \A k \in j + 3 .. (j + 3) - 1 : At(k) \in {"blank"}
        /\ At(j + 3) = ">" /\ At(j + 3) \notin {"blank"} /\ "end" \notin {"blank"}
    BY <1>1, <1>3, <2>1, LineFacts
  <2>3. After(j + 3, {"blank"}) = j + 3
    BY <2>2, LineFacts, AfterIs
  <2> QED
    BY <1>5, <2>2, <2>3
<1> HIDE DEF end
<1> DEFINE more == Closed(line[j + 2])
<1>8. /\ more \in Seq(Items) /\ Gives(more, "text", "none")
      /\ \A style \in Followed : Gives(more, style, Setting(Body(j), style))
  BY <1>6, ClosedGives
<1>9. out' = out \o more /\ pos' = TagEnd(j) + 1
  BY <1>2, <1>5, <1>6, <1>7
<1> HIDE DEF more
<1> QED
  BY <1>1, <1>2, <1>3, <1>8, <1>9, WholeTag DEF LineStyles

\* Nothing is put out, and nothing but the place changes.
LEMMA NowStays ==
  ASSUME out' = out
  PROVE  \A style : Now(style)' = Now(style)
BY DEF Now, StyleOf

LEMMA FontTagStyles == LineStyles /\ FontTag => TextInv' /\ PlaceInv'
<1> SUFFICES ASSUME LineStyles, FontTag
             PROVE  TextInv' /\ PlaceInv'
  OBVIOUS
<1>1. PICK j : j = pos
  OBVIOUS
<1>2. /\ pc = "text" /\ pc' = "font" /\ line' = line /\ out' = out
      /\ At(pos) = "<" /\ GetTag(FALSE).name = "font"
      /\ pos' = GetTag(FALSE).next
  BY DEF FontTag, InText
<1>3. pos \in 1 .. Len(line) /\ line[pos] = "<"
  BY <1>2, LineFacts, TokenFacts
<1>4. OneFont(pos) \/ TwoFont(pos)
  <2>1. PlainTag(pos) \/ ClosingTag(pos) \/ OneFont(pos) \/ TwoFont(pos)
    BY <1>3, LineFacts, TagShape
  <2>2. ~PlainTag(pos)
    <3>1. PlainTag(pos) => GetTag(FALSE).name \in PlainNames
      BY <1>3, LineFacts, TagNames DEF PlainTag
    <3> QED
      BY <1>2, <3>1 DEF PlainNames
  <2>3. ~ClosingTag(pos)
    BY <1>2, <1>3, LineFacts, TagNames
  <2> QED
    BY <2>1, <2>2, <2>3
<1>5. PICK next \in Nat : next = j + 2 /\ pos' = next
  <2>1. pos' = j + 2
    BY <1>1, <1>2, <1>3, <1>4, LineFacts, TagNames
  <2>2. j + 2 \in Nat
    BY <1>1, <1>3, LineFacts
  <2> QED
    BY <2>1, <2>2
<1>6. line[j] = "<" /\ line[j + 1] = "font"
  BY <1>1, <1>3, <1>4 DEF OneFont, TwoFont
<1>7. Outside(j) /\ \A style \in Followed : Now(style) = StyleAt(j, style)
  BY <1>1, <1>2 DEF LineStyles, PlaceInv
<1>8. /\ TagEnd(j) \in j + 2 .. Len(line)
      /\ \A i \in j .. TagEnd(j) : ~IsText(i)
  BY <1>1, <1>3, <1>7, LineFacts, TagInside, BehindTag
<1>9. TextInv'
  <2>1. /\ next \in pos .. Len(line) + 1
        /\ \A i \in pos .. next - 1 : ~IsText(i)
    BY <1>1, <1>3, <1>5, <1>8, LineFacts
  <2>2. <<>> \in Seq(Items) /\ \A k \in 1 .. Len(<<>>) : <<>>[k].style # "text"
    OBVIOUS
  <2>3. PICK o : out' = o /\ o = out \o <<>>
    BY <1>2, LineFacts
  <2> QED
    BY <1>2, <1>5, <2>1, <2>2, <2>3, NoTextKeeps DEF LineStyles
<1>10. FontPlace(j)'
  <2>1. /\ line'[j] = "<" /\ line'[j + 1] = "font" /\ Outside(j)'
        /\ next = j + 2
        /\ \A style \in Followed : Now(style)' = StyleAt(j, style)'
    BY <1>2, <1>5, <1>6, <1>7, LineStays, NowStays
  <2> QED
    BY <1>5, <2>1 DEF FontPlace
<1>11. j \in 1 .. next - 1
  BY <1>1, <1>3, <1>5, LineFacts
<1> QED
  BY <1>2, <1>5, <1>9, <1>10, <1>11 DEF PlaceInv

\* The font tag whose attributes are being read.
LEMMA FontHere ==
  ASSUME LineStyles, NEW j \in 1 .. pos - 1, FontPlace(j)
  PROVE  /\ j \in 1 .. Len(line) /\ line[j] = "<" /\ Outside(j)
         /\ OneFont(j) \/ TwoFont(j)
         /\ TagEnd(j) \in j + 2 .. Len(line) /\ line[TagEnd(j)] = ">"
         /\ \A i \in j .. TagEnd(j) : ~IsText(i)
<1>1. j \in 1 .. Len(line) /\ line[j] = "<" /\ line[j + 1] = "font" /\ Outside(j)
  BY LineFacts DEF FontPlace
<1>2. OneFont(j) \/ TwoFont(j)
  <2>1. PlainTag(j) \/ ClosingTag(j) \/ OneFont(j) \/ TwoFont(j)
    BY <1>1, LineFacts, TagShape
  <2> QED
    BY <1>1, <2>1 DEF PlainTag, ClosingTag, PlainNames
<1> QED
  BY <1>1, <1>2, LineFacts, TagInside, BodyFacts, BehindTag

\* One attribute is read.
LEMMA AttributeStyles ==
  ASSUME LineStyles, FontAttribute, NEW j \in 1 .. pos - 1, FontPlace(j),
         NEW n, NEW v, NEW next \in pos + 1 .. TagEnd(j), AttributeAt(pos, n, v, next),
         line[next] \in {"blank", ">"}
  PROVE  /\ pc' = "font" /\ line' = line /\ pos' = next
         /\ TextInv'
         /\ Given(n, v) # "none"
         /\ \A style \in Followed :
              Now(style)' = IF style = StyleName(n) THEN Given(n, v) ELSE Now(style)
<1>1. /\ pc' = "font" /\ line' = line
      /\ out' = out \o Overrides(Attribute) /\ pos' = Attribute.next
  BY DEF FontAttribute
<1>2. next \in 1 .. Len(line) /\ TagEnd(j) \in 1 .. Len(line)
  BY LineFacts, FontHere
<1>3. Attribute = [name |-> n, value |-> v, first |-> v, next |-> next, fault |-> "none"]
  BY <1>2, LineFacts, AttributeRead
<1>4. n \in AttributeNames /\ v \in Values(n) /\ pos' = next
  BY <1>1, <1>3 DEF AttributeAt
<1>5. PICK more : more = Overrides(Attribute)
  OBVIOUS
<1>6. /\ more \in Seq(Items) /\ Gives(more, "text", "none") /\ Given(n, v) # "none"
      /\ \A style \in Followed :
           Gives(more, style, IF style = StyleName(n) THEN Given(n, v) ELSE "none")
  BY <1>3, <1>4, <1>5, AttributeGives
<1>7. TextInv'
  <2>1. PICK o : out' = o /\ o = out \o more
    BY <1>1, <1>5
  <2>2. \A k \in 1 .. Len(more) : more[k].style # "text"
    BY <1>6 DEF Gives
  <2>3. /\ next \in pos .. Len(line) + 1
        /\ \A i \in pos .. next - 1 : ~IsText(i)
    <3>1. \A i \in j .. TagEnd(j) : ~IsText(i)
      BY FontHere
    <3> QED
      BY <1>2, <3>1, LineFacts
  <2> QED
    BY <1>1, <1>4, <1>6, <2>1, <2>2, <2>3, NoTextKeeps DEF LineStyles
<1>8. ASSUME NEW style \in Followed
      PROVE  Now(style)' = IF style = StyleName(n) THEN Given(n, v) ELSE Now(style)
  <2>1. out' = out \o more
    BY <1>1, <1>5
  <2>2. Gives(more, style, IF style = StyleName(n) THEN Given(n, v) ELSE "none")
    BY <1>6
  <2> QED
    BY <1>6, <2>1, <2>2, LineFacts, NowGiven
<1> QED
  BY <1>1, <1>4, <1>6, <1>7, <1>8

\* At the end of a tag there is no attribute.
LEMMA NoAttributeHere ==
  ASSUME LineInv, pos \in 1 .. Len(line), line[pos] = ">"
  PROVE  Attribute = NoAttribute
<1>1. line \in Seq(Tokens) /\ Len(line) \in Nat /\ At(pos) = ">"
  BY AtFacts DEF LineInv
<1>2. /\ pos \in pos .. Len(line) + 1 /\ pos \in 1 .. Len(line) + 1
      /\ \A k \in pos .. pos - 1 : At(k) \in {"blank"} /\ At(k) \in Alpha
  BY <1>1
<1>3. ">" \notin {"blank"} /\ ">" \notin Alpha /\ "end" \notin {"blank"} /\ "end" \notin Alpha
  BY DEF Alpha
<1>4. NameStart = pos
  BY <1>1, <1>2, <1>3, AfterIs DEF NameStart
<1>5. After(pos, Alpha) = pos
  BY <1>1, <1>2, <1>3, AfterIs
<1> QED
  BY <1>4, <1>5, AttributeIs DEF NameEnd

LEMMA FontAttributeStyles == LineStyles /\ FontAttribute => TextInv' /\ PlaceInv'
<1> SUFFICES ASSUME LineStyles, FontAttribute
             PROVE  TextInv' /\ PlaceInv'
  OBVIOUS
<1>1. pc = "font" /\ Attribute.name # "none" /\ line' = line
  BY DEF FontAttribute
<1>2. PICK j \in 1 .. pos - 1 : FontPlace(j)
  BY <1>1 DEF LineStyles, PlaceInv
<1>3. /\ j \in 1 .. Len(line) /\ line[j] = "<" /\ line[j + 1] = "font" /\ Outside(j)
      /\ OneFont(j) \/ TwoFont(j)
      /\ TagEnd(j) \in j + 2 .. Len(line) /\ line[TagEnd(j)] = ">"
  BY <1>2, FontHere DEF FontPlace
<1>4. /\ line'[j] = "<" /\ line'[j + 1] = "font" /\ Outside(j)'
      /\ TagEnd(j)' = TagEnd(j)
      /\ \A style : /\ StyleAt(j, style)' = StyleAt(j, style)
                    /\ Setting(Body(j), style)' = Setting(Body(j), style)
  BY <1>1, <1>3, LineStays
<1>5. ASSUME NEW n, NEW v, AttributeAt(pos, n, v, TagEnd(j)),
             \A style \in Followed :
               (IF style = StyleName(n) THEN Given(n, v) ELSE Now(style)) =
                 IF Setting(Body(j), style) = "none" THEN StyleAt(j, style)
                 ELSE Setting(Body(j), style)
      PROVE  TextInv' /\ PlaceInv'
  <2>1. PICK next : next = TagEnd(j)
    OBVIOUS
  <2>2. next \in pos + 1 .. TagEnd(j) /\ line[next] \in {"blank", ">"}
        /\ AttributeAt(pos, n, v, next)
    <3>1. next \in {pos + 4, pos + 6}
      BY <1>5, <2>1 DEF AttributeAt
    <3> QED
      BY <1>3, <1>5, <2>1, <3>1, LineFacts
  <2>3. /\ pc' = "font" /\ pos' = next /\ TextInv'
        /\ \A style \in Followed :
             Now(style)' = IF style = StyleName(n) THEN Given(n, v) ELSE Now(style)
    BY <1>2, <2>2, AttributeStyles
  <2>4. FontPlace(j)'
    BY <1>4, <1>5, <2>1, <2>3 DEF FontPlace
  <2>5. j \in 1 .. next - 1
    BY <2>2, LineFacts
  <2> QED
    BY <2>3, <2>4, <2>5 DEF PlaceInv
<1>6. CASE pos = j + 2 /\ \A style \in Followed : Now(style) = StyleAt(j, style)
  <2>1. CASE OneFont(j)
    <3>1. PICK n \in AttributeNames : \E v \in Values(n) : OneAttribute(j, n, v)
      BY <2>1 DEF OneFont
    <3>2. PICK v \in Values(n) : OneAttribute(j, n, v)
      BY <3>1
    <3>3. AttributeAt(pos, n, v, TagEnd(j))
      BY <1>6, <3>2 DEF OneAttribute
    <3>4. Given(n, v) # "none"
      BY AttributeGives
    <3>5. ASSUME NEW style \in Followed
          PROVE  (IF style = StyleName(n) THEN Given(n, v) ELSE Now(style)) =
                   IF Setting(Body(j), style) = "none" THEN StyleAt(j, style)
                   ELSE Setting(Body(j), style)
      <4>1. Setting(Body(j), style) = IF style = StyleName(n) THEN Given(n, v) ELSE "none"
        BY <1>3, <3>2, LineFacts, OneFontSetting
      <4> QED
        BY <1>6, <3>4, <4>1
    <3> QED
      BY <1>5, <3>3, <3>5
  <2>2. CASE TwoFont(j)
    <3>1. PICK n \in AttributeNames, m \in AttributeNames, v \in Tokens, w \in Tokens,
               next \in 1 .. TagEnd(j) : TwoAttributes(j, n, v, next, m, w)
      BY <2>2 DEF TwoFont
    <3>2. AttributeAt(pos, n, v, next) /\ AttributeAt(next, m, w, TagEnd(j))
      BY <1>6, <3>1 DEF TwoAttributes
    <3>3. next \in pos + 1 .. TagEnd(j) /\ line[next] \in {"blank", ">"}
      <4>1. next \in {pos + 4, pos + 6} /\ line[next] = "blank"
        BY <3>2 DEF AttributeAt
      <4> QED
        BY <1>3, <4>1, LineFacts
    <3>4. /\ pc' = "font" /\ pos' = next /\ TextInv'
          /\ \A style \in Followed :
               Now(style)' = IF style = StyleName(n) THEN Given(n, v) ELSE Now(style)
      BY <1>2, <3>2, <3>3, AttributeStyles
    <3>5. TwoAttributes(j, n, v, next, m, w)'
      BY <1>1, <1>4, <3>1 DEF TwoAttributes, AttributeAt
    <3>6. \A style \in Followed :
            Now(style)' = IF style = StyleName(n) THEN Given(n, v) ELSE StyleAt(j, style)'
      BY <1>4, <1>6, <3>4
    <3>7. next \in 1 .. TagEnd(j)'
      BY <1>4, <3>1
    <3>8. FontPlace(j)'
      BY <1>4, <3>1, <3>4, <3>5, <3>6, <3>7 DEF FontPlace
    <3>9. j \in 1 .. next - 1
      BY <3>3, LineFacts
    <3> QED
      BY <3>4, <3>8, <3>9 DEF PlaceInv
  <2> QED
    BY <1>3, <2>1, <2>2
<1>7. ASSUME NEW n \in AttributeNames, NEW m \in AttributeNames, NEW v \in Tokens, NEW w \in Tokens,
             NEW next \in 1 .. TagEnd(j), TwoAttributes(j, n, v, next, m, w), pos = next,
             \A style \in Followed :
               Now(style) = IF style = StyleName(n) THEN Given(n, v) ELSE StyleAt(j, style)
      PROVE  TextInv' /\ PlaceInv'
  <2>1. AttributeAt(j + 2, n, v, next) /\ AttributeAt(pos, m, w, TagEnd(j))
    BY <1>7 DEF TwoAttributes
  <2>2. Given(n, v) # "none" /\ Given(m, w) # "none"
    BY <2>1, AttributeGives DEF AttributeAt
  <2>3. ASSUME NEW style \in Followed
        PROVE  (IF style = StyleName(m) THEN Given(m, w) ELSE Now(style)) =
                 IF Setting(Body(j), style) = "none" THEN StyleAt(j, style)
                 ELSE Setting(Body(j), style)
    <3>1. Setting(Body(j), style) =
            IF style = StyleName(m) THEN Given(m, w)
            ELSE IF style = StyleName(n) THEN Given(n, v) ELSE "none"
      <4>1. LineInv /\ WellFormed /\ j \in 1 .. Len(line) /\ line[j] = "<" /\ next \in Nat
        BY <1>3, LineFacts
      <4>2. TwoAttributes(j, n, v, next, m, w)
        BY <1>7
      <4> QED
        BY <4>1, <4>2, TwoFontSetting
    <3> QED
      BY <1>7, <2>2, <3>1
  <2> QED
    BY <1>5, <2>1, <2>3
<1>8. CASE pos = TagEnd(j)
  <2>1. Attribute = NoAttribute
    BY <1>3, <1>8, LineFacts, NoAttributeHere
  <2> QED
    BY <1>1, <2>1 DEF NoAttribute
<1> QED
  BY <1>2, <1>6, <1>7, <1>8 DEF FontPlace

\* Where no attribute is read, the font tag ends.
LEMMA FontEnd ==
  ASSUME LineStyles, NEW j \in 1 .. pos - 1, FontPlace(j), Attribute.name = "none"
  PROVE  /\ pos = TagEnd(j)
         /\ \A style \in Followed :
              Now(style) = IF Setting(Body(j), style) = "none" THEN StyleAt(j, style)
                           ELSE Setting(Body(j), style)
<1>1. /\ OneFont(j) \/ TwoFont(j)
      /\ TagEnd(j) \in 1 .. Len(line) /\ line[TagEnd(j)] = ">"
  BY FontHere, LineFacts
<1>2. ASSUME NEW n, NEW v, NEW next \in 1 .. Len(line), AttributeAt(pos, n, v, next),
             line[next] \in {"blank", ">"}
      PROVE  FALSE
  <2>1. Attribute.name = n
    BY <1>2, LineFacts, AttributeRead
  <2> QED
    BY <1>2, <2>1 DEF AttributeAt, AttributeNames
<1>3. CASE pos = j + 2
  <2>1. CASE OneFont(j)
    <3>1. PICK n \in AttributeNames : \E v \in Values(n) : OneAttribute(j, n, v)
      BY <2>1 DEF OneFont
    <3>2. PICK v \in Values(n) : OneAttribute(j, n, v)
      BY <3>1
    <3>3. AttributeAt(pos, n, v, TagEnd(j))
      BY <1>3, <3>2 DEF OneAttribute
    <3> QED
      BY <1>1, <1>2, <3>3
  <2>2. CASE TwoFont(j)
    <3>1. PICK n \in AttributeNames, m \in AttributeNames, v \in Tokens, w \in Tokens,
               next \in 1 .. TagEnd(j) : TwoAttributes(j, n, v, next, m, w)
      BY <2>2 DEF TwoFont
    <3>2. AttributeAt(pos, n, v, next) /\ line[next] = "blank"
      BY <1>3, <3>1 DEF TwoAttributes, AttributeAt
    <3>3. next \in 1 .. Len(line)
      BY <1>1, LineFacts
    <3> QED
      BY <1>2, <3>2, <3>3
  <2> QED
    BY <1>1, <2>1, <2>2
<1>4. ASSUME NEW n, NEW m, NEW v, NEW w, NEW next, TwoAttributes(j, n, v, next, m, w), pos = next
      PROVE  FALSE
  <2>1. AttributeAt(pos, m, w, TagEnd(j))
    BY <1>4 DEF TwoAttributes
  <2> QED
    BY <1>1, <1>2, <2>1
<1> QED
  BY <1>3, <1>4 DEF FontPlace

LEMMA EndFontTagStyles == LineStyles /\ EndFontTag => TextInv' /\ PlaceInv'
<1> SUFFICES ASSUME LineStyles, EndFontTag
             PROVE  TextInv' /\ PlaceInv'
  OBVIOUS
<1>1. /\ pc = "font" /\ Attribute.name = "none"
      /\ pos' = AfterTag(pos) /\ pc' = "text" /\ line' = line /\ out' = out
  BY DEF EndFontTag
<1>2. PICK j \in 1 .. pos - 1 : FontPlace(j)
  BY <1>1 DEF LineStyles, PlaceInv
<1>3. /\ pos = TagEnd(j)
      /\ \A style \in Followed :
           Now(style) = IF Setting(Body(j), style) = "none" THEN StyleAt(j, style)
                        ELSE Setting(Body(j), style)
  BY <1>1, <1>2, FontEnd
<1>4. /\ j \in 1 .. Len(line) /\ line[j] = "<" /\ Outside(j)
      /\ pos \in 1 .. Len(line) /\ line[pos] = ">"
      /\ \A i \in j .. pos : ~IsText(i)
  BY <1>2, <1>3, FontHere, LineFacts
<1>5. PICK next : next = pos + 1
  OBVIOUS
<1>6. AfterTag(pos) = next
  <2>1. /\ pos \in pos .. Len(line) + 1 /\ pos \in 1 .. Len(line) + 1
        /\ \A k \in pos .. pos - 1 : At(k) \in Tokens \ {">"}
        /\ At(pos) = ">"
    BY <1>4, LineFacts
  <2>2. At(pos) \notin Tokens \ {">"} /\ "end" \notin Tokens \ {">"}
    BY <2>1, TokenFacts
  <2>3. Until(pos, ">") = pos
    BY <2>1, <2>2, LineFacts, AfterIs DEF Until
  <2> QED
    BY <1>5, <2>1, <2>3 DEF AfterTag
<1>7. TextInv'
  <2>1. /\ next \in pos .. Len(line) + 1 /\ pos' = next
        /\ \A i \in pos .. next - 1 : ~IsText(i)
    BY <1>1, <1>4, <1>5, <1>6, LineFacts
  <2>2. <<>> \in Seq(Items) /\ \A k \in 1 .. Len(<<>>) : <<>>[k].style # "text"
    OBVIOUS
  <2>3. PICK o : out' = o /\ o = out \o <<>>
    BY <1>1, LineFacts
  <2> QED
    BY <1>1, <2>1, <2>2, <2>3, NoTextKeeps DEF LineStyles
<1>8. /\ Outside(next)
      /\ \A style : StyleAt(next, style) =
           IF Setting(Body(j), style) = "none" THEN StyleAt(j, style) ELSE Setting(Body(j), style)
  BY <1>3, <1>4, <1>5, LineFacts, BehindTag
<1>9. \A style \in Followed : Now(style)' = StyleAt(next, style)
  BY <1>1, <1>3, <1>8, NowStays
<1> QED
  BY <1>1, <1>6, <1>7, <1>8, <1>9, PlaceReached

\* A token outside the tags is passed.
LEMMA TokenPassed ==
  ASSUME LineStyles, pc = "text", NEW p \in 1 .. Len(line), pos = p, line[p] # "<"
  PROVE  /\ ~InTag(p) /\ Outside(p + 1)
         /\ \A style : StyleAt(p + 1, style) = StyleAt(p, style)
<1>1. Outside(p) /\ p \in Nat /\ Len(line) \in Nat
  BY LineFacts DEF LineStyles, PlaceInv
<1>2. ASSUME NEW j \in 1 .. p, line[j] = "<"
      PROVE  TagEnd(j) \in Nat /\ TagEnd(j) < p
  <2>1. j \in 1 .. p - 1 /\ j \in 1 .. Len(line)
    BY <1>1, <1>2
  <2>2. TagEnd(j) < p
    BY <1>1, <1>2, <2>1 DEF Outside
  <2>3. TagEnd(j) \in Nat
    BY <1>1, <1>2, <2>1, LineFacts, BodyFacts
  <2> QED
    BY <2>2, <2>3
<1>3. ~InTag(p)
  BY <1>1, <1>2 DEF InTag
<1>4. Outside(p + 1)
  <2> SUFFICES ASSUME NEW j \in 1 .. (p + 1) - 1, line[j] = "<"
               PROVE  TagEnd(j) < p + 1
    BY DEF Outside
  <2>1. j \in 1 .. p
    BY <1>1
  <2>2. TagEnd(j) \in Nat /\ TagEnd(j) < p
    BY <1>2, <2>1
  <2> QED
    BY <1>1, <2>2
<1>5. ASSUME NEW style
      PROVE  StyleAt(p + 1, style) = StyleAt(p, style)
  <2>1. p \in p .. Len(line) /\ \A k \in p + 1 .. p : line[k] # "<"
    BY <1>1
  <2>2. LineInv
    BY LineFacts
  <2> QED
    BY <2>1, <2>2, StylePassed
<1> QED
  BY <1>3, <1>4, <1>5

LEMMA CopyStyles == LineStyles /\ Copy => TextInv' /\ PlaceInv'
<1> SUFFICES ASSUME LineStyles, Copy
             PROVE  TextInv' /\ PlaceInv'
  OBVIOUS
<1>1. /\ pc = "text" /\ pc' = "text" /\ line' = line
      /\ \/ At(pos) \notin {"end", "cr", "nl", "<"}
         \/ At(pos) = "<" /\ GetTag(FALSE).name = "none" /\ ~ClosesTag
      /\ out' = out \o Text(pos) /\ pos' = pos + 1
  BY DEF Copy, Literal
<1>2. PICK p : p = pos
  OBVIOUS
<1>3. p \in 1 .. Len(line) /\ At(p) = line[p]
  <2>1. At(pos) # "end"
    BY <1>1
  <2> QED
    BY <1>2, <2>1, LineFacts
<1>4. line[p] # "<"
  <2> SUFFICES ASSUME line[p] = "<"
               PROVE  FALSE
    OBVIOUS
  <2>1. GetTag(FALSE).name = "none" /\ ~ClosesTag /\ At(pos) = "<"
    BY <1>1, <1>2, <1>3
  <2>2. PlainTag(p) \/ ClosingTag(p) \/ OneFont(p) \/ TwoFont(p)
    BY <1>3, LineFacts, TagShape
  <2>3. ~PlainTag(p)
    <3>1. PlainTag(p) => GetTag(FALSE).name \in PlainNames
      BY <1>2, <1>3, LineFacts, TagNames DEF PlainTag
    <3> QED
      BY <2>1, <3>1 DEF PlainNames
  <2>4. ~OneFont(p) /\ ~TwoFont(p)
    BY <1>2, <1>3, <2>1, LineFacts, TagNames
  <2>5. ClosingTag(p) => At(pos + 1) = "/"
    BY <1>2, <1>3, LineFacts, TagNames
  <2> QED
    BY <1>1, <2>1, <2>2, <2>3, <2>4, <2>5 DEF ClosesTag, InText
<1>5. PICK next : next = p + 1
  OBVIOUS
<1>6. /\ IsText(p) /\ Outside(next)
      /\ \A style : StyleAt(next, style) = StyleAt(p, style)
  BY <1>1, <1>2, <1>3, <1>4, <1>5, TokenPassed DEF IsText
<1>7. \A style \in Followed : Now(style) = StyleAt(p, style)
  BY <1>1, <1>2 DEF LineStyles, PlaceInv
<1>8. PICK o : out' = o /\ o = out \o Text(p)
  BY <1>1, <1>2
<1>9. TextInv'
  BY <1>1, <1>2, <1>3, <1>5, <1>6, <1>7, <1>8, TextKeeps DEF LineStyles
<1>10. ASSUME NEW style \in Followed
       PROVE  Now(style)' = Now(style)
  <2> DEFINE more == Text(p)
  <2>1. more \in Seq(Items)
    BY <1>3, LineFacts DEF Text, Items, Styles, Settings
  <2>2. Gives(more, style, "none")
    BY DEF Gives, Text, Followed
  <2>3. out' = out \o more
    BY <1>8
  <2> HIDE DEF more
  <2> QED
    BY <2>1, <2>2, <2>3, LineFacts, NowGiven
<1> QED
  BY <1>1, <1>2, <1>5, <1>6, <1>7, <1>9, <1>10, PlaceReached

LEMMA LineBreakStyles == LineStyles /\ LineBreak => TextInv' /\ PlaceInv'
<1> SUFFICES ASSUME LineStyles, LineBreak
             PROVE  TextInv' /\ PlaceInv'
  OBVIOUS
<1> DEFINE more == IF At(pos) = "nl" THEN Newline ELSE <<>>
<1>1. /\ pc = "text" /\ pc' = "text" /\ line' = line
      /\ At(pos) \in {"nl", "cr"}
      /\ out' = out \o more /\ pos' = pos + 1
  BY LineFacts DEF LineBreak
<1>2. PICK p : p = pos
  OBVIOUS
<1>3. p \in 1 .. Len(line) /\ line[p] \in {"nl", "cr"}
  <2>1. At(pos) # "end"
    BY <1>1
  <2> QED
    BY <1>1, <1>2, <2>1, LineFacts
<1>4. PICK next : next = p + 1
  OBVIOUS
<1>5. /\ ~IsText(p) /\ Outside(next)
      /\ \A style : StyleAt(next, style) = StyleAt(p, style)
  BY <1>1, <1>2, <1>3, <1>4, TokenPassed DEF IsText
<1>6. \A style \in Followed : Now(style) = StyleAt(p, style)
  BY <1>1, <1>2 DEF LineStyles, PlaceInv
<1>7. /\ more \in Seq(Items)
      /\ \A style \in Followed \cup {"text"} : Gives(more, style, "none")
  <2>1. Newline \in Seq(Items) /\ <<>> \in Seq(Items)
    BY DEF Newline, Items, Styles, Settings
  <2>2. \A style \in Followed \cup {"text"} :
          Gives(Newline, style, "none") /\ Gives(<<>>, style, "none")
    BY DEF Gives, Newline, Followed
  <2> QED
    BY <2>1, <2>2
<1> HIDE DEF more
<1>8. TextInv'
  <2>1. PICK o : out' = o /\ o = out \o more
    BY <1>1
  <2>2. \A k \in 1 .. Len(more) : more[k].style # "text"
    BY <1>7 DEF Gives
  <2>3. /\ next \in pos .. Len(line) + 1 /\ pos' = next
        /\ \A i \in pos .. next - 1 : ~IsText(i)
    BY <1>1, <1>2, <1>3, <1>4, <1>5, LineFacts
  <2> QED
    BY <1>1, <1>7, <2>1, <2>2, <2>3, NoTextKeeps DEF LineStyles
<1>9. \A style \in Followed : Now(style)' = Now(style)
  BY <1>1, <1>7, LineFacts, NowGiven
<1> QED
  BY <1>1, <1>2, <1>4, <1>5, <1>6, <1>8, <1>9, PlaceReached

\* The parser stays where it is.
LEMMA TextStays ==
  ASSUME LineStyles, line' = line, pos' = pos, out' = out
  PROVE  TextInv'
<1>1. PICK next : next = pos
  OBVIOUS
<1>2. /\ next \in pos .. Len(line) + 1 /\ pos' = next
      /\ \A i \in pos .. next - 1 : ~IsText(i)
  BY <1>1, LineFacts
<1>3. <<>> \in Seq(Items) /\ \A k \in 1 .. Len(<<>>) : <<>>[k].style # "text"
  OBVIOUS
<1>4. PICK o : out' = o /\ o = out \o <<>>
  BY LineFacts
<1> QED
  BY <1>2, <1>3, <1>4, NoTextKeeps DEF LineStyles

\* The parser stops: at the end of the line if it is done.
LEMMA StopStyles ==
  ASSUME LineStyles, NEW how, how \notin {"text", "font"}, Stop(how),
         how = "done" => pos = Len(line) + 1
  PROVE  TextInv' /\ PlaceInv'
<1>1. line' = line /\ pos' = pos /\ out' = out /\ pc' = how
  BY DEF Stop
<1>2. TextInv'
  BY <1>1, TextStays
<1> QED
  BY <1>1, <1>2 DEF PlaceInv

LEMMA StopsStyles ==
  LineStyles /\ (HugeTag \/ AttributeFault \/ SizeIsNoNumber \/ BraceAtEnd \/ Return)
    => TextInv' /\ PlaceInv'
<1> SUFFICES ASSUME LineStyles, HugeTag \/ AttributeFault \/ SizeIsNoNumber \/ BraceAtEnd \/ Return
             PROVE  TextInv' /\ PlaceInv'
  OBVIOUS
<1>1. CASE HugeTag
  <2>1. Stop("aborted")
    BY <1>1 DEF HugeTag
  <2> QED
    BY <2>1, StopStyles
<1>2. CASE AttributeFault
  <2>1. pc = "font" /\ Attribute.fault # "none" /\ Stop(Attribute.fault)
    BY <1>2 DEF AttributeFault
  <2>2. Attribute.fault \in {"overrun", "aborted"}
    BY <2>1, LineFacts, AttributeFacts DEF LineInv
  <2> QED
    BY <2>1, <2>2, StopStyles
<1>3. CASE SizeIsNoNumber
  <2>1. Stop("threw")
    BY <1>3 DEF SizeIsNoNumber
  <2> QED
    BY <2>1, StopStyles
<1>4. CASE BraceAtEnd
  <2>1. Stop("overrun")
    BY <1>4 DEF BraceAtEnd
  <2> QED
    BY <2>1, StopStyles
<1>5. CASE Return
  <2>1. Stop("done") /\ At(pos) = "end"
    BY <1>5 DEF Return, InText
  <2>2. pos = Len(line) + 1
    BY <2>1, LineFacts, TokenFacts
  <2> QED
    BY <2>1, <2>2, StopStyles
<1> QED
  BY <1>1, <1>2, <1>3, <1>4, <1>5

LEMMA StyleStep == ParserInv /\ StyleInv /\ [Next]_vars => StyleInv'
<1> SUFFICES ASSUME ParserInv, StyleInv, [Next]_vars, WellFormed'
             PROVE  TextInv' /\ PlaceInv'
  BY DEF StyleInv
<1>1. line' = line
  BY DEF Next, vars, OpenTag, HugeTag, FontTag, FontAttribute, SizeIsNoNumber, AttributeFault,
         EndFontTag, CloseTag, NamelessClose, MicroDvd, BraceAtEnd, Copy, LineBreak, Return, Stop
<1>2. LineStyles
  BY <1>1, LineStays DEF LineStyles, StyleInv, ParserInv
<1>3. CASE MicroDvd
  <2>1. At(pos) = "lbrace"
    BY <1>3 DEF MicroDvd, IsMicroDvd, InText
  <2> QED
    BY <1>2, <2>1, LineFacts, TokenFacts
<1>4. CASE UNCHANGED vars
  <2>1. TextInv'
    BY <1>2, <1>4, TextStays DEF vars
  <2>2. PlaceInv' <=> PlaceInv
    <3>1. PICK next : next = pos
      OBVIOUS
    <3>2. line' = line /\ pos' = next /\ out' = out /\ pc' = pc
      BY <1>4, <3>1 DEF vars
    <3>3. \A style : Now(style)' = Now(style)
      BY <3>2, NowStays
    <3>4. /\ Outside(pos)' <=> Outside(next)
          /\ \A style : StyleAt(pos, style)' = StyleAt(next, style)
      BY <3>2, HereStays
    <3>5. \A j : FontPlace(j)' <=> FontPlace(j)
      BY <3>1, <3>2, <3>3, LineStays DEF FontPlace, TwoAttributes, AttributeAt
    <3> QED
      BY <3>1, <3>2, <3>3, <3>4, <3>5 DEF PlaceInv
  <2> QED
    BY <1>2, <2>1, <2>2 DEF LineStyles
<1>5. CASE NamelessClose
  BY <1>4, <1>5 DEF NamelessClose
<1> QED
  BY <1>2, <1>3, <1>4, <1>5, OpenTagStyles, CloseTagStyles, FontTagStyles, FontAttributeStyles,
     EndFontTagStyles, CopyStyles, LineBreakStyles, StopsStyles
  DEF Next

LEMMA StyleInit == Init => StyleInv
<1> SUFFICES ASSUME Init
             PROVE  TextInv /\ PlaceInv
  BY DEF StyleInv
<1>1. pos = 1 /\ out = <<>> /\ pc = "text"
  BY DEF Init
<1>2. TextInv
  BY <1>1 DEF TextInv
<1>3. Outside(1)
  BY DEF Outside
<1>4. ASSUME NEW style
      PROVE  Now(style) = "unset" /\ StyleAt(1, style) = "unset"
  BY <1>1 DEF Now, StyleOf, StyleAt
<1> QED
  BY <1>1, <1>2, <1>3, <1>4 DEF PlaceInv

\* At every moment, the output for a well-formed line has the text passed so far, each token
\* once and in its order, and the overrides put out so far set the styles as the tags passed
\* so far set them (Tools.cpp:297-434).
THEOREM StyleInvariance == Spec => [](ParserInv /\ StyleInv)
<1>1. Init => ParserInv /\ StyleInv
  BY ParserInit, StyleInit
<1>2. ParserInv /\ StyleInv /\ [Next]_vars => (ParserInv /\ StyleInv)'
  BY ParserStep, StyleStep
<1> QED
  BY <1>1, <1>2, PTL DEF Spec

\* For every well-formed line, of any length and with tags nested or left open in any way,
\* the parser's result has exactly the text outside the tags, in its order and in the styles
\* the tags give it (Tools.cpp:297-434).
THEOREM Styled == Spec => []StyledAsTagged
<1>1. ParserInv /\ StyleInv => StyledAsTagged
  <2> SUFFICES ASSUME ParserInv, StyleInv, pc = "done", WellFormed
               PROVE  StyledAsTagged
    BY DEF StyledAsTagged
  <2>1. TextInv /\ pos = Len(line) + 1
    BY DEF StyleInv, PlaceInv
  <2>2. out \in Seq(Items) /\ Len(line) \in Nat /\ pos - 1 = Len(line)
    BY <2>1, AtFacts DEF ParserInv, LineInv
  <2> DEFINE texts == {n \in 1 .. Len(out) : out[n].style = "text"}
  <2>3. \A n \in texts : n \in 1 .. Len(out) /\ out[n].at \in Nat /\ TextAt(n, out[n].at)
    <3> SUFFICES ASSUME NEW n \in texts
                 PROVE  n \in 1 .. Len(out) /\ out[n].at \in Nat /\ TextAt(n, out[n].at)
      OBVIOUS
    <3>1. n \in 1 .. Len(out) /\ out[n].style = "text"
      OBVIOUS
    <3>2. out[n] \in Items
      BY <2>2, <3>1
    <3>3. out[n].at \in Nat
      BY <3>2 DEF Items
    <3> QED
      BY <3>1, <3>3 DEF TextAt
  <2>4. {out[n].at : n \in texts} =
          {i \in 1 .. Len(line) : ~InTag(i) /\ line[i] \notin {"nl", "cr"}}
    <3>1. \A n \in texts : out[n].at \in 1 .. Len(line) /\ IsText(out[n].at)
      BY <2>1, <2>2, <2>3 DEF TextInv
    <3>2. ASSUME NEW i \in 1 .. Len(line), IsText(i)
          PROVE  \E n \in texts : out[n].at = i
      <4>1. PICK n \in 1 .. Len(out) : TextAt(n, i)
        BY <2>1, <2>2, <3>2 DEF TextInv
      <4> QED
        BY <4>1 DEF TextAt
    <3> HIDE DEF texts
    <3> QED
      BY <3>1, <3>2 DEF IsText
  <2>5. \A m, n \in texts : m < n => out[m].at < out[n].at
    BY <2>1, <2>3 DEF TextInv
  <2>6. \A n \in texts, style \in Followed : StyleOf(n, style) = StyleAt(out[n].at, style)
    BY <2>1, <2>3 DEF TextInv
  <2> HIDE DEF texts
  <2> QED
    BY <2>4, <2>5, <2>6 DEF StyledAsTagged, Followed, texts
<1> QED
  BY <1>1, StyleInvariance, PTL

-----------------------------------------------------------------------------
(* What is left of the line gets less.                                     *)

\* What is left to do: two for each token, and one to leave the attributes.
Left == 2 * (Len(line) + 1 - pos) + (IF pc = "font" THEN 1 ELSE 0)
Parsing == pc \in {"text", "font"}

GetsShorter == Parsing' /\ ~HasNamelessClose => Left' \in Nat /\ Left' < Left

\* A step to a later place.
LEMMA LaterIsShorter ==
  ASSUME NEW next \in pos + 1 .. Len(line) + 1, LineInv, line' = line, pos' = next
  PROVE  Left' \in Nat /\ Left' < Left
<1>1. Len(line) \in Nat /\ pos \in 1 .. Len(line) + 1
  BY AtFacts DEF LineInv
<1>2. PICK k \in {0, 1} : k = IF pc = "font" THEN 1 ELSE 0
  OBVIOUS
<1>3. PICK more \in {0, 1} : more = IF pc' = "font" THEN 1 ELSE 0
  OBVIOUS
<1>4. Left = 2 * (Len(line) + 1 - pos) + k /\ Left' = 2 * (Len(line) + 1 - next) + more
  BY <1>2, <1>3 DEF Left
<1> QED
  BY <1>1, <1>4

\* A step out of the attributes.
LEMMA LeavingIsShorter ==
  ASSUME NEW next \in pos .. Len(line) + 1, LineInv, line' = line, pos' = next,
         pc = "font", pc' = "text"
  PROVE  Left' \in Nat /\ Left' < Left
<1>1. Len(line) \in Nat /\ pos \in 1 .. Len(line) + 1
  BY AtFacts DEF LineInv
<1>2. Left = 2 * (Len(line) + 1 - pos) + 1 /\ Left' = 2 * (Len(line) + 1 - next)
  BY DEF Left
<1> QED
  BY <1>1, <1>2

\* A closing tag without a name is one that the line has.
LEMMA NamelessIsThere == LineInv /\ NamelessClose => HasNamelessClose
<1> SUFFICES ASSUME LineInv, NamelessClose
             PROVE  HasNamelessClose
  OBVIOUS
<1>1. /\ At(pos) = "<" /\ At(pos + 1) = "/" /\ GetTag(TRUE).name = "none"
  BY DEF NamelessClose, ClosesTag, InText
<1>2. /\ line \in Seq(Tokens) /\ Len(line) \in Nat /\ "end" \notin Tokens
      /\ pos \in 1 .. Len(line) /\ line[pos] = "<"
      /\ pos + 2 \in 1 .. Len(line) + 1
  <2>1. "<" \in Tokens /\ "/" \in Tokens
    BY TokenFacts
  <2>2. pos \in 1 .. Len(line) /\ pos + 1 \in 1 .. Len(line)
    BY <1>1, <2>1, AtFacts DEF LineInv
  <2> QED
    BY <1>1, <2>2, AtFacts DEF LineInv
<1> DEFINE start == After(pos + 2, {"blank"})
           next == After(start, Alnum)
<1>3. start \in pos + 2 .. Len(line) + 1
  BY <1>2, AfterFacts
<1>4. Alpha \subseteq Alnum /\ Alnum \subseteq Tokens /\ "none" \notin Tokens
  BY DEF Tokens, Alnum, Alpha, Digits, Signs
<1>5. At(start) \notin Alpha
  <2> SUFFICES ASSUME At(start) \in Alpha
               PROVE  FALSE
    OBVIOUS
  <2>1. GetTag(TRUE).name = Word(start, next)
    BY <1>1 DEF GetTag
  <2>2. start \in 1 .. Len(line) + 1 /\ "end" \notin Alnum
    BY <1>2, <1>3, <1>4
  <2>3. next \in start .. Len(line) + 1 /\ At(next) \notin Alnum
    <3> HIDE DEF start
    <3> QED
      BY <1>2, <2>2, AfterFacts
  <2>4. next # start
    BY <1>4, <2>3
  <2> HIDE DEF start, next
  <2>5. CASE next = start + 1
    <3>1. Word(start, next) = line[start] /\ At(start) = line[start]
      BY <1>2, <1>4, <2>2, <2>3, <2>5, AtFacts, WordFacts
    <3> QED
      BY <1>1, <1>4, <2>1, <3>1
  <2>6. CASE next # start + 1
    BY <1>1, <2>1, <2>4, <2>6 DEF Word
  <2> QED
    BY <2>5, <2>6
<1> HIDE DEF start
<1> QED
  BY <1>1, <1>2, <1>5 DEF HasNamelessClose, start

LEMMA TagsShorten == ParserInv /\ (OpenTag \/ FontTag \/ CloseTag) => GetsShorter
<1> SUFFICES ASSUME ParserInv, OpenTag \/ FontTag \/ CloseTag
             PROVE  Left' \in Nat /\ Left' < Left
  BY DEF GetsShorter
<1>1. CASE OpenTag
  <2>1. /\ At(pos) = "<" /\ line' = line /\ GetTag(FALSE).name # "none"
        /\ pos' = AfterTag(GetTag(FALSE).next)
    BY <1>1 DEF OpenTag, InText
  <2>2. PICK behind : behind = GetTag(FALSE).next
    OBVIOUS
  <2>3. behind \in pos .. Len(line) + 1 /\ behind > pos + 1
    BY <2>1, <2>2, HereFacts, TagFacts
  <2>4. PICK next : next = AfterTag(behind)
    OBVIOUS
  <2>5. next \in behind .. Len(line) + 1
    BY <2>3, <2>4, HereFacts, SkipFacts
  <2>6. next \in pos + 1 .. Len(line) + 1
    BY <2>3, <2>5, HereFacts
  <2>7. LineInv /\ line' = line /\ pos' = next
    BY <2>1, <2>2, <2>4, <2>6, HereFacts
  <2> QED
    BY <2>6, <2>7, LaterIsShorter
<1>2. CASE FontTag
  <2>1. At(pos) = "<" /\ line' = line /\ GetTag(FALSE).name = "font" /\ pos' = GetTag(FALSE).next
    BY <1>2 DEF FontTag, InText
  <2>2. PICK next : next = GetTag(FALSE).next
    OBVIOUS
  <2>3. next \in pos .. Len(line) + 1 /\ next > pos + 1
    BY <2>1, <2>2, HereFacts, TagFacts
  <2>4. next \in pos + 1 .. Len(line) + 1
    BY <2>3, HereFacts
  <2>5. LineInv /\ line' = line /\ pos' = next
    BY <2>1, <2>2, <2>3, <2>4, HereFacts
  <2> QED
    BY <2>4, <2>5, LaterIsShorter
<1>3. CASE CloseTag
  <2> DEFINE end == After(GetTag(TRUE).next, {"blank"})
  <2>1. /\ At(pos) = "<" /\ line' = line /\ GetTag(TRUE).name # "none"
        /\ pos' = IF At(end) = ">" THEN end + 1 ELSE end
    BY <1>3 DEF CloseTag, ClosesTag, InText
  <2>2. PICK behind : behind = GetTag(TRUE).next
    OBVIOUS
  <2>3. behind \in pos .. Len(line) + 1 /\ behind > pos + 1
    BY <2>1, <2>2, HereFacts, TagFacts
  <2>4. end \in behind .. Len(line) + 1
    <3>1. behind \in 1 .. Len(line) + 1 /\ "end" \notin {"blank"}
      BY <2>3, HereFacts
    <3> QED
      BY <2>2, <3>1, HereFacts, AfterFacts
  <2> HIDE DEF end
  <2>5. PICK next : next = IF At(end) = ">" THEN end + 1 ELSE end
    OBVIOUS
  <2>6. next \in pos + 1 .. Len(line) + 1
    <3>1. At(end) = ">" => end \in 1 .. Len(line)
      BY HereFacts, TokenFacts
    <3> QED
      BY <2>3, <2>4, <2>5, <3>1, HereFacts
  <2>7. LineInv /\ line' = line /\ pos' = next
    BY <2>1, <2>5, <2>6, HereFacts
  <2> QED
    BY <2>6, <2>7, LaterIsShorter
<1> QED
  BY <1>1, <1>2, <1>3

LEMMA AttributesShorten == ParserInv /\ (FontAttribute \/ EndFontTag) => GetsShorter
<1> SUFFICES ASSUME ParserInv, FontAttribute \/ EndFontTag
             PROVE  Left' \in Nat /\ Left' < Left
  BY DEF GetsShorter
<1>1. CASE FontAttribute
  <2>1. Attribute.name # "none" /\ line' = line /\ pos' = Attribute.next
    BY <1>1 DEF FontAttribute
  <2>2. PICK next : next = Attribute.next
    OBVIOUS
  <2>3. next \in pos + 1 .. Len(line) + 1
    BY <2>1, <2>2, HereFacts, AttributeFacts
  <2>4. next \in pos + 1 .. Len(line) + 1
    BY <2>3, HereFacts
  <2>5. LineInv /\ line' = line /\ pos' = next
    BY <2>1, <2>2, <2>4, HereFacts
  <2> QED
    BY <2>4, <2>5, LaterIsShorter
<1>2. CASE EndFontTag
  <2>1. pc = "font" /\ pc' = "text" /\ line' = line /\ pos' = AfterTag(pos)
    BY <1>2 DEF EndFontTag
  <2>2. PICK next : next = AfterTag(pos)
    OBVIOUS
  <2>3. next \in pos .. Len(line) + 1
    BY <2>2, HereFacts, SkipFacts
  <2>4. LineInv /\ line' = line /\ pos' = next
    BY <2>1, <2>2, <2>3, HereFacts
  <2> QED
    BY <2>1, <2>3, <2>4, LeavingIsShorter
<1> QED
  BY <1>1, <1>2

LEMMA TextShortens == ParserInv /\ (MicroDvd \/ Copy \/ LineBreak) => GetsShorter
<1> SUFFICES ASSUME ParserInv, MicroDvd \/ Copy \/ LineBreak
             PROVE  Left' \in Nat /\ Left' < Left
  BY DEF GetsShorter
<1>1. CASE MicroDvd
  <2> DEFINE end == Until(pos + 3, "rbrace")
  <2>1. /\ At(pos + 2) = ":" /\ At(end) = "rbrace" /\ line' = line /\ pos' = end + 1
    BY <1>1 DEF MicroDvd, IsMicroDvd
  <2>2. pos + 3 \in 1 .. Len(line) + 1
    <3>1. pos + 2 \in 1 .. Len(line)
      BY <2>1, HereFacts, TokenFacts
    <3> QED
      BY <3>1, HereFacts
  <2>3. end \in pos + 3 .. Len(line) + 1
    BY <2>2, HereFacts, TokenFacts, UntilFacts
  <2> HIDE DEF end
  <2>4. end \in 1 .. Len(line)
    BY <2>1, HereFacts, TokenFacts
  <2>5. PICK next : next = end + 1
    OBVIOUS
  <2>6. next \in pos + 1 .. Len(line) + 1
    BY <2>3, <2>4, <2>5, HereFacts
  <2>7. LineInv /\ line' = line /\ pos' = next
    BY <2>1, <2>5, <2>6, HereFacts
  <2> QED
    BY <2>6, <2>7, LaterIsShorter
<1>2. CASE Copy \/ LineBreak
  <2>1. At(pos) # "end" /\ line' = line /\ pos' = pos + 1
    BY <1>2 DEF Copy, Literal, LineBreak
  <2>2. pos \in 1 .. Len(line)
    BY <2>1, HereFacts
  <2>3. PICK next : next = pos + 1
    OBVIOUS
  <2>4. next \in pos + 1 .. Len(line) + 1
    BY <2>2, <2>3, HereFacts
  <2>5. LineInv /\ line' = line /\ pos' = next
    BY <2>1, <2>3, <2>4, HereFacts
  <2> QED
    BY <2>4, <2>5, LaterIsShorter
<1> QED
  BY <1>1, <1>2

\* Every step of the parser ends the call or leaves less of the line to it, unless the line
\* has a closing tag without a name: no line without one can keep the loop going for ever
\* (Tools.cpp:297-513).
THEOREM LinesEnd == Spec => [][GetsShorter]_vars
<1>1. ASSUME ParserInv, Next
      PROVE  GetsShorter
  <2>1. CASE NamelessClose
    BY <1>1, <2>1, HereFacts, NamelessIsThere DEF GetsShorter
  <2>2. CASE HugeTag \/ SizeIsNoNumber \/ BraceAtEnd \/ Return
    <3>1. pc' \in {"aborted", "threw", "overrun", "done"}
      BY <2>2 DEF HugeTag, SizeIsNoNumber, BraceAtEnd, Return, Stop
    <3> QED
      BY <3>1 DEF GetsShorter, Parsing
  <2>3. CASE AttributeFault
    <3>1. pc' = Attribute.fault /\ Attribute.fault \in {"overrun", "aborted"}
      BY <1>1, <2>3, HereFacts, AttributeFacts DEF AttributeFault, Stop
    <3> QED
      BY <3>1 DEF GetsShorter, Parsing
  <2> QED
    BY <1>1, <2>1, <2>2, <2>3, TagsShorten, AttributesShorten, TextShortens DEF Next
<1>2. ParserInv /\ [Next]_vars => [GetsShorter]_vars
  BY <1>1
<1> QED
  BY <1>2, ParserInvariance, PTL DEF Spec

-----------------------------------------------------------------------------
(* The file.  The reader makes one pass and remembers nothing but the      *)
(* block it is in; the reference looks at the whole file.  What ties the   *)
(* two is that while a block is open no line since its time line was       *)
(* blank, and that while none is open every time line read has a blank     *)
(* line behind it.                                                         *)

BlockSet == [start : Nat, text : Seq(Nat)]

\* ParseSrtLine does not return.
Failed == {"stuck", "threw"}

FileTypes ==
  /\ opened \in BOOLEAN
  /\ terminated \in BOOLEAN
  /\ file \in Seq(Kinds)
  /\ read \in 0 .. Len(file)
  /\ eof \in BOOLEAN
  /\ fail \in BOOLEAN
  /\ loop \in {"outer", "inner", "done"} \cup Failed
  /\ block \in BlockSet
  /\ events \in Seq(BlockSet)

\* The stream can deliver another line.
Good == ~eof /\ ~fail

\* A stream that failed by itself was not opened or has met a line that is too
\* long; it never ends after that.
StreamInv ==
  /\ eof => read = Len(file)
  /\ eof \/ ~fail => opened /\ \A i \in 1 .. read : file[i] \notin LongKinds
  /\ loop = "done" => eof

NoBlank(i, j) == \A k \in i .. j : file[k] # "blank"

\* The block that is read has every line since its time line.
OpenBlock ==
  LET s == block.start IN
  /\ s \in BlockStarts
  /\ s <= read
  /\ NoBlank(s, read)
  /\ Len(block.text) = read - s
  /\ \A i \in 1 .. read - s : block.text[i] = s + i

\* While no block is read, another time line would start one.
NextTimeStarts ==
  \A j \in 1 .. read : file[j] \in TimeKinds => \E k \in j .. read : file[k] = "blank"

\* The block that starts at line i ends behind this line: the next one is blank, or
\* the stream stopped.
Ends(i, last) ==
  /\ i <= last /\ last <= read
  /\ NoBlank(i, last)
  /\ \A j \in i + 1 .. last : file[j] # "fatal"
  /\ \/ ~Good /\ last = read
     \/ last < read /\ file[last + 1] = "blank"

\* What the event that started at line i has of a text up to this line: all of it,
\* or the lines in front of the first one that does not fit.
Cut(i, text, last) ==
  LET length == Len(text) IN
  /\ i + length <= last
  /\ length <= Capacity
  /\ \A k \in 1 .. length : text[k] = i + k /\ file[i + k] # "wide"
  /\ i + length = last \/ length = Capacity \/ file[i + length + 1] = "wide"

Complete(event) ==
  \E last \in Nat : Ends(event.start, last) /\ Cut(event.start, event.text, last)

\* The blocks that started up to this line are events, but for the one that is read
\* or that ParseSrtLine failed in.
Done == IF loop \in {"inner"} \cup Failed THEN block.start - 1 ELSE read

EventsInv ==
  /\ {events[n].start : n \in 1 .. Len(events)} = {i \in BlockStarts : i <= Done}
  /\ \A n \in 1 .. Len(events) : Complete(events[n])
  /\ \A m, n \in 1 .. Len(events) : m < n => events[m].start < events[n].start

FileInv ==
  /\ FileTypes
  /\ StreamInv
  /\ loop = "inner" => OpenBlock
  /\ loop = "outer" /\ Good => NextTimeStarts
  /\ EventsInv
  /\ loop \in Failed => HasFatalText

-----------------------------------------------------------------------------
(* One line is read.                                                       *)

\* Either a good stream goes on by one line, whose content is in the buffer, or
\* nothing is read and the stream is not good any more.
LEMMA GetLineReads ==
  ASSUME FileTypes, StreamInv, GetLine, UNCHANGED fileVars
  PROVE  /\ read' \in 0 .. Len(file) /\ eof' \in BOOLEAN /\ fail' \in BOOLEAN
         /\ \/ /\ read' = read
               /\ ~Good'
               /\ inBuffer' = ""
            \/ /\ read' = read + 1
               /\ Good
               /\ file[read + 1] \in Kinds
               /\ inBuffer' = "" <=> file[read + 1] = "blank"
               /\ inBuffer' = "time" <=> file[read + 1] \in TimeKinds
<1>1. CASE ~Good
  BY <1>1 DEF Good, GetLine, FileTypes
<1>2. CASE Good /\ read = Len(file)
  BY <1>2 DEF Good, GetLine, FileTypes
<1>3. CASE Good /\ read # Len(file)
  <2>1. /\ read' = read + 1
        /\ inBuffer' = Content(file[read + 1])
        /\ fail' = (file[read + 1] \in LongKinds)
        /\ eof' = (EndsAtUnterminatedLine /\ file[read + 1] \notin LongKinds)
    BY <1>3 DEF Good, GetLine
  <2>2. read + 1 \in 1 .. Len(file) /\ file[read + 1] \in Kinds
    BY <1>3 DEF FileTypes
  <2>3. /\ Content(file[read + 1]) = "" <=> file[read + 1] = "blank"
        /\ Content(file[read + 1]) = "time" <=> file[read + 1] \in TimeKinds
    BY <2>2 DEF Content, Kinds, TimeKinds, LongKinds
  <2>4. fail' \in BOOLEAN /\ eof' \in BOOLEAN
    BY <2>1 DEF EndsAtUnterminatedLine, FileTypes
  <2>5. read + 1 \in 0 .. Len(file)
    BY <2>2 DEF FileTypes
  <2> QED
    BY <1>3, <2>1, <2>2, <2>3, <2>4, <2>5, Zenon
<1> QED
  BY <1>1, <1>2, <1>3

LEMMA GetLineKeepsStream ==
  ASSUME FileTypes, StreamInv, GetLine, UNCHANGED fileVars, loop' # "done"
  PROVE  StreamInv'
<1>1. opened' = opened /\ file' = file
  BY DEF fileVars
<1>2. CASE ~Good
  BY <1>1, <1>2 DEF Good, GetLine, FileTypes, StreamInv
<1>3. CASE Good /\ read = Len(file)
  BY <1>1, <1>3 DEF Good, GetLine, FileTypes, StreamInv
<1>4. CASE Good /\ read # Len(file)
  <2>1. /\ read' = read + 1
        /\ fail' = (file[read + 1] \in LongKinds)
        /\ eof' = (EndsAtUnterminatedLine /\ file[read + 1] \notin LongKinds)
    BY <1>4 DEF Good, GetLine
  <2>2. eof' => read' = Len(file)
    BY <2>1 DEF EndsAtUnterminatedLine
  <2>3. ASSUME eof' \/ ~fail', NEW i \in 1 .. read'
        PROVE  file[i] \notin LongKinds
    <3>1. CASE i = read + 1
      BY <2>1, <2>3, <3>1, Zenon
    <3>2. CASE i # read + 1
      <4>1. i \in 1 .. read
        BY <2>1, <3>2 DEF FileTypes
      <4> QED
        BY <1>4, <4>1 DEF Good, StreamInv
    <3> QED
      BY <3>1, <3>2
  <2> QED
    BY <1>1, <1>4, <2>2, <2>3 DEF Good, StreamInv
<1> QED
  BY <1>2, <1>3, <1>4

-----------------------------------------------------------------------------
(* Events that are complete stay so.                                       *)

LEMMA CompleteKept ==
  ASSUME FileTypes, file' = file, NEW event \in BlockSet, Complete(event),
         \/ read' = read /\ (~Good => ~Good')
         \/ read' = read + 1 /\ Good
  PROVE  Complete(event)'
<1>1. PICK last \in Nat : Ends(event.start, last) /\ Cut(event.start, event.text, last)
  BY DEF Complete
<1>2. event.start \in Nat /\ read \in Nat
  BY DEF BlockSet, FileTypes
<1>3. Ends(event.start, last)'
  BY <1>1, <1>2 DEF Ends, NoBlank
<1>4. Cut(event.start, event.text, last)'
  BY <1>1 DEF Cut
<1> QED
  BY <1>3, <1>4 DEF Complete

LEMMA EventTypes ==
  ASSUME FileTypes
  PROVE  /\ Len(events) \in Nat
         /\ \A n \in 1 .. Len(events) : events[n] \in BlockSet /\ events[n].start \in Nat
         /\ block.start \in Nat /\ block.text \in Seq(Nat) /\ Len(block.text) \in Nat
         /\ read \in Nat /\ Len(file) \in Nat /\ \A i \in 1 .. Len(file) : file[i] \in Kinds
<1>1. /\ Len(events) \in Nat
      /\ \A n \in 1 .. Len(events) : events[n] \in BlockSet
      /\ block \in BlockSet
      /\ read \in Nat /\ Len(file) \in Nat /\ \A i \in 1 .. Len(file) : file[i] \in Kinds
  BY DEF FileTypes
<1>2. \A b \in BlockSet : b.start \in Nat /\ b.text \in Seq(Nat) /\ Len(b.text) \in Nat
  BY DEF BlockSet
<1> QED
  BY <1>1, <1>2, Zenon

\* A step that ends no block and starts none.
LEMMA EventsKept ==
  ASSUME FileTypes, EventsInv, UNCHANGED <<fileVars, events>>,
         \/ read' = read /\ (~Good => ~Good')
         \/ read' = read + 1 /\ Good,
         {i \in BlockStarts : i <= Done} = {i \in BlockStarts : i <= Done'}
  PROVE  EventsInv'
<1>1. file' = file /\ events' = events /\ BlockStarts' = BlockStarts
  BY DEF fileVars, BlockStarts
<1>2. ASSUME NEW n \in 1 .. Len(events)
      PROVE  Complete(events[n])'
  BY <1>1, EventTypes, CompleteKept DEF EventsInv
<1> QED
  BY <1>1, <1>2 DEF EventsInv

\* No other block starts in the one that is read.
LEMMA NoStartInside ==
  ASSUME FileTypes, OpenBlock, NEW i \in BlockStarts, i <= read
  PROVE  i <= block.start
<1> DEFINE s == block.start
<1>1. /\ s \in 1 .. Len(file) /\ s \in Nat /\ read \in Nat
      /\ file[s] \in TimeKinds /\ NoBlank(s, read)
  BY EventTypes DEF OpenBlock, BlockStarts
<1>2. /\ i \in 1 .. Len(file)
      /\ \A j \in 1 .. i - 1 :
           file[j] \in TimeKinds => \E k \in j .. i : file[k] = "blank"
  BY DEF BlockStarts
<1>3. CASE i > s
  <2>1. s \in 1 .. i - 1
    BY <1>1, <1>2, <1>3
  <2>2. PICK k \in s .. i : file[k] = "blank"
    BY <1>1, <1>2, <2>1
  <2>3. k \in s .. read
    BY <1>1, <1>2
  <2> QED
    BY <1>1, <2>2, <2>3 DEF NoBlank
<1> QED
  BY <1>1, <1>2, <1>3

\* How many of m lines fit when some are wide.
LEMMA LinesThatFit ==
  ASSUME NEW m \in Nat, NEW wide
  PROVE  LET whole == {n \in 0 .. m : n <= Capacity /\ \A i \in 1 .. n : i \notin wide} IN
         \E n \in 0 .. m :
           /\ n = Max(whole)
           /\ n <= Capacity /\ \A i \in 1 .. n : i \notin wide
           /\ n = m \/ n = Capacity \/ n + 1 \in wide
<1> DEFINE whole == {n \in 0 .. m : n <= Capacity /\ \A i \in 1 .. n : i \notin wide}
<1>1. whole \subseteq 0 .. m
  OBVIOUS
<1>2. 0 \in whole
  BY FileAssumption
<1>3. PICK n \in whole : n = Max(whole) /\ \A k \in whole : k <= n
  <2> HIDE DEF whole
  <2> QED
    BY <1>1, <1>2, MaxIn
<1>4. n \in 0 .. m /\ n <= Capacity /\ \A i \in 1 .. n : i \notin wide
  OBVIOUS
<1>5. n = m \/ n = Capacity \/ n + 1 \in wide
  <2> SUFFICES ASSUME n # m, n # Capacity, n + 1 \notin wide
               PROVE  n + 1 \in whole
    BY <1>3, <1>4
  <2>1. n + 1 \in 0 .. m /\ n + 1 <= Capacity
    BY <1>4, FileAssumption
  <2>2. \A i \in 1 .. n + 1 : i \notin wide
    BY <1>4
  <2> QED
    BY <2>1, <2>2
<1> HIDE DEF whole
<1>6. n = Max(whole)
  BY <1>3
<1> QED
  BY <1>4, <1>5, <1>6 DEF whole

\* The event of a block has its lines up to the first one that does not fit.
LEMMA WrittenIs ==
  ASSUME FileTypes, OpenBlock
  PROVE  /\ Written \in BlockSet
         /\ Written.start = block.start
         /\ Cut(block.start, Written.text, read)
<1>1. PICK s \in Nat : s = block.start
  BY EventTypes
<1>2. PICK text \in Seq(Nat) : text = block.text
  BY EventTypes
<1>3. PICK m \in Nat : m = Len(text)
  OBVIOUS
<1>4. s + m = read /\ \A i \in 1 .. m : text[i] = s + i
  <2>1. Len(block.text) = read - block.start /\ read \in Nat
        /\ \A i \in 1 .. read - block.start : block.text[i] = block.start + i
    BY EventTypes DEF OpenBlock
  <2> QED
    BY <1>1, <1>2, <1>3, <2>1
<1> DEFINE wide == {i \in 1 .. m : file[text[i]] = "wide"}
           whole == {n \in 0 .. m : n <= Capacity /\ \A i \in 1 .. n : i \notin wide}
<1>5. PICK n \in 0 .. m :
        /\ n = Max(whole)
        /\ n <= Capacity /\ \A i \in 1 .. n : i \notin wide
        /\ n = m \/ n = Capacity \/ n + 1 \in wide
  <2> HIDE DEF wide
  <2> QED
    BY LinesThatFit
<1>6. whole = {k \in 0 .. Len(block.text) :
                 /\ k <= Capacity
                 /\ \A i \in 1 .. k : file[block.text[i]] # "wide"}
  <2>1. ASSUME NEW k \in 0 .. m
        PROVE  (\A i \in 1 .. k : i \notin wide) <=> \A i \in 1 .. k : file[text[i]] # "wide"
    OBVIOUS
  <2> HIDE DEF wide
  <2> QED
    BY <1>2, <1>3, <2>1
<1>7. Written = [start |-> s, text |-> SubSeq(text, 1, n)]
  <2>1. block = [start |-> s, text |-> text]
    BY <1>1, <1>2 DEF FileTypes, BlockSet
  <2>2. Written = [block EXCEPT !.text = SubSeq(@, 1, Max(whole))]
    BY <1>6, Zenon DEF Written
  <2> HIDE DEF whole
  <2> QED
    BY <1>5, <2>1, <2>2
<1>8. /\ \A i \in 1 .. n : text[i] = s + i /\ file[s + i] # "wide"
      /\ n = m \/ n = Capacity \/ file[s + n + 1] = "wide"
  <2>1. \A i \in 1 .. n : file[text[i]] # "wide"
    BY <1>5
  <2>2. n + 1 \in wide => n + 1 \in 1 .. m /\ file[text[n + 1]] = "wide"
    OBVIOUS
  <2>3. n + 1 \in 1 .. m => text[n + 1] = s + n + 1
    BY <1>4
  <2>4. \A i \in 1 .. n : text[i] = s + i /\ file[s + i] # "wide"
    <3> TAKE i \in 1 .. n
    <3>1. text[i] = s + i
      BY <1>4
    <3> QED
      BY <2>1, <3>1
  <2>5. n = m \/ n = Capacity \/ file[s + n + 1] = "wide"
    BY <1>5, <2>2, <2>3, Zenon
  <2> QED
    BY <2>4, <2>5
<1>9. /\ SubSeq(text, 1, n) \in Seq(Nat)
      /\ Len(SubSeq(text, 1, n)) = n
      /\ \A i \in 1 .. n : SubSeq(text, 1, n)[i] = text[i]
  BY <1>3, <1>4
<1>10. Written.start = s /\ Written.text = SubSeq(text, 1, n)
  BY <1>7
<1>11. Written \in BlockSet
  BY <1>7, <1>9 DEF BlockSet
<1>12. Cut(s, SubSeq(text, 1, n), read)
  <2>1. s + n <= read /\ (n = m => s + n = read)
    BY <1>4
  <2>2. n <= Capacity
    BY <1>5
  <2>3. PICK t \in Seq(Nat) : t = SubSeq(text, 1, n)
    BY <1>9
  <2>4. Len(t) = n /\ \A i \in 1 .. n : t[i] = s + i
    BY <1>8, <1>9, <2>3
  <2>5. Cut(s, t, read)
    BY <1>8, <2>1, <2>2, <2>4 DEF Cut
  <2> QED
    BY <2>3, <2>5
<1> QED
  BY <1>1, <1>10, <1>11, <1>12

\* Whether a line makes ParseSrtLine fail is asked of each line of the block.
LEMMA FatalLines ==
  ASSUME FileTypes, OpenBlock
  PROVE  HasFatalLine <=> \E j \in block.start + 1 .. read : file[j] = "fatal"
<1> DEFINE s == block.start
           m == Len(block.text)
<1>1. /\ s \in Nat /\ m \in Nat /\ s + m = read /\ read \in Nat
      /\ \A i \in 1 .. m : block.text[i] = s + i
  BY EventTypes DEF OpenBlock
<1>2. ASSUME NEW i \in 1 .. m, file[block.text[i]] = "fatal"
      PROVE  \E j \in s + 1 .. read : file[j] = "fatal"
  <2>1. s + i \in s + 1 .. read /\ block.text[i] = s + i
    BY <1>1
  <2> QED
    BY <1>2, <2>1
<1>3. ASSUME NEW j \in s + 1 .. read, file[j] = "fatal"
      PROVE  \E i \in 1 .. m : file[block.text[i]] = "fatal"
  <2>1. j - s \in 1 .. m /\ block.text[j - s] = j
    BY <1>1
  <2> QED
    BY <1>3, <2>1
<1> QED
  BY <1>2, <1>3 DEF HasFatalLine

-----------------------------------------------------------------------------
(* The inductive invariant, one lemma per operation.                       *)

LEMMA InitFile == FileInit => FileInv
<1> SUFFICES ASSUME FileInit
             PROVE  FileInv
  OBVIOUS
<1>1. /\ read = 0 /\ eof = FALSE /\ fail = ~opened /\ loop = "outer" /\ events = <<>>
      /\ opened \in BOOLEAN /\ terminated \in BOOLEAN
  BY DEF FileInit
<1>2. file \in Seq(Kinds)
  <2>1. PICK m \in 0 .. MaxLines : file \in [1 .. m -> Kinds]
    BY FileAssumption DEF FileInit, SeqOf
  <2> QED
    BY <2>1, FileAssumption
<1>3. block \in BlockSet
  <2>1. block = [start |-> 0, text |-> <<>>]
    BY DEF FileInit
  <2>2. 0 \in Nat /\ <<>> \in Seq(Nat)
    OBVIOUS
  <2> QED
    BY <2>1, <2>2, Zenon DEF BlockSet
<1>4. FileTypes
  <2>1. read \in 0 .. Len(file) /\ events \in Seq(BlockSet)
    BY <1>1, <1>2
  <2>2. eof \in BOOLEAN /\ fail \in BOOLEAN
    BY <1>1, Zenon
  <2> QED
    BY <1>1, <1>2, <1>3, <2>1, <2>2, Zenon DEF FileTypes
<1>5. StreamInv
  <2>1. ~fail => opened
    BY <1>1, Zenon
  <2> QED
    BY <1>1, <2>1 DEF StreamInv
<1>6. EventsInv
  <2>1. {i \in BlockStarts : i <= Done} = {}
    BY <1>1 DEF BlockStarts, Done, Failed
  <2> QED
    BY <1>1, <2>1 DEF EventsInv
<1>7. NextTimeStarts
  BY <1>1 DEF NextTimeStarts
<1> QED
  BY <1>1, <1>4, <1>5, <1>6, <1>7 DEF FileInv, Failed

LEMMA EndOfFileKeeps == FileInv /\ EndOfFile => FileInv'
<1> SUFFICES ASSUME FileInv, EndOfFile
             PROVE  FileInv'
  OBVIOUS
<1>1. /\ loop = "outer" /\ eof /\ loop' = "done"
      /\ UNCHANGED <<fileVars, streamVars, block, events>>
      /\ UNCHANGED <<opened, file, terminated, read, eof, fail>>
  BY DEF EndOfFile, fileVars, streamVars
<1>2. FileTypes'
  BY <1>1 DEF FileInv, FileTypes
<1>3. StreamInv'
  BY <1>1 DEF FileInv, StreamInv
<1>4. EventsInv'
  <2>1. Done' = Done
    BY <1>1 DEF Done, Failed
  <2> QED
    BY <1>1, <2>1, EventsKept DEF FileInv, Good
<1> QED
  BY <1>1, <1>2, <1>3, <1>4 DEF FileInv, Failed

LEMMA SkipLineKeeps == FileInv /\ SkipLine => FileInv'
<1> SUFFICES ASSUME FileInv, SkipLine
             PROVE  FileInv'
  OBVIOUS
<1>1. /\ loop = "outer" /\ loop' = loop /\ GetLine /\ inBuffer' # "time"
      /\ UNCHANGED <<fileVars, block, events>>
      /\ UNCHANGED <<opened, file, terminated, block, events>>
  BY DEF SkipLine, fileVars
<1>2. FileTypes'
  BY <1>1, GetLineReads DEF FileInv, FileTypes
<1>3. StreamInv'
  BY <1>1, GetLineKeepsStream DEF FileInv
<1>4. \/ read' = read /\ ~Good'
      \/ read' = read + 1 /\ Good /\ file[read + 1] \notin TimeKinds
  BY <1>1, GetLineReads DEF FileInv
<1>5. EventsInv'
  <2>1. {i \in BlockStarts : i <= Done} = {i \in BlockStarts : i <= Done'}
    BY <1>1, <1>4, EventTypes DEF FileInv, Done, Failed, BlockStarts
  <2> QED
    BY <1>1, <1>4, <2>1, EventsKept DEF FileInv
<1>6. ASSUME Good'
      PROVE  NextTimeStarts'
  <2>1. read' = read + 1 /\ NextTimeStarts /\ file[read + 1] \notin TimeKinds /\ read \in Nat
    BY <1>1, <1>4, <1>6, EventTypes DEF FileInv
  <2> QED
    BY <1>1, <2>1 DEF NextTimeStarts
<1> QED
  BY <1>1, <1>2, <1>3, <1>5, <1>6 DEF FileInv, Failed

LEMMA TimeLineKeeps == FileInv /\ TimeLine => FileInv'
<1> SUFFICES ASSUME FileInv, TimeLine
             PROVE  FileInv'
  OBVIOUS
<1>1. /\ loop = "outer" /\ loop' = "inner" /\ GetLine /\ inBuffer' = "time"
      /\ block' = [start |-> read', text |-> <<>>]
      /\ UNCHANGED <<fileVars, events>>
      /\ UNCHANGED <<opened, file, terminated, events>>
  BY DEF TimeLine, fileVars
<1>2. /\ read' = read + 1 /\ Good /\ file[read + 1] \in TimeKinds /\ file[read + 1] # "blank"
      /\ read' \in 0 .. Len(file) /\ read' \in Nat /\ read \in Nat
  BY <1>1, GetLineReads, EventTypes DEF FileInv, TimeKinds
<1>3. block'.start = read' /\ block'.text = <<>>
  BY <1>1
<1>4. FileTypes'
  <2>1. block' \in BlockSet
    <3>1. <<>> \in Seq(Nat)
      OBVIOUS
    <3> QED
      BY <1>1, <1>2, <3>1, Zenon DEF BlockSet
  <2> QED
    BY <1>1, <2>1, GetLineReads DEF FileInv, FileTypes
<1>5. StreamInv'
  BY <1>1, GetLineKeepsStream DEF FileInv
<1>6. OpenBlock'
  <2>1. read' \in BlockStarts'
    BY <1>1, <1>2 DEF FileInv, NextTimeStarts, BlockStarts
  <2> QED
    BY <1>1, <1>2, <1>3, <2>1 DEF OpenBlock, NoBlank
<1>7. EventsInv'
  <2>1. Done' = Done
    BY <1>1, <1>2, <1>3 DEF Done, Failed
  <2> QED
    BY <1>1, <1>2, <2>1, EventsKept DEF FileInv
<1> QED
  BY <1>1, <1>4, <1>5, <1>6, <1>7 DEF FileInv, Failed

LEMMA TextLineKeeps == FileInv /\ TextLine => FileInv'
<1> SUFFICES ASSUME FileInv, TextLine
             PROVE  FileInv'
  OBVIOUS
<1>1. /\ loop = "inner" /\ loop' = loop /\ GetLine
      /\ block' = [block EXCEPT !.text = Append(@, read')]
      /\ UNCHANGED <<fileVars, events>>
      /\ UNCHANGED <<opened, file, terminated, events>>
  BY DEF TextLine, fileVars
<1>2. /\ read' = read + 1 /\ Good /\ file[read + 1] # "blank"
      /\ read' \in 0 .. Len(file) /\ read' \in Nat /\ read \in Nat
  <2>1. FileTypes /\ StreamInv
    BY DEF FileInv
  <2>2. UNCHANGED fileVars
    BY <1>1
  <2>3. /\ read' = read + 1 /\ Good /\ file[read + 1] # "blank"
        /\ read' \in 0 .. Len(file)
    BY <1>1, <2>1, <2>2, GetLineReads, Zenon DEF TextLine
  <2> QED
    BY <2>1, <2>3, EventTypes
<1>3. /\ block'.start = block.start
      /\ block'.text = Append(block.text, read')
      /\ block' = [start |-> block.start, text |-> Append(block.text, read')]
  <2>1. block \in BlockSet
    BY DEF FileInv, FileTypes
  <2> QED
    BY <1>1, <2>1 DEF BlockSet
<1>4. /\ block.start \in Nat /\ block.text \in Seq(Nat)
      /\ Append(block.text, read') \in Seq(Nat)
      /\ Len(block'.text) = Len(block.text) + 1
      /\ \A i \in 1 .. Len(block.text) : block'.text[i] = block.text[i]
      /\ block'.text[Len(block.text) + 1] = read'
  BY <1>2, <1>3, EventTypes DEF FileInv
<1>5. FileTypes'
  <2>1. block' \in BlockSet
    BY <1>3, <1>4, Zenon DEF BlockSet
  <2> QED
    BY <1>1, <2>1, GetLineReads DEF FileInv, FileTypes
<1>6. StreamInv'
  BY <1>1, GetLineKeepsStream DEF FileInv
<1>7. OpenBlock'
  <2>1. /\ block.start \in BlockStarts /\ block.start <= read /\ NoBlank(block.start, read)
        /\ Len(block.text) = read - block.start
        /\ \A i \in 1 .. read - block.start : block.text[i] = block.start + i
    BY <1>1 DEF FileInv, OpenBlock
  <2>2. block'.start \in BlockStarts'
    BY <1>1, <1>3, <2>1 DEF BlockStarts
  <2>3. NoBlank(block.start, read)'
    BY <1>1, <1>2, <1>3, <1>4, <2>1 DEF NoBlank
  <2>4. \A i \in 1 .. read' - block'.start : block'.text[i] = block'.start + i
    <3>1. /\ read' - block'.start = Len(block.text) + 1
          /\ block.start + (Len(block.text) + 1) = read'
          /\ Len(block.text) \in Nat
      BY <1>2, <1>3, <1>4, <2>1
    <3>2. ASSUME NEW i \in 1 .. Len(block.text) + 1
          PROVE  block'.text[i] = block.start + i
      <4>1. CASE i = Len(block.text) + 1
        BY <1>4, <3>1, <4>1
      <4>2. CASE i # Len(block.text) + 1
        <5>1. i \in 1 .. Len(block.text)
          BY <3>1, <3>2, <4>2
        <5>2. Len(block.text) = read - block.start
          BY <2>1
        <5> QED
          BY <1>4, <2>1, <5>1, <5>2, Zenon
      <4> QED
        BY <4>1, <4>2
    <3> QED
      BY <1>3, <3>1, <3>2, Zenon
  <2> QED
    BY <1>2, <1>3, <1>4, <2>1, <2>2, <2>3, <2>4 DEF OpenBlock
<1>8. EventsInv'
  <2>1. Done' = Done
    BY <1>1, <1>3 DEF Done, Failed
  <2> QED
    BY <1>1, <1>2, <2>1, EventsKept DEF FileInv
<1> QED
  BY <1>1, <1>5, <1>6, <1>7, <1>8 DEF FileInv, Failed

LEMMA EndBlockKeeps == FileInv /\ EndBlock => FileInv'
<1> SUFFICES ASSUME FileInv, EndBlock
             PROVE  FileInv'
  OBVIOUS
<1> DEFINE s == block.start
<1>1. /\ loop = "inner" /\ loop' = "outer" /\ GetLine /\ ~HasFatalLine
      /\ events' = Append(events, Written)
      /\ UNCHANGED <<fileVars, block>>
      /\ UNCHANGED <<opened, file, terminated, block>>
  BY DEF EndBlock, fileVars
<1>2. \/ read' = read /\ ~Good'
      \/ read' = read + 1 /\ Good /\ file[read + 1] = "blank" /\ read + 1 \in 1 .. Len(file)
  <2>1. FileTypes /\ StreamInv
    BY DEF FileInv
  <2>2. UNCHANGED fileVars
    BY <1>1
  <2>3. /\ read' \in 0 .. Len(file)
        /\ \/ read' = read /\ ~Good'
           \/ read' = read + 1 /\ Good /\ file[read + 1] = "blank"
    BY <1>1, <2>1, <2>2, GetLineReads, Zenon DEF EndBlock
  <2> QED
    BY <2>1, <2>3, EventTypes
<1>3. /\ s \in Nat /\ Len(block.text) \in Nat /\ block \in BlockSet /\ events \in Seq(BlockSet)
      /\ read \in Nat
  BY EventTypes DEF FileInv, FileTypes
<1>4. /\ s \in BlockStarts /\ s <= read /\ NoBlank(s, read)
      /\ Len(block.text) = read - s
      /\ \A i \in 1 .. read - s : block.text[i] = s + i
  BY <1>1 DEF FileInv, OpenBlock
<1>9. PICK e \in BlockSet : e = Written /\ e.start = s /\ Cut(s, e.text, read)
  BY <1>1, WrittenIs DEF FileInv
<1>5. FileTypes'
  <2>1. events' \in Seq(BlockSet)
    BY <1>1, <1>3, <1>9
  <2> QED
    BY <1>1, <2>1, GetLineReads DEF FileInv, FileTypes
<1>6. StreamInv'
  BY <1>1, GetLineKeepsStream DEF FileInv
<1>7. ASSUME Good'
      PROVE  NextTimeStarts'
  <2>1. read' = read + 1 /\ file'[read'] = "blank"
    BY <1>1, <1>2, <1>7
  <2> QED
    BY <1>3, <2>1 DEF NextTimeStarts
<1>8. EventsInv'
  <2>1. /\ Len(events) \in Nat /\ Len(events') = Len(events) + 1
        /\ \A n \in 1 .. Len(events) : events'[n] = events[n]
        /\ events'[Len(events) + 1] = e
    BY <1>1, <1>3, <1>9
  <2>2. /\ {events[n].start : n \in 1 .. Len(events)} = {i \in BlockStarts : i <= s - 1}
        /\ \A n \in 1 .. Len(events) : Complete(events[n])
        /\ \A m, n \in 1 .. Len(events) : m < n => events[m].start < events[n].start
    BY <1>1 DEF FileInv, EventsInv, Done, Failed
  <2>3. {events'[n].start : n \in 1 .. Len(events')} = {i \in BlockStarts : i <= s - 1} \cup {s}
    BY <1>9, <2>1, <2>2
  <2>4. {i \in BlockStarts : i <= read'} = {i \in BlockStarts : i <= s - 1} \cup {s}
    <3>1. ASSUME NEW i \in BlockStarts, i <= read'
          PROVE  i <= read
      BY <1>2, <1>3, <3>1 DEF BlockStarts, TimeKinds
    <3>2. ASSUME NEW i \in BlockStarts, i <= read'
          PROVE  i <= s - 1 \/ i = s
      <4>1. i \in Nat /\ i <= s
        BY <1>1, <3>1, <3>2, NoStartInside DEF FileInv, BlockStarts
      <4> QED
        BY <1>3, <4>1
    <3>3. s <= read' /\ \A i \in BlockStarts : i \in Nat /\ (i <= s - 1 => i <= read')
      BY <1>2, <1>3, <1>4 DEF BlockStarts
    <3> QED
      BY <1>4, <3>2, <3>3
  <2>5. Complete(e)'
    <3>1. PICK last \in Nat : last = read
      BY <1>3
    <3>2. PICK i \in Nat : i = e.start
      BY <1>3, <1>9
    <3>3. i = s /\ i <= last /\ last <= read'
      BY <1>2, <1>3, <1>4, <1>9, <3>1, <3>2
    <3>4. \A k \in i .. last : file'[k] # "blank"
      BY <1>1, <1>4, <3>1, <3>3 DEF NoBlank
    <3>5. \A j \in i + 1 .. last : file'[j] # "fatal"
      BY <1>1, <3>1, <3>3, FatalLines DEF FileInv
    <3>6. \/ ~Good' /\ last = read'
          \/ last < read' /\ file'[last + 1] = "blank"
      BY <1>1, <1>2, <1>3, <3>1
    <3> HIDE DEF s
    <3>7. Ends(i, last)'
      BY <3>3, <3>4, <3>5, <3>6 DEF Ends, NoBlank
    <3>8. Cut(i, e.text, last)'
      <4>1. Cut(i, e.text, last)
        BY <1>9, <3>1, <3>3
      <4>2. file' = file
        BY <1>1
      <4> QED
        BY <4>1, <4>2 DEF Cut
    <3> QED
      BY <3>2, <3>7, <3>8 DEF Complete
  <2>6. ASSUME NEW n \in 1 .. Len(events)
        PROVE  Complete(events[n])'
    <3>1. events[n] \in BlockSet /\ Complete(events[n])
      BY <1>3, <2>2
    <3>2. ASSUME NEW event \in BlockSet, Complete(event)
          PROVE  Complete(event)'
      BY <1>1, <1>2, <3>2, CompleteKept DEF FileInv
    <3> QED
      BY <2>1, <3>1, <3>2
  <2>7. ASSUME NEW n \in 1 .. Len(events)
        PROVE  events'[n].start < s
    <3>1. events[n].start \in {i \in BlockStarts : i <= s - 1}
      BY <2>2
    <3> QED
      BY <1>3, <2>1, <3>1 DEF BlockStarts
  <2>8. BlockStarts' = BlockStarts /\ Done' = read'
    BY <1>1 DEF BlockStarts, Done, Failed
  <2> QED
    BY <1>9, <2>1, <2>2, <2>3, <2>4, <2>5, <2>6, <2>7, <2>8 DEF EventsInv
<1> QED
  BY <1>1, <1>5, <1>6, <1>7, <1>8 DEF FileInv, Failed

LEMMA ParseFailsKeeps == FileInv /\ ParseFails => FileInv'
<1> SUFFICES ASSUME FileInv, ParseFails
             PROVE  FileInv'
  OBVIOUS
<1> DEFINE s == block.start
<1>1. /\ loop = "inner" /\ loop' \in Failed /\ GetLine /\ HasFatalLine
      /\ loop' \notin {"outer", "inner", "done"}
      /\ UNCHANGED <<fileVars, events>>
      /\ UNCHANGED <<opened, file, terminated, block, events>>
  BY DEF ParseFails, fileVars, Failed
<1>2. \/ read' = read /\ ~Good'
      \/ read' = read + 1 /\ Good
  BY <1>1, GetLineReads DEF FileInv
<1>3. FileTypes'
  BY <1>1, GetLineReads DEF FileInv, FileTypes
<1>4. StreamInv'
  BY <1>1, GetLineKeepsStream DEF FileInv
<1>5. EventsInv'
  <2>1. Done' = Done
    BY <1>1 DEF Done
  <2> QED
    BY <1>1, <1>2, <2>1, EventsKept DEF FileInv
<1>6. HasFatalText
  <2>1. PICK j \in s + 1 .. read : file[j] = "fatal"
    BY <1>1, FatalLines DEF FileInv
  <2>2. /\ s \in BlockStarts /\ s \in Nat /\ \A k \in s .. read : file[k] # "blank"
        /\ read \in 0 .. Len(file)
    BY <1>1, EventTypes DEF FileInv, FileTypes, OpenBlock, NoBlank
  <2>3. j \in TextOf(s, Len(file))
    BY <2>1, <2>2 DEF TextOf
  <2> QED
    BY <2>1, <2>2, <2>3 DEF HasFatalText
<1>7. HasFatalText'
  BY <1>1, <1>6 DEF HasFatalText, BlockStarts, TextOf
<1> QED
  BY <1>1, <1>3, <1>4, <1>5, <1>7 DEF FileInv

LEMMA FileStep == FileInv /\ [FileNext]_readerVars => FileInv'
<1> SUFFICES ASSUME FileInv, [FileNext]_readerVars
             PROVE  FileInv'
  OBVIOUS
<1>1. CASE UNCHANGED readerVars
  <2>1. UNCHANGED <<opened, file, terminated, read, eof, fail, loop, block, events>>
    BY <1>1 DEF readerVars, fileVars, streamVars
  <2>2. FileTypes' /\ StreamInv' /\ (Good' <=> Good) /\ BlockStarts' = BlockStarts
        /\ Done' = Done
    BY <2>1 DEF FileInv, FileTypes, StreamInv, Good, BlockStarts, Done
  <2>3. EventsInv'
    <3>1. UNCHANGED <<fileVars, events>>
      BY <2>1 DEF fileVars
    <3> QED
      BY <2>1, <2>2, <3>1, EventsKept DEF FileInv
  <2>4. /\ loop' = "inner" => OpenBlock'
        /\ loop' = "outer" /\ Good' => NextTimeStarts'
    BY <2>1, <2>2 DEF FileInv, OpenBlock, NoBlank, NextTimeStarts
  <2>5. HasFatalText' <=> HasFatalText
    BY <2>1 DEF HasFatalText, BlockStarts, TextOf
  <2> QED
    BY <2>1, <2>2, <2>3, <2>4, <2>5 DEF FileInv
<1> QED
  BY <1>1, EndOfFileKeeps, SkipLineKeeps, TimeLineKeeps, TextLineKeeps, EndBlockKeeps,
     ParseFailsKeeps DEF FileNext

\* Whatever the file, the reader knows the block it is in, and every block it has left
\* is an event with its lines up to the first one that does not fit, unless
\* ParseSrtLine fails in it (Tools.cpp:587-624).
THEOREM FileInvariance == FileSpec => []FileInv
BY InitFile, FileStep, PTL DEF FileSpec

-----------------------------------------------------------------------------
(* What follows from the invariant.                                        *)

\* Where a block ends, so does what the reference counts to it.
LEMMA EndsWithText ==
  ASSUME FileTypes, NEW i \in Nat, NEW last \in Nat, Ends(i, last)
  PROVE  TextOf(i, read) = i + 1 .. last
<1>1. read \in Nat /\ i <= last /\ last <= read
  BY EventTypes DEF Ends
<1>2. \A k \in i .. last : file[k] # "blank"
  BY DEF Ends, NoBlank
<1>3. ASSUME NEW j \in i + 1 .. last
      PROVE  j \in TextOf(i, read)
  BY <1>1, <1>2 DEF TextOf
<1>4. ASSUME NEW j \in TextOf(i, read)
      PROVE  j \in i + 1 .. last
  <2>1. j \in i + 1 .. read /\ \A k \in i .. j : file[k] # "blank"
    BY DEF TextOf
  <2>2. CASE j > last
    <3>1. last + 1 \in i .. j /\ last # read
      BY <1>1, <2>1, <2>2
    <3> QED
      BY <2>1, <3>1 DEF Ends
  <2> QED
    BY <1>1, <2>1, <2>2
<1> QED
  BY <1>3, <1>4

\* The lines of a complete event are those of its block that fit.
LEMMA CompleteIsFitting ==
  ASSUME FileTypes, NEW event \in BlockSet, Complete(event), event.start \in BlockStarts
  PROVE  LET kept == Fitting(event.start, TextOf(event.start, read)) IN
         ToSet(event.text) = kept /\ Len(event.text) = Cardinality(kept)
<1> DEFINE s == event.start
           length == Len(event.text)
<1>1. PICK last \in Nat : Ends(s, last) /\ Cut(s, event.text, last)
  BY DEF Complete
<1>2. s \in Nat /\ length \in Nat /\ DOMAIN event.text = 1 .. length
  BY EventTypes DEF BlockSet
<1>3. /\ s + length <= last /\ length <= Capacity
      /\ \A k \in 1 .. length : event.text[k] = s + k /\ file[s + k] # "wide"
      /\ s + length = last \/ length = Capacity \/ file[s + length + 1] = "wide"
  BY <1>1 DEF Cut
<1>4. TextOf(s, read) = s + 1 .. last
  BY <1>1, <1>2, EndsWithText
<1>9. file[s] # "wide"
  BY DEF BlockStarts, TimeKinds
<1> HIDE DEF s, length
<1>5. Fitting(s, s + 1 .. last) = s + 1 .. s + length
  <2>1. ASSUME NEW j \in s + 1 .. s + length
        PROVE  j \in Fitting(s, s + 1 .. last)
    <3>1. j \in s + 1 .. last /\ j <= s + Capacity
      <4>1. length \in Nat /\ Capacity \in Nat /\ length <= Capacity /\ s + length <= last
        BY <1>2, <1>3, FileAssumption
      <4> QED
        BY <1>2, <4>1
    <3>2. ASSUME NEW k \in s .. j
          PROVE  file[k] # "wide"
      <4>1. k = s \/ (k - s \in 1 .. length /\ s + (k - s) = k)
        BY <1>2, <2>1
      <4> QED
        BY <1>3, <1>9, <4>1
    <3> QED
      BY <3>1, <3>2 DEF Fitting
  <2>2. ASSUME NEW j \in Fitting(s, s + 1 .. last)
        PROVE  j \in s + 1 .. s + length
    <3>1. /\ j \in s + 1 .. last /\ j <= s + Capacity
          /\ \A k \in s .. j : file[k] # "wide"
      BY DEF Fitting
    <3>2. CASE j > s + length
      <4>1. s + length + 1 \in s .. j /\ s + length # last /\ length # Capacity
        BY <1>2, <3>1, <3>2, FileAssumption
      <4> QED
        BY <1>3, <3>1, <4>1
    <3> QED
      BY <1>2, <3>1, <3>2
  <2> QED
    BY <2>1, <2>2
<1>6. ToSet(event.text) = s + 1 .. s + length
  <2>1. ToSet(event.text) = {event.text[i] : i \in 1 .. length}
    BY <1>2 DEF ToSet
  <2>2. ASSUME NEW j \in s + 1 .. s + length
        PROVE  \E i \in 1 .. length : event.text[i] = j
    <3>1. j - s \in 1 .. length /\ event.text[j - s] = j
      BY <1>2, <1>3
    <3> QED
      BY <3>1
  <2>3. ASSUME NEW i \in 1 .. length
        PROVE  event.text[i] \in s + 1 .. s + length
    BY <1>2, <1>3
  <2> QED
    BY <2>1, <2>2, <2>3, Zenon
<1>7. Cardinality(s + 1 .. s + length) = length
  <2> DEFINE a == s + 1
             b == s + length
  <2>1. a \in Int /\ b \in Int /\ (IF a > b THEN 0 ELSE b - a + 1) = length
    BY <1>2
  <2> HIDE DEF a, b
  <2>2. Cardinality(a .. b) = length
    BY <2>1, FS_Interval
  <2> QED
    BY <2>2 DEF a, b
<1> QED
  BY <1>4, <1>5, <1>6, <1>7 DEF s, length

\* For a file of any length, any kinds of lines and any size of the buffer, every block
\* that was read is one event, with exactly those of its lines that fit, in the order of
\* the file.
THEOREM BlocksAreEvents == FileSpec => []EventsAreBlocks
<1>1. FileInv => EventsAreBlocks
  <2> SUFFICES ASSUME FileInv, loop \in {"outer", "done"}
               PROVE  EventsAreBlocks
    BY DEF EventsAreBlocks
  <2>1. ASSUME NEW n \in 1 .. Len(events)
        PROVE  LET start == events[n].start
                   kept == Fitting(start, TextOf(start, read))
               IN  ToSet(events[n].text) = kept /\ Len(events[n].text) = Cardinality(kept)
    <3>1. /\ events[n] \in BlockSet /\ Complete(events[n]) /\ FileTypes
          /\ events[n].start \in BlockStarts
      BY EventTypes DEF FileInv, EventsInv
    <3> QED
      BY <3>1, CompleteIsFitting
  <2>2. Done = read
    BY DEF Done, Failed
  <2> QED
    BY <2>1, <2>2 DEF FileInv, EventsInv, EventsAreBlocks
<1> QED
  BY <1>1, FileInvariance, PTL

\* A call that returns has read all lines of a file that could be opened, has no
\* line that is too long and no subtitle ParseSrtLine fails in.
THEOREM ReturnsOnlyAtTheEnd == FileSpec => []ReturnsWhenAllRead
<1>1. FileInv => ReturnsWhenAllRead
  <2> SUFFICES ASSUME FileInv, loop = "done"
               PROVE  Readable /\ read = Len(file)
    BY DEF ReturnsWhenAllRead
  <2>1. opened /\ read = Len(file) /\ \A i \in 1 .. read : file[i] \notin LongKinds
    BY DEF FileInv, StreamInv
  <2>2. DOMAIN file = 1 .. Len(file)
    BY DEF FileInv, FileTypes
  <2>3. ASSUME NEW i \in BlockStarts, NEW j \in TextOf(i, Len(file))
        PROVE  file[j] # "fatal"
    <3>1. i \in {events[n].start : n \in 1 .. Len(events)}
      <4>1. Done = read /\ Len(file) \in Nat
        BY EventTypes DEF FileInv, Done, Failed
      <4> QED
        BY <2>1, <4>1 DEF FileInv, EventsInv, BlockStarts
    <3>2. PICK n \in 1 .. Len(events) : events[n].start = i
      BY <3>1
    <3>3. PICK last \in Nat : Ends(i, last)
      BY <3>2 DEF FileInv, EventsInv, Complete
    <3>4. j \in i + 1 .. last
      BY <2>1, <3>3, EndsWithText DEF FileInv, BlockStarts
    <3> QED
      BY <3>3, <3>4 DEF Ends
  <2> QED
    BY <2>1, <2>2, <2>3 DEF Readable, HasFatalText, ToSet
<1> QED
  BY <1>1, FileInvariance, PTL

-----------------------------------------------------------------------------
(* What is left of a readable file gets less.                              *)

\* Of a readable file the stream fails only where the file has ended.
FailInv == Readable /\ fail => eof

\* What is left to do: two for each line and for the end of the file, and one to leave
\* a block.
FileLeft ==
  2 * (Len(file) - read) + (IF eof THEN 0 ELSE 2) + (IF loop = "inner" THEN 1 ELSE 0)

FileGetsShorter ==
  loop' # "done" /\ Readable =>
    loop' \notin Failed /\ FileLeft' \in Nat /\ FileLeft' < FileLeft

LEMMA ReadableLine ==
  ASSUME FileTypes, Readable, NEW i \in 1 .. Len(file)
  PROVE  file[i] \notin LongKinds
<1>1. DOMAIN file = 1 .. Len(file)
  BY DEF FileTypes
<1> QED
  BY <1>1 DEF Readable, ToSet

\* A line of a readable file is read: the stream goes on by one, or the file has ended.
LEMMA ReadableReads ==
  ASSUME FileTypes, StreamInv, FailInv, Readable, GetLine
  PROVE  /\ fail' => eof'
         /\ \/ ~eof /\ read < Len(file) /\ read' = read + 1
            \/ read' = read /\ eof' /\ inBuffer' = ""
<1>1. CASE eof \/ fail
  BY <1>1 DEF FailInv, GetLine, FileTypes
<1>2. CASE ~(eof \/ fail) /\ read = Len(file)
  BY <1>2 DEF GetLine
<1>3. CASE ~(eof \/ fail) /\ read # Len(file)
  <2>1. read' = read + 1 /\ fail' = (file[read + 1] \in LongKinds)
    BY <1>3 DEF GetLine
  <2>2. read < Len(file) /\ read + 1 \in 1 .. Len(file)
    BY <1>3 DEF FileTypes
  <2>3. ~fail'
    BY <2>1, <2>2, ReadableLine, Zenon
  <2> QED
    BY <1>3, <2>1, <2>2, <2>3
<1> QED
  BY <1>1, <1>2, <1>3

LEMMA FileLength ==
  ASSUME FileTypes
  PROVE  Len(file) \in Nat /\ read \in 0 .. Len(file)
BY DEF FileTypes

\* The arithmetic of one step: of places p and q, ends d and e and loops k and m.
LEMMA FewerLeft ==
  ASSUME NEW n \in Nat, NEW p \in 0 .. n, NEW q \in 0 .. n,
         NEW d \in {0, 2}, NEW e \in {0, 2}, NEW k \in {0, 1}, NEW m \in {0, 1},
         \/ q = p + 1 /\ d = 2
         \/ q = p /\ e = 0 /\ m = 0 /\ (d = 2 \/ k = 1)
  PROVE  /\ 2 * (n - q) + e + m \in Nat
         /\ 2 * (n - q) + e + m < 2 * (n - p) + d + k
OBVIOUS

LEMMA ReadingShortens ==
  ASSUME FileTypes, StreamInv, FailInv, Readable, GetLine, UNCHANGED fileVars,
         inBuffer' = "" => loop' # "inner" /\ (~eof \/ loop = "inner")
  PROVE  FileLeft' \in Nat /\ FileLeft' < FileLeft
<1>0. Len(file) \in Nat /\ read \in 0 .. Len(file)
  BY FileLength, Zenon
<1> DEFINE left(p, d, k) == 2 * (Len(file) - p) + d + k
<1>1. PICK q : read' = q
  OBVIOUS
<1>2. PICK d \in {0, 2} : d = IF eof THEN 0 ELSE 2
  OBVIOUS
<1>3. PICK e \in {0, 2} : e = IF eof' THEN 0 ELSE 2
  OBVIOUS
<1>4. PICK k \in {0, 1} : k = IF loop = "inner" THEN 1 ELSE 0
  OBVIOUS
<1>5. PICK m \in {0, 1} : m = IF loop' = "inner" THEN 1 ELSE 0
  OBVIOUS
<1>6. Len(file) \in Nat /\ read \in 0 .. Len(file) /\ q \in 0 .. Len(file)
  <2>1. read' \in 0 .. Len(file)
    BY GetLineReads, Zenon
  <2>2. q \in 0 .. Len(file)
    BY <1>1, <2>1, Zenon
  <2> QED
    BY <1>0, <2>2
<1>7. \/ q = read + 1 /\ d = 2
      \/ q = read /\ e = 0 /\ m = 0 /\ (d = 2 \/ k = 1)
  <2>1. \/ ~eof /\ read' = read + 1
        \/ read' = read /\ eof' /\ inBuffer' = ""
    BY ReadableReads
  <2> QED
    BY <1>1, <1>2, <1>3, <1>4, <1>5, <2>1
<1>8. left(q, e, m) \in Nat /\ left(q, e, m) < left(read, d, k)
  <2>1. PICK p : p = read
    OBVIOUS
  <2>2. PICK n : n = Len(file)
    OBVIOUS
  <2> QED
    BY <1>6, <1>7, <2>1, <2>2, FewerLeft
<1>9. FileLeft = left(read, d, k)
  BY <1>2, <1>4 DEF FileLeft
<1>10. FileLeft' = left(q, e, m)
  <2>1. file' = file
    BY DEF fileVars
  <2> QED
    BY <1>1, <1>3, <1>5, <2>1 DEF FileLeft
<1> HIDE DEF left
<1> QED
  BY <1>8, <1>9, <1>10

LEMMA FileShortens == FileInv /\ FailInv /\ FileNext => FileGetsShorter
<1> SUFFICES ASSUME FileInv, FailInv, FileNext, loop' # "done", Readable
             PROVE  loop' \notin Failed /\ FileLeft' \in Nat /\ FileLeft' < FileLeft
  BY DEF FileGetsShorter
<1>1. ~EndOfFile
  BY DEF EndOfFile
<1>4. loop' \notin Failed
  <2>1. FileInv' /\ UNCHANGED fileVars
    BY <1>1, FileStep DEF FileNext, SkipLine, TimeLine, TextLine, EndBlock, ParseFails
  <2>2. HasFatalText' <=> HasFatalText
    BY <2>1 DEF fileVars, HasFatalText, BlockStarts, TextOf
  <2> QED
    BY <2>1, <2>2 DEF FileInv, Readable
<1>2. GetLine /\ UNCHANGED fileVars
  BY <1>1 DEF FileNext, SkipLine, TimeLine, TextLine, EndBlock, ParseFails
<1>3. inBuffer' = "" => loop' # "inner" /\ (~eof \/ loop = "inner")
  BY <1>1 DEF FileNext, SkipLine, TimeLine, TextLine, EndBlock, ParseFails
<1> QED
  BY <1>2, <1>3, <1>4, ReadingShortens DEF FileInv

LEMMA FailStep == FileInv /\ FailInv /\ [FileNext]_readerVars => FailInv'
<1> SUFFICES ASSUME FileInv, FailInv, [FileNext]_readerVars, Readable'
             PROVE  fail' => eof'
  BY DEF FailInv
<1>1. UNCHANGED fileVars
  BY DEF FileNext, EndOfFile, SkipLine, TimeLine, TextLine, EndBlock, ParseFails, readerVars
<1>2. Readable
  BY <1>1 DEF fileVars, Readable, ToSet, HasFatalText, BlockStarts, TextOf
<1>3. CASE GetLine
  BY <1>2, <1>3, ReadableReads DEF FileInv
<1>4. CASE EndOfFile \/ UNCHANGED readerVars
  BY <1>2, <1>4 DEF EndOfFile, readerVars, streamVars, FailInv
<1> QED
  BY <1>3, <1>4 DEF FileNext, SkipLine, TimeLine, TextLine, EndBlock, ParseFails

\* Every step of the reader returns or leaves less of the file to it, if the file is
\* readable: the loop does not go on for ever for such a file,
\* however it ends (Tools.cpp:587-624).
THEOREM FilesEnd == FileSpec => [][FileGetsShorter]_readerVars
<1>1. FileInit => FailInv
  BY DEF FileInit, FailInv, Readable
<1>2. FileSpec => [](FileInv /\ FailInv)
  BY <1>1, InitFile, FileStep, FailStep, PTL DEF FileSpec
<1>3. FileInv /\ FailInv /\ [FileNext]_readerVars => [FileGetsShorter]_readerVars
  BY FileShortens
<1> QED
  BY <1>2, <1>3, PTL DEF FileSpec

=============================================================================
