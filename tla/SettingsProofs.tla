---------------------------- MODULE SettingsProofs ---------------------------
(***************************************************************************)
(* Proofs about the settings, for every state of the registry key at the   *)
(* start and any number of edits, tabs, frames and filters.                *)
(*                                                                         *)
(* A page decides by m_settings whether an edit makes it dirty, fills its  *)
(* controls from the key, and saves what the controls show.  So the three  *)
(* are kept together, field by field.                                      *)
(***************************************************************************)
EXTENDS Settings, FiniteSetTheorems, TLAPS

TypeInv ==
  /\ key \in {NoKey} \cup [Fields -> Values \cup {"absent"}]
  /\ writable \in BOOLEAN
  /\ settings \in [Fields -> Values]
  /\ control \in [Fields -> Values]
  /\ checked \subseteq Buttons
  /\ dirty \in [Pages -> BOOLEAN]
  /\ dialog \in [Pages -> {"shown", "hidden", "none"}]
  /\ open \in BOOLEAN
  /\ reset \subseteq Pages

\* There are dialogs only in a frame, a frame only for a filter, and a filter
\* without a key only if nobody may create it.
FrameInv ==
  /\ open => filter # NoFilter
  /\ ~open => \A p \in Pages : dialog[p] = "none"
  /\ writable /\ filter # NoFilter => key # NoKey

\* A key that cannot be written is as it was.
ReadOnlyInv ==
  ~writable /\ key # NoKey => \A f \in Fields : key[f] \notin Valid[f] => f \in suspect

WritableInv ==
  writable /\ key # NoKey => \A f \in Fields : key[f] \notin Valid[f] => f \in suspect \cup blind

\* Where Apply finds the value of a field other than the alignment.
Held(f) == IF f \in Chosen THEN settings[f] ELSE control[f]

\* What a field has on the screen, the first of the buttons for the alignment.
Seen(f) ==
  CASE f = "LineAlignment" -> FirstChecked [] f \in Chosen -> settings[f] [] OTHER -> control[f]

\* What a page holds is proper, or there is a cause why it is not.
Caused(p, f) ==
  writable /\ dialog[p] # "none" /\ f # "LineAlignment" /\ f \notin suspect \cup blind
    => Clean(f, Held(f)) \in Valid[f]

\* A page that is not dirty, on the screen or hidden, has what is saved, in
\* m_settings and in its controls.
Saved(p, f) ==
  writable /\ dialog[p] # "none" /\ ~dirty[p] /\ key[f] \in Valid[f]
    => settings[f] = key[f] /\ Clean(f, Seen(f)) = key[f]

\* A page that was reset shows the defaults, but for the buttons.
Restored(p, f) ==
  p \in reset =>
    /\ dialog[p] # "none"
    /\ IF f = "LineAlignment" THEN "2" \in checked ELSE Held(f) = Default[f]

FieldInv(p, f) == Caused(p, f) /\ Saved(p, f) /\ Restored(p, f)

PageInv == \A p \in Pages : \A f \in FieldsOf[p] : FieldInv(p, f)

\* One button is checked, or one and the default's.
ButtonsInv ==
  dialog["Settings"] = "none" \/ \E b \in Buttons : checked = {b} \/ checked = {b, "2"}

SettingsInv == TypeInv /\ FrameInv /\ ReadOnlyInv /\ WritableInv /\ PageInv

-----------------------------------------------------------------------------
(* The fields and their values.                                            *)

LEMMA FieldFacts ==
  /\ FieldsOf["Settings"]
       = {"ScaledBorderAndShadow", "FontScaleX", "LineAlignment", "FontSize", "ColorPrimary"}
  /\ FieldsOf["General"] = {"DisableAutoLoad", "CustomRes", "ExtraSubsDir"}
  /\ Fields = FieldsOf["Settings"] \cup FieldsOf["General"]
<1>1. "Settings" \in Pages /\ "General" \in Pages /\ "General" # "Settings"
  BY DEF Pages
<1>2. /\ FieldsOf["Settings"]
           = {"ScaledBorderAndShadow", "FontScaleX", "LineAlignment", "FontSize", "ColorPrimary"}
      /\ FieldsOf["General"] = {"DisableAutoLoad", "CustomRes", "ExtraSubsDir"}
  BY <1>1 DEF FieldsOf
<1>3. Fields = FieldsOf["Settings"] \cup FieldsOf["General"]
  BY DEF Fields, Pages
<1> QED
  BY <1>2, <1>3

LEMMA FieldNames ==
  ASSUME NEW f \in Fields
  PROVE  \/ f = "ScaledBorderAndShadow" \/ f = "FontScaleX" \/ f = "LineAlignment"
         \/ f = "FontSize" \/ f = "ColorPrimary" \/ f = "DisableAutoLoad"
         \/ f = "CustomRes" \/ f = "ExtraSubsDir"
BY FieldFacts

\* Every field is on one page.
LEMMA OnePage ==
  ASSUME NEW p \in Pages, NEW f \in FieldsOf[p]
  PROVE  /\ f \in Fields
         /\ PageOf(f) = p
         /\ \A q \in Pages : f \in FieldsOf[q] => q = p
         /\ f = "LineAlignment" => p = "Settings"
<1>1. f \in Fields /\ \A q \in Pages : f \in FieldsOf[q] => q = p
  BY FieldFacts DEF Pages
<1>2. f = "LineAlignment" => p = "Settings"
  BY FieldFacts DEF Pages
<1> QED
  BY <1>1, <1>2 DEF PageOf

LEMMA ValidValues ==
  ASSUME NEW f \in Fields
  PROVE  /\ Valid[f] \subseteq Values
         /\ \A v \in Valid[f] : Clip(v) = v /\ Clean(f, v) = v
         /\ Default[f] \in Valid[f]
         /\ \A v \in Values : Clip(v) \in Values /\ Clean(f, v) \in Values
         /\ \A v \in Values : Clean(f, Clean(f, v)) = Clean(f, v)
         /\ f = "LineAlignment" => Valid[f] = Buttons /\ \A v \in Buttons : Clean(f, v) = v
BY FieldNames DEF Valid, Values, Clip, Clean, Default, Checks, Buttons

\* A number that is typed is proper after the checks of Apply, a font size that is
\* chosen too.
LEMMA EditedValues ==
  ASSUME NEW f \in Fields
  PROVE  /\ \A v \in Valid[f] \cup (IF f = "FontScaleX" THEN {"zero", "tooBig"} ELSE {}) :
              Clip(v) \in Values /\ Clean(f, Clip(v)) \in Valid[f]
         /\ \A v \in Valid[f] \cup (IF f = "FontSize" THEN {"bad"} ELSE {}) :
              v \in Values /\ Clean(f, v) \in Valid[f]
BY FieldNames DEF Valid, Values, Clip, Clean, Checks, Buttons

LEMMA Alignment ==
  /\ FirstChecked \in Buttons
  /\ \A b \in Buttons : checked = {b} /\ dialog["Settings"] # "none" => FirstChecked = b
  /\ "2" \in checked /\ dialog["Settings"] # "none"
       => FirstChecked = IF "7" \in checked THEN "7" ELSE "2"
BY DEF FirstChecked, Buttons

-----------------------------------------------------------------------------
(* Fields a step leaves alone.                                             *)

\* A field keeps its invariant if what the pages and the key have of it stays, and
\* neither a cause nor the mark of a change is taken away.
LEMMA FieldKept ==
  ASSUME NEW p \in Pages, NEW f \in FieldsOf[p], FieldInv(p, f),
         writable' = writable,
         dialog'[p] # "none" <=> dialog[p] # "none",
         settings'[f] = settings[f], control'[f] = control[f], key'[f] = key[f],
         f = "LineAlignment" => checked' = checked,
         dirty[p] => dirty'[p],
         f \in suspect \cup blind => f \in suspect' \cup blind',
         p \in reset' => p \in reset
  PROVE  FieldInv(p, f)'
<1>1. Held(f)' = Held(f)
  BY DEF Held
<1>2. Seen(f)' = Seen(f)
  BY OnePage DEF Seen, FirstChecked
<1>3. Caused(p, f)'
  BY <1>1 DEF FieldInv, Caused
<1>4. Saved(p, f)'
  BY <1>2 DEF FieldInv, Saved
<1>5. Restored(p, f)'
  BY <1>1, OnePage DEF FieldInv, Restored
<1> QED
  BY <1>3, <1>4, <1>5 DEF FieldInv

\* Nothing is said of a page without a dialog.
LEMMA NoDialog ==
  ASSUME NEW p \in Pages, NEW f \in FieldsOf[p], dialog'[p] = "none", p \notin reset'
  PROVE  FieldInv(p, f)'
BY DEF FieldInv, Caused, Saved, Restored

\* What the pages hold has a type, whatever the page and the field.
LEMMA Types ==
  ASSUME TypeInv, NEW f \in Fields
  PROVE  /\ settings[f] \in Values /\ control[f] \in Values
         /\ key # NoKey => key[f] \in Values \cup {"absent"}
         /\ key = NoKey => key[f] \notin Valid[f]
         /\ Held(f) \in Values
<1>1. key = NoKey => key[f] \notin Valid[f]
  BY ValidValues DEF NoKey, Values
<1> QED
  BY <1>1 DEF TypeInv, Held

\* The steps of the filter and those that only move the frame or its tabs.
LEMMA PagesKept ==
  ASSUME TypeInv, PageInv, UNCHANGED <<writable, settings, control, checked, suspect, blind, reset>>,
         \A p \in Pages : (dialog'[p] # "none" <=> dialog[p] # "none"),
         \A p \in Pages : dirty[p] => dirty'[p],
         \/ key' = key
         \/ \A p \in Pages : dialog[p] = "none"
  PROVE  PageInv'
<1> SUFFICES ASSUME NEW p \in Pages, NEW f \in FieldsOf[p]
             PROVE  FieldInv(p, f)'
  BY DEF PageInv
<1>1. FieldInv(p, f)
  BY DEF PageInv
<1>2. CASE key' = key
  BY <1>1, <1>2, FieldKept
<1>3. CASE \A q \in Pages : dialog[q] = "none"
  <2>1. dialog[p] = "none" /\ dialog'[p] = "none"
    BY <1>3
  <2>2. p \notin reset'
    BY <1>1, <2>1 DEF FieldInv, Restored
  <2> QED
    BY <2>1, <2>2, NoDialog
<1> QED
  BY <1>2, <1>3

-----------------------------------------------------------------------------
(* The inductive invariant, one lemma per operation.                       *)

LEMMA InitSettings == Init => SettingsInv
<1> SUFFICES ASSUME Init
             PROVE  SettingsInv
  OBVIOUS
<1>1. /\ writable \in BOOLEAN /\ filter = NoFilter /\ checked = {} /\ open = FALSE /\ reset = {}
      /\ settings = Uninitialised /\ control = Uninitialised
      /\ dirty = [p \in Pages |-> FALSE] /\ dialog = [p \in Pages |-> "none"]
      /\ suspect = {f \in Fields : key # NoKey /\ key[f] \notin Valid[f]}
  BY DEF Init
<1>2. key \in {NoKey} \cup [Fields -> Values \cup {"absent"}]
  BY StartKeysAssumption DEF Init
<1>3. Uninitialised \in [Fields -> Values]
  BY DEF Uninitialised, Values
<1>4. TypeInv
  BY <1>1, <1>2, <1>3 DEF TypeInv
<1>5. FrameInv /\ ReadOnlyInv /\ WritableInv
  BY <1>1 DEF FrameInv, ReadOnlyInv, WritableInv
<1>6. PageInv
  BY <1>1 DEF PageInv, FieldInv, Caused, Saved, Restored
<1> QED
  BY <1>4, <1>5, <1>6 DEF SettingsInv

LEMMA CreateFilterKeeps == SettingsInv /\ CreateFilter => SettingsInv'
<1> SUFFICES ASSUME SettingsInv, CreateFilter
             PROVE  SettingsInv'
  OBVIOUS
<1>1. /\ filter = NoFilter
      /\ key' = IF key = NoKey /\ writable THEN Default ELSE key
      /\ UNCHANGED <<writable, settings, control, checked, dirty, dialog, open, suspect, blind, reset>>
  BY DEF CreateFilter, pageVars, history
<1>2. TypeInv /\ FrameInv /\ ReadOnlyInv /\ WritableInv /\ PageInv
  BY DEF SettingsInv
<1>3. ~open /\ \A p \in Pages : dialog[p] = "none"
  BY <1>1, <1>2 DEF FrameInv, TypeInv
<1>4. /\ Default \in [Fields -> Values]
      /\ Default # NoKey
      /\ \A f \in Fields : Default[f] \in Valid[f]
  <2>1. \A f \in Fields : Default[f] \in Valid[f] /\ Default[f] \in Values
    BY ValidValues
  <2>2. Default \in [Fields -> Values]
    BY <2>1 DEF Default
  <2>3. Default["FontSize"] # NoKey["FontSize"]
    BY FieldFacts, <2>1 DEF NoKey, Values
  <2> QED
    BY <2>1, <2>2, <2>3
<1>5. TypeInv'
  BY <1>1, <1>2, <1>4 DEF TypeInv
<1>6. FrameInv'
  BY <1>1, <1>3, <1>4, <1>5 DEF FrameInv
<1>7. ReadOnlyInv' /\ WritableInv'
  BY <1>1, <1>2, <1>4 DEF ReadOnlyInv, WritableInv
<1>8. PageInv'
  BY <1>1, <1>2, <1>3, PagesKept
<1> QED
  BY <1>5, <1>6, <1>7, <1>8 DEF SettingsInv

LEMMA DestroyFilterKeeps == SettingsInv /\ DestroyFilter => SettingsInv'
<1> SUFFICES ASSUME SettingsInv, DestroyFilter
             PROVE  SettingsInv'
  OBVIOUS
<1>1. /\ ~open /\ filter' = NoFilter
      /\ UNCHANGED <<key, writable, settings, control, checked, dirty, dialog, open, suspect, blind, reset>>
  BY DEF DestroyFilter, pageVars, history
<1>2. TypeInv /\ FrameInv /\ ReadOnlyInv /\ WritableInv /\ PageInv
  BY DEF SettingsInv
<1>3. TypeInv' /\ FrameInv' /\ ReadOnlyInv' /\ WritableInv'
  BY <1>1, <1>2 DEF TypeInv, FrameInv, ReadOnlyInv, WritableInv
<1>4. PageInv'
  BY <1>1, <1>2, PagesKept
<1> QED
  BY <1>3, <1>4 DEF SettingsInv

LEMMA CloseFrameKeeps == SettingsInv /\ CloseFrame => SettingsInv'
<1> SUFFICES ASSUME SettingsInv, CloseFrame
             PROVE  SettingsInv'
  OBVIOUS
<1>1. /\ open' = FALSE /\ settings' = Uninitialised /\ control' = Uninitialised /\ checked' = {}
      /\ dirty' = [p \in Pages |-> FALSE] /\ dialog' = [p \in Pages |-> "none"] /\ reset' = {}
      /\ UNCHANGED <<key, writable, filter, suspect, blind>>
  BY DEF CloseFrame
<1>2. TypeInv /\ FrameInv /\ ReadOnlyInv /\ WritableInv
  BY DEF SettingsInv
<1>3. Uninitialised \in [Fields -> Values]
  BY DEF Uninitialised, Values
<1>4. TypeInv'
  BY <1>1, <1>2, <1>3 DEF TypeInv
<1>5. FrameInv' /\ ReadOnlyInv' /\ WritableInv'
  BY <1>1, <1>2 DEF FrameInv, ReadOnlyInv, WritableInv
<1>6. PageInv'
  BY <1>1, NoDialog DEF PageInv
<1> QED
  BY <1>4, <1>5, <1>6 DEF SettingsInv


\* A page is filled when its dialog is created: what it gets is what the key has, if
\* that is proper, and otherwise there is a cause.
LEMMA ActivateKeeps ==
  ASSUME SettingsInv, filter # NoFilter,
         NEW p \in Pages, Activate(p), dialog[p] = "none",
         UNCHANGED <<key, writable, suspect, blind>>,
         dialog' \in [Pages -> {"shown", "hidden", "none"}], dialog'[p] = "shown",
         \A q \in Pages \ {p} :
           dialog'[q] # "none" => dialog[q] # "none",
         reset' = {r \in reset : dialog'[r] # "none"}
  PROVE  /\ settings' \in [Fields -> Values] /\ control' \in [Fields -> Values]
         /\ checked' \subseteq Buttons
         /\ dirty' \in [Pages -> BOOLEAN]
         /\ reset' \subseteq Pages
         /\ PageInv'
<1> DEFINE read == [f \in Fields |-> IF f \in FieldsOf[p] /\ Present(f) THEN key[f] ELSE settings[f]]
<1>1. TypeInv /\ FrameInv /\ ReadOnlyInv /\ WritableInv /\ PageInv
  BY DEF SettingsInv
<1> DEFINE aligned(b) ==
        CASE read["LineAlignment"] \in Buttons -> b = read["LineAlignment"]
          [] read["LineAlignment"] = "bad" -> b = "2"
          [] OTHER -> TRUE
<1>a. "bad" \notin Buttons
  BY DEF Buttons
<1>b. \A b \in Buttons :
        aligned(b) /\ read["LineAlignment"] \in Buttons => b = read["LineAlignment"]
  <2> HIDE DEF read
  <2> QED
    BY <1>a
<1>2. PICK alignment \in Buttons :
        /\ aligned(alignment)
        /\ settings' = IF p = "Settings" THEN [read EXCEPT !["LineAlignment"] = alignment] ELSE read
        /\ checked' = IF p = "Settings" THEN {alignment} ELSE checked
        /\ control' = [f \in Fields |-> IF f \in FieldsOf[p] THEN Clip(read[f]) ELSE control[f]]
        /\ \E changed \in BOOLEAN : dirty' = [dirty EXCEPT ![p] = @ \/ changed]
  BY Zenon DEF Activate
<1>3. \A f \in Fields : read[f] \in Values
  BY <1>1, Types DEF Present
<1>4. read \in [Fields -> Values]
  BY <1>3
<1>5. "LineAlignment" \in Fields /\ alignment \in Values
  BY FieldFacts DEF Buttons, Values
<1>6. /\ settings' \in [Fields -> Values] /\ control' \in [Fields -> Values]
      /\ checked' \subseteq Buttons /\ reset' \subseteq Pages
  <2> HIDE DEF read
  <2>1. settings' \in [Fields -> Values]
    BY <1>2, <1>4, <1>5
  <2>2. control' \in [Fields -> Values]
    BY <1>1, <1>2, <1>3, ValidValues DEF TypeInv
  <2>3. checked' \subseteq Buttons /\ reset' \subseteq Pages
    BY <1>1, <1>2 DEF TypeInv
  <2> QED
    BY <2>1, <2>2, <2>3
<1>7. dirty' \in [Pages -> BOOLEAN] /\ \A q \in Pages : dirty[q] => dirty'[q]
  BY <1>1, <1>2 DEF TypeInv
<1>8. ASSUME NEW q \in Pages, NEW f \in FieldsOf[q], q # p
      PROVE  FieldInv(q, f)'
  <2>1. FieldInv(q, f)
    BY <1>1 DEF PageInv
  <2>2. f \notin FieldsOf[p] /\ f \in Fields
    BY <1>8, OnePage
  <2>3. CASE dialog'[q] = "none"
    BY <2>3, NoDialog
  <2>4. CASE dialog'[q] # "none"
    <3>1. settings'[f] = settings[f]
      <4>1. read[f] = settings[f]
        BY <2>2
      <4>2. f = "LineAlignment" => p # "Settings"
        BY <1>8, OnePage
      <4> HIDE DEF read
      <4> QED
        BY <1>2, <1>4, <2>2, <4>1, <4>2
    <3>2. control'[f] = control[f] /\ (f = "LineAlignment" => checked' = checked)
      BY <1>2, <1>8, <2>2, OnePage
    <3>3. dialog[q] # "none" /\ (q \in reset' => q \in reset) /\ (dirty[q] => dirty'[q])
      BY <1>7, <1>8, <2>4
    <3> QED
      BY <2>1, <2>4, <3>1, <3>2, <3>3, FieldKept
  <2> QED
    BY <2>3, <2>4
<1>9. ASSUME NEW f \in FieldsOf[p]
      PROVE  FieldInv(p, f)'
  <2>1. p \notin reset'
    BY <1>1 DEF PageInv, FieldInv, Restored
  <2>2. f \in Fields
    BY OnePage
  <2>3. CASE key[f] \notin Valid[f]
    <3>1. writable => key # NoKey
      BY <1>1 DEF FrameInv
    <3>2. writable => f \in suspect \cup blind
      BY <1>1, <2>2, <2>3, <3>1 DEF WritableInv
    <3> QED
      BY <2>1, <2>3, <3>2 DEF FieldInv, Caused, Saved, Restored
  <2>4. CASE key[f] \in Valid[f]
    <3>1. key # NoKey /\ key[f] # "absent"
      BY <1>1, <2>2, <2>4, Types, ValidValues DEF Values
    <3>2. read[f] = key[f]
      BY <2>2, <3>1 DEF Present
    <3>4. CASE f = "LineAlignment"
      <4>1. p = "Settings" /\ key[f] \in Buttons
        BY <2>2, <2>4, <3>4, OnePage, ValidValues
      <4>2. alignment = key[f]
        BY <1>b, <1>2, <3>2, <3>4, <4>1
      <4>3. settings'[f] = key[f] /\ checked' = {key[f]}
        <5> HIDE DEF read
        <5> QED
          BY <1>2, <1>4, <2>2, <3>4, <4>1, <4>2
      <4>4. Seen(f)' = key[f]
        BY <3>4, <4>1, <4>3 DEF Seen, FirstChecked, Buttons
      <4>5. Clean(f, key[f]) = key[f]
        BY <2>2, <2>4, ValidValues
      <4> QED
        BY <2>1, <3>4, <4>3, <4>4, <4>5 DEF FieldInv, Caused, Saved, Restored
    <3>5. CASE f # "LineAlignment"
      <4>1. Clip(key[f]) = key[f] /\ Clean(f, key[f]) = key[f]
        BY <2>2, <2>4, ValidValues
      <4>2. settings'[f] = key[f] /\ control'[f] = key[f]
        <5> HIDE DEF read
        <5> QED
          BY <1>2, <1>4, <1>5, <2>2, <3>2, <3>5, <4>1
      <4>3. Held(f)' = key[f] /\ Seen(f)' = key[f]
        BY <3>5, <4>2 DEF Held, Seen
      <4> QED
        BY <2>1, <2>4, <4>1, <4>2, <4>3 DEF FieldInv, Caused, Saved, Restored
    <3> QED
      BY <3>4, <3>5
  <2> QED
    BY <2>3, <2>4
<1>10. PageInv'
  BY <1>8, <1>9 DEF PageInv
<1> QED
  BY <1>6, <1>7, <1>10

LEMMA OpenFrameKeeps == ASSUME NEW p \in Pages PROVE SettingsInv /\ OpenFrame(p) => SettingsInv'
<1> SUFFICES ASSUME SettingsInv, OpenFrame(p)
             PROVE  SettingsInv'
  OBVIOUS
<1>1. /\ filter # NoFilter /\ ~open /\ open' = TRUE /\ dialog' = [dialog EXCEPT ![p] = "shown"]
      /\ Activate(p)
      /\ UNCHANGED <<key, writable, filter, suspect, blind, reset>>
  BY DEF OpenFrame, history
<1>2. TypeInv /\ FrameInv /\ ReadOnlyInv /\ WritableInv /\ PageInv
  BY DEF SettingsInv
<1>3. \A q \in Pages : dialog[q] = "none"
  BY <1>1, <1>2 DEF FrameInv
<1>4. dialog' \in [Pages -> {"shown", "hidden", "none"}]
  BY <1>1, <1>2 DEF TypeInv
<1>5. dialog'[p] = "shown" /\ \A q \in Pages \ {p} : dialog'[q] # "none" => dialog[q] # "none"
  BY <1>1, <1>2 DEF TypeInv
<1>6. reset = {}
  <2>1. \A q \in Pages : FieldsOf[q] # {}
    BY FieldFacts DEF Pages
  <2> QED
    BY <1>2, <1>3, <2>1 DEF TypeInv, PageInv, FieldInv, Restored
<1>7. /\ settings' \in [Fields -> Values] /\ control' \in [Fields -> Values]
      /\ checked' \subseteq Buttons
      /\ dirty' \in [Pages -> BOOLEAN]
      /\ reset' \subseteq Pages
      /\ PageInv'
  BY <1>1, <1>3, <1>4, <1>5, <1>6, ActivateKeeps
<1>8. TypeInv'
  BY <1>1, <1>2, <1>4, <1>7 DEF TypeInv
<1>9. FrameInv' /\ ReadOnlyInv' /\ WritableInv'
  BY <1>1, <1>2 DEF FrameInv, ReadOnlyInv, WritableInv
<1> QED
  BY <1>7, <1>8, <1>9 DEF SettingsInv

LEMMA SwitchTabKeeps ==
  ASSUME NEW p \in Pages, NEW q \in Pages PROVE SettingsInv /\ SwitchTab(p, q) => SettingsInv'
<1> SUFFICES ASSUME SettingsInv, SwitchTab(p, q)
             PROVE  SettingsInv'
  OBVIOUS
<1>1. /\ p # q /\ dialog[p] = "shown"
      /\ \E left \in {"hidden", "none"} : dialog' = [dialog EXCEPT ![p] = left, ![q] = "shown"]
      /\ IF dialog[q] = "none" THEN Activate(q) ELSE UNCHANGED <<settings, control, checked, dirty>>
      /\ reset' = {r \in reset : dialog'[r] # "none"}
      /\ UNCHANGED <<key, writable, filter, open, suspect, blind>>
  BY DEF SwitchTab
<1>2. TypeInv /\ FrameInv /\ ReadOnlyInv /\ WritableInv /\ PageInv
  BY DEF SettingsInv
<1>3. dialog' \in [Pages -> {"shown", "hidden", "none"}]
  BY <1>1, <1>2 DEF TypeInv
<1>4. dialog'[q] = "shown" /\ \A r \in Pages \ {q} : dialog'[r] # "none" => dialog[r] # "none"
  BY <1>1, <1>2 DEF TypeInv
<1>5. open /\ filter # NoFilter
  BY <1>1, <1>2 DEF FrameInv
<1>6. FrameInv' /\ ReadOnlyInv' /\ WritableInv'
  BY <1>1, <1>2, <1>5 DEF FrameInv, ReadOnlyInv, WritableInv
<1>7. CASE dialog[q] = "none"
  <2>1. /\ settings' \in [Fields -> Values] /\ control' \in [Fields -> Values]
        /\ checked' \subseteq Buttons
        /\ dirty' \in [Pages -> BOOLEAN]
        /\ reset' \subseteq Pages
        /\ PageInv'
    BY <1>1, <1>3, <1>4, <1>5, <1>7, ActivateKeeps
  <2>2. TypeInv'
    BY <1>1, <1>2, <1>3, <2>1 DEF TypeInv
  <2> QED
    BY <1>6, <2>1, <2>2 DEF SettingsInv
<1>8. CASE dialog[q] # "none"
  <2>1. UNCHANGED <<settings, control, checked, dirty>>
    BY <1>1, <1>8
  <2>2. TypeInv'
    BY <1>1, <1>2, <1>3, <2>1 DEF TypeInv
  <2>3. ASSUME NEW r \in Pages, NEW f \in FieldsOf[r]
        PROVE  FieldInv(r, f)'
    <3>1. FieldInv(r, f)
      BY <1>2 DEF PageInv
    <3>2. CASE dialog'[r] = "none"
      BY <1>1, <3>2, NoDialog
    <3>3. CASE dialog'[r] # "none"
      <4>1. dialog[r] # "none" /\ (r \in reset' => r \in reset)
        BY <1>1, <1>4, <1>8, <3>3
      <4> QED
        BY <1>1, <2>1, <3>1, <3>3, <4>1, FieldKept
    <3> QED
      BY <3>2, <3>3
  <2> QED
    BY <1>6, <2>2, <2>3 DEF SettingsInv, PageInv
<1> QED
  BY <1>7, <1>8

-----------------------------------------------------------------------------
(* Edits: it is enough to look at the fields of the page that is edited.   *)

LEMMA EditKeeps ==
  ASSUME SettingsInv, NEW p \in Pages, Edit(p),
         settings' \in [Fields -> Values], control' \in [Fields -> Values],
         checked' \subseteq Buttons, dirty' \in [Pages -> BOOLEAN], reset' \subseteq reset \cup {p},
         \A g \in Fields \ FieldsOf[p] : settings'[g] = settings[g] /\ control'[g] = control[g],
         p # "Settings" => checked' = checked,
         \A q \in Pages : dirty[q] => dirty'[q],
         \A f \in FieldsOf[p] : FieldInv(p, f)'
  PROVE  SettingsInv'
<1>1. /\ dialog[p] = "shown"
      /\ UNCHANGED <<key, writable, filter, dialog, open, suspect, blind>>
  BY DEF Edit
<1>2. TypeInv /\ FrameInv /\ ReadOnlyInv /\ WritableInv /\ PageInv
  BY DEF SettingsInv
<1>3. TypeInv'
  BY <1>1, <1>2 DEF TypeInv
<1>4. FrameInv' /\ ReadOnlyInv' /\ WritableInv'
  BY <1>1, <1>2 DEF FrameInv, ReadOnlyInv, WritableInv
<1>5. ASSUME NEW q \in Pages, NEW f \in FieldsOf[q], q # p
      PROVE  FieldInv(q, f)'
  <2>1. FieldInv(q, f)
    BY <1>2 DEF PageInv
  <2>2. f \in Fields \ FieldsOf[p] /\ (f = "LineAlignment" => p # "Settings")
    BY <1>5, OnePage
  <2>3. q \in reset' => q \in reset
    BY <1>5
  <2> QED
    BY <1>1, <2>1, <2>2, <2>3, FieldKept
<1>6. PageInv'
  BY <1>5 DEF PageInv
<1> QED
  BY <1>3, <1>4, <1>6 DEF SettingsInv

LEMMA ClickCheckKeeps ==
  ASSUME NEW p \in Pages, NEW f \in Fields PROVE SettingsInv /\ ClickCheck(p, f) => SettingsInv'
<1> SUFFICES ASSUME SettingsInv, ClickCheck(p, f)
             PROVE  SettingsInv'
  OBVIOUS
<1>1. PICK v \in {"on", "off"} :
        /\ f \in Checks /\ f \in FieldsOf[p] /\ Edit(p)
        /\ control' = [control EXCEPT ![f] = v]
        /\ dirty' = [dirty EXCEPT ![p] = @ \/ TRUE] /\ reset' = reset \ {p}
        /\ UNCHANGED <<settings, checked>>
  BY DEF ClickCheck, Dirty
<1>2. TypeInv /\ PageInv
  BY DEF SettingsInv
<1>3. /\ UNCHANGED <<key, writable, filter, dialog, open, suspect, blind>>
  BY <1>1 DEF Edit
<1>4. v \in Valid[f] /\ v \in Values /\ Clean(f, v) = v
  <2>1. v \in Valid[f]
    BY <1>1, FieldNames DEF Valid, Checks
  <2> QED
    BY <2>1, ValidValues
<1>5. control' \in [Fields -> Values] /\ control'[f] = v
  BY <1>1, <1>2, <1>4 DEF TypeInv
<1>6. dirty' \in [Pages -> BOOLEAN] /\ dirty'[p] /\ \A q \in Pages : dirty[q] => dirty'[q]
  BY <1>1, <1>2 DEF TypeInv
<1>7. FieldInv(p, f)'
  <2>1. Held(f)' = v
    BY <1>1, <1>5 DEF Held, Checks, Chosen
  <2> QED
    BY <1>1, <1>4, <1>6, <2>1 DEF FieldInv, Caused, Saved, Restored
<1>8. ASSUME NEW g \in FieldsOf[p], g # f
      PROVE  FieldInv(p, g)'
  <2>1. FieldInv(p, g) /\ g \in Fields
    BY <1>2, OnePage DEF PageInv
  <2>2. control'[g] = control[g]
    BY <1>1, <1>2, <1>8, <2>1 DEF TypeInv
  <2> QED
    BY <1>1, <1>3, <1>6, <2>1, <2>2, FieldKept
<1>9. \A g \in Fields \ FieldsOf[p] : settings'[g] = settings[g] /\ control'[g] = control[g]
  BY <1>1, <1>2 DEF TypeInv
<1>10. \A g \in FieldsOf[p] : FieldInv(p, g)'
  BY <1>7, <1>8
<1>11. settings' \in [Fields -> Values] /\ checked' \subseteq Buttons /\ reset' \subseteq reset \cup {p}
  BY <1>1, <1>2 DEF TypeInv
<1> QED
  BY <1>1, <1>5, <1>6, <1>9, <1>10, <1>11, EditKeeps

LEMMA TypeKeeps ==
  ASSUME NEW p \in Pages, NEW f \in Fields,
         NEW v \in Valid[f] \cup (IF f = "FontScaleX" THEN {"zero", "tooBig"} ELSE {})
  PROVE  SettingsInv /\ Type(p, f, v) => SettingsInv'
<1> SUFFICES ASSUME SettingsInv, Type(p, f, v)
             PROVE  SettingsInv'
  OBVIOUS
<1>1. PICK changed \in BOOLEAN :
        /\ f \in Typed /\ f \in FieldsOf[p] /\ Edit(p)
        /\ control' = [control EXCEPT ![f] = Clip(v)]
        /\ settings[f] # "junk" => changed = (Clip(v) # settings[f])
        /\ dirty' = [dirty EXCEPT ![p] = @ \/ changed] /\ reset' = reset \ {p}
        /\ UNCHANGED <<settings, checked>>
  BY DEF Type, Dirty
<1>2. TypeInv /\ PageInv
  BY DEF SettingsInv
<1>3. /\ UNCHANGED <<key, writable, filter, dialog, open, suspect, blind>>
  BY <1>1 DEF Edit
<1>4. Clip(v) \in Values /\ Clean(f, Clip(v)) \in Valid[f]
  BY EditedValues
<1>5. control' \in [Fields -> Values] /\ control'[f] = Clip(v)
  BY <1>1, <1>2, <1>4 DEF TypeInv
<1>6. /\ dirty' \in [Pages -> BOOLEAN] /\ \A q \in Pages : dirty[q] => dirty'[q]
      /\ ~dirty'[p] => ~dirty[p] /\ ~changed
  BY <1>1, <1>2 DEF TypeInv
<1>7. FieldInv(p, f)'
  <2>1. Held(f)' = Clip(v) /\ Seen(f)' = Clip(v)
    BY <1>1, <1>5 DEF Held, Seen, Typed, Chosen
  <2>2. p \notin reset'
    BY <1>1
  <2>3. Caused(p, f)' /\ Restored(p, f)'
    BY <1>4, <2>1, <2>2 DEF Caused, Restored
  <2>4. ASSUME writable, dialog[p] # "none", ~dirty'[p], key[f] \in Valid[f]
        PROVE  settings[f] = key[f] /\ Clean(f, Clip(v)) = key[f]
    <3>1. settings[f] = key[f]
      BY <1>1, <1>2, <1>6, <2>4 DEF PageInv, FieldInv, Saved
    <3>2. settings[f] # "junk"
      BY <2>4, <3>1, FieldNames DEF Valid, Checks, Buttons
    <3>3. Clip(v) = key[f]
      BY <1>1, <1>6, <2>4, <3>1, <3>2
    <3> QED
      BY <2>4, <3>1, <3>3, ValidValues
  <2>5. Saved(p, f)'
    BY <1>1, <1>3, <2>1, <2>4 DEF Saved
  <2> QED
    BY <2>3, <2>5 DEF FieldInv
<1>8. ASSUME NEW g \in FieldsOf[p], g # f
      PROVE  FieldInv(p, g)'
  <2>1. FieldInv(p, g) /\ g \in Fields
    BY <1>2, OnePage DEF PageInv
  <2>2. control'[g] = control[g]
    BY <1>1, <1>2, <1>8, <2>1 DEF TypeInv
  <2> QED
    BY <1>1, <1>3, <1>6, <2>1, <2>2, FieldKept
<1>9. \A g \in Fields \ FieldsOf[p] : settings'[g] = settings[g] /\ control'[g] = control[g]
  BY <1>1, <1>2 DEF TypeInv
<1>10. \A g \in FieldsOf[p] : FieldInv(p, g)'
  BY <1>7, <1>8
<1>11. settings' \in [Fields -> Values] /\ checked' \subseteq Buttons /\ reset' \subseteq reset \cup {p}
  BY <1>1, <1>2 DEF TypeInv
<1> QED
  BY <1>1, <1>5, <1>6, <1>9, <1>10, <1>11, EditKeeps

LEMMA ClickRadioKeeps == ASSUME NEW b \in Buttons PROVE SettingsInv /\ ClickRadio(b) => SettingsInv'
<1> SUFFICES ASSUME SettingsInv, ClickRadio(b)
             PROVE  SettingsInv'
  OBVIOUS
<1> DEFINE p == "Settings"
<1>1. /\ p \in Pages /\ Edit(p)
      /\ checked' = {b}
      /\ dirty' = [dirty EXCEPT ![p] = @ \/ settings["LineAlignment"] # b] /\ reset' = reset \ {p}
      /\ UNCHANGED <<settings, control>>
  BY DEF ClickRadio, Dirty, Pages
<1>2. TypeInv /\ PageInv
  BY DEF SettingsInv
<1>3. /\ UNCHANGED <<key, writable, filter, dialog, open, suspect, blind>>
      /\ dialog[p] = "shown"
  BY <1>1 DEF Edit
<1>4. /\ dirty' \in [Pages -> BOOLEAN] /\ \A q \in Pages : dirty[q] => dirty'[q]
      /\ ~dirty'[p] => ~dirty[p] /\ settings["LineAlignment"] = b
  BY <1>1, <1>2 DEF TypeInv
<1>5. FieldInv(p, "LineAlignment")'
  <2> DEFINE f == "LineAlignment"
  <2>1. f \in Fields /\ f \in FieldsOf[p]
    BY FieldFacts
  <2>2. Seen(f)' = b
    <3>1. FirstChecked' = b
      BY <1>1, <1>3 DEF FirstChecked, Buttons
    <3> QED
      BY <3>1 DEF Seen, Chosen
  <2>3. p \notin reset'
    BY <1>1
  <2>4. Caused(p, f)' /\ Restored(p, f)'
    BY <2>3 DEF Caused, Restored
  <2>5. ASSUME writable, dialog[p] # "none", ~dirty'[p], key[f] \in Valid[f]
        PROVE  settings[f] = key[f] /\ Clean(f, b) = key[f]
    <3>1. settings[f] = key[f]
      BY <1>1, <1>2, <1>4, <2>1, <2>5 DEF PageInv, FieldInv, Saved
    <3> QED
      BY <1>4, <2>1, <2>5, <3>1, ValidValues
  <2>6. Saved(p, f)'
    BY <1>1, <1>3, <2>2, <2>5 DEF Saved
  <2> QED
    BY <2>4, <2>6 DEF FieldInv
<1>6. ASSUME NEW g \in FieldsOf[p], g # "LineAlignment"
      PROVE  FieldInv(p, g)'
  <2>1. FieldInv(p, g)
    BY <1>1, <1>2 DEF PageInv
  <2>2. /\ writable' = writable /\ (dialog'[p] # "none" <=> dialog[p] # "none")
        /\ settings'[g] = settings[g] /\ control'[g] = control[g] /\ key'[g] = key[g]
        /\ dirty[p] => dirty'[p]
        /\ g \in suspect \cup blind => g \in suspect' \cup blind'
        /\ p \in reset' => p \in reset
    BY <1>1, <1>3, <1>4
  <2> QED
    BY <1>1, <1>6, <2>1, <2>2, FieldKept
<1>7. \A g \in FieldsOf[p] : FieldInv(p, g)'
  BY <1>5, <1>6
<1>8. /\ settings' \in [Fields -> Values] /\ control' \in [Fields -> Values]
      /\ checked' \subseteq Buttons /\ reset' \subseteq reset \cup {p}
  BY <1>1, <1>2 DEF TypeInv
<1> QED
  BY <1>1, <1>4, <1>7, <1>8, EditKeeps

LEMMA ChooseKeeps ==
  ASSUME NEW p \in Pages, NEW f \in Fields,
         NEW v \in Valid[f] \cup (IF f = "FontSize" THEN {"bad"} ELSE {})
  PROVE  SettingsInv /\ Choose(p, f, v) => SettingsInv'
<1> SUFFICES ASSUME SettingsInv, Choose(p, f, v)
             PROVE  SettingsInv'
  OBVIOUS
<1>1. /\ f \in Chosen /\ f \in FieldsOf[p] /\ Edit(p)
      /\ settings' = [settings EXCEPT ![f] = v]
      /\ dirty' = [dirty EXCEPT ![p] = @ \/ TRUE] /\ reset' = reset \ {p}
      /\ UNCHANGED <<control, checked>>
  BY DEF Choose, Dirty
<1>2. TypeInv /\ PageInv
  BY DEF SettingsInv
<1>3. /\ UNCHANGED <<key, writable, filter, dialog, open, suspect, blind>>
  BY <1>1 DEF Edit
<1>4. v \in Values /\ Clean(f, v) \in Valid[f]
  BY EditedValues
<1>5. settings' \in [Fields -> Values] /\ settings'[f] = v
  BY <1>1, <1>2, <1>4 DEF TypeInv
<1>6. dirty' \in [Pages -> BOOLEAN] /\ dirty'[p] /\ \A q \in Pages : dirty[q] => dirty'[q]
  BY <1>1, <1>2 DEF TypeInv
<1>7. FieldInv(p, f)'
  <2>1. Held(f)' = v
    BY <1>1, <1>5 DEF Held
  <2> QED
    BY <1>1, <1>4, <1>6, <2>1 DEF FieldInv, Caused, Saved, Restored
<1>8. ASSUME NEW g \in FieldsOf[p], g # f
      PROVE  FieldInv(p, g)'
  <2>1. FieldInv(p, g) /\ g \in Fields
    BY <1>2, OnePage DEF PageInv
  <2>2. settings'[g] = settings[g]
    BY <1>1, <1>2, <1>8, <2>1 DEF TypeInv
  <2> QED
    BY <1>1, <1>3, <1>6, <2>1, <2>2, FieldKept
<1>9. \A g \in Fields \ FieldsOf[p] : settings'[g] = settings[g] /\ control'[g] = control[g]
  BY <1>1, <1>2 DEF TypeInv
<1>10. \A g \in FieldsOf[p] : FieldInv(p, g)'
  BY <1>7, <1>8
<1>11. control' \in [Fields -> Values] /\ checked' \subseteq Buttons /\ reset' \subseteq reset \cup {p}
  BY <1>1, <1>2 DEF TypeInv
<1> QED
  BY <1>1, <1>5, <1>6, <1>9, <1>10, <1>11, EditKeeps

LEMMA ResetKeeps == ASSUME NEW p \in Pages PROVE SettingsInv /\ Reset(p) => SettingsInv'
<1> SUFFICES ASSUME SettingsInv, Reset(p)
             PROVE  SettingsInv'
  OBVIOUS
<1>1. /\ Edit(p)
      /\ settings' = [f \in Fields |-> IF f \in FieldsOf[p] THEN Default[f] ELSE settings[f]]
      /\ control' = [f \in Fields |-> IF f \in FieldsOf[p] THEN Default[f] ELSE control[f]]
      /\ checked' = ResetChecks(p)
      /\ dirty' = [dirty EXCEPT ![p] = TRUE]
      /\ reset' = reset \cup {p}
  BY DEF Reset
<1>2. TypeInv /\ PageInv
  BY DEF SettingsInv
<1>3. /\ UNCHANGED <<key, writable, filter, dialog, open, suspect, blind>>
      /\ dialog[p] = "shown"
  BY <1>1 DEF Edit
<1>4. \A f \in Fields : Default[f] \in Valid[f] /\ Default[f] \in Values /\ Clean(f, Default[f]) = Default[f]
  BY ValidValues
<1>5. settings' \in [Fields -> Values] /\ control' \in [Fields -> Values]
  BY <1>1, <1>2, <1>4 DEF TypeInv
<1>6. dirty' \in [Pages -> BOOLEAN] /\ dirty'[p] /\ \A q \in Pages : dirty[q] => dirty'[q]
  BY <1>1, <1>2 DEF TypeInv
<1>7. /\ checked' \subseteq Buttons
      /\ p = "Settings" => "2" \in checked'
      /\ p # "Settings" => checked' = checked
  BY <1>1, <1>2 DEF ResetChecks, TypeInv, Buttons
<1>8. ASSUME NEW f \in FieldsOf[p]
      PROVE  FieldInv(p, f)'
  <2>1. f \in Fields /\ (f = "LineAlignment" => p = "Settings")
    BY OnePage
  <2>2. Held(f)' = Default[f]
    BY <1>1, <2>1 DEF Held
  <2>3. Caused(p, f)' /\ Saved(p, f)'
    BY <1>4, <1>6, <2>1, <2>2 DEF Caused, Saved
  <2>4. Restored(p, f)'
    BY <1>3, <1>7, <2>1, <2>2 DEF Restored
  <2> QED
    BY <2>3, <2>4 DEF FieldInv
<1>9. \A g \in Fields \ FieldsOf[p] : settings'[g] = settings[g] /\ control'[g] = control[g]
  BY <1>1
<1>10. reset' \subseteq reset \cup {p}
  BY <1>1
<1> QED
  BY <1>1, <1>5, <1>6, <1>7, <1>8, <1>9, <1>10, EditKeeps

-----------------------------------------------------------------------------
(* Apply.                                                                  *)

\* What Apply saves: what the page holds, cleaned, if it has a dialog.
LEMMA AppliedFacts ==
  ASSUME TypeInv, NEW p \in Pages, NEW f \in FieldsOf[p]
  PROVE  /\ Applied(f) \in Values
         /\ Clean(f, Applied(f)) = Applied(f)
         /\ dialog[p] # "none" /\ f # "LineAlignment" => Applied(f) = Clean(f, Held(f))
         /\ f = "LineAlignment" => Applied(f) = FirstChecked /\ Applied(f) \in Valid[f]
<1>1. f \in Fields /\ PageOf(f) = p
  BY OnePage
<1>2. settings[f] \in Values /\ control[f] \in Values
  BY <1>1, Types
<1>3. CASE f = "LineAlignment"
  <2>1. Applied(f) = FirstChecked
    BY <1>3 DEF Applied, Chosen
  <2>2. FirstChecked \in Buttons
    BY Alignment
  <2> QED
    BY <1>1, <1>3, <2>1, <2>2, ValidValues
<1>4. CASE f \in Chosen
  <2>1. f # "LineAlignment"
    BY <1>4 DEF Chosen
  <2>2. Applied(f) = Clean(f, settings[f]) /\ Held(f) = settings[f]
    BY <1>4, <2>1 DEF Applied, Held
  <2> QED
    BY <1>1, <1>2, <2>1, <2>2, ValidValues
<1>5. CASE f # "LineAlignment" /\ f \notin Chosen
  <2>1. Applied(f) = Clean(f, FromControl(f)) /\ Held(f) = control[f]
    BY <1>5 DEF Applied, Held
  <2>2. FromControl(f) \in Values
    BY <1>1, <1>2 DEF FromControl, Values
  <2>3. dialog[p] # "none" => FromControl(f) = control[f]
    BY <1>1 DEF FromControl
  <2> QED
    BY <1>1, <1>5, <2>1, <2>2, <2>3, ValidValues
<1> QED
  BY <1>3, <1>4, <1>5

\* Apply saves the fields of the dirty pages and leaves the others alone, and so with
\* the causes.
LEMMA ApplyFacts ==
  ASSUME SettingsInv, Apply, NEW p \in Pages, NEW f \in FieldsOf[p]
  PROVE  /\ UNCHANGED <<writable, filter, control, checked, dialog, open, reset>>
         /\ ~dirty'[p]
         /\ ~writable => key' = key /\ suspect' = suspect
         /\ writable => key # NoKey
         /\ settings'[f] = IF dirty[p] THEN Applied(f) ELSE settings[f]
         /\ writable => key'[f] = IF dirty[p] THEN Applied(f) ELSE key[f]
         /\ f \in suspect \cup blind => \/ f \in suspect' \cup blind'
                                        \/ dirty[p] /\ Applied(f) \in Valid[f]
         /\ dirty[p] /\ dialog[p] = "none" /\ Applied(f) \notin Valid[f] => f \in blind'
<1> DEFINE saved == UNION {FieldsOf[q] : q \in {q \in Pages : dirty[q]}}
           proper == {g \in saved : Applied(g) \in Valid[g]}
<1>1. /\ open
      /\ settings' = [g \in Fields |-> IF g \in saved THEN Applied(g) ELSE settings[g]]
      /\ key' = IF ~writable THEN key
                ELSE [g \in Fields |-> CASE g \in saved -> Applied(g)
                                         [] key = NoKey -> "absent"
                                         [] OTHER -> key[g]]
      /\ dirty' = [q \in Pages |-> FALSE]
      /\ suspect' = IF writable THEN suspect \ proper ELSE suspect
      /\ blind' = (blind \cup {g \in saved : dialog[PageOf(g)] = "none"}) \ proper
      /\ UNCHANGED <<writable, filter, control, checked, dialog, open, edits, reset>>
  BY Zenon DEF Apply
<1>2. f \in Fields /\ PageOf(f) = p /\ (f \in saved <=> dirty[p])
  BY OnePage
<1>3. f \in proper <=> dirty[p] /\ Applied(f) \in Valid[f]
  BY <1>2
<1>4. writable => key # NoKey
  BY <1>1 DEF SettingsInv, FrameInv
<1> HIDE DEF saved, proper
<1>5. writable => key'[f] = IF dirty[p] THEN Applied(f) ELSE key[f]
  BY <1>1, <1>2, <1>4
<1>6. settings'[f] = IF dirty[p] THEN Applied(f) ELSE settings[f]
  BY <1>1, <1>2
<1>7. f \in suspect \cup blind => \/ f \in suspect' \cup blind'
                                  \/ dirty[p] /\ Applied(f) \in Valid[f]
  BY <1>1, <1>3
<1>8. dirty[p] /\ dialog[p] = "none" /\ Applied(f) \notin Valid[f] => f \in blind'
  BY <1>1, <1>2, <1>3
<1> QED
  BY <1>1, <1>4, <1>5, <1>6, <1>7, <1>8

LEMMA ApplyKeeps == SettingsInv /\ Apply => SettingsInv'
<1> SUFFICES ASSUME SettingsInv, Apply
             PROVE  SettingsInv'
  OBVIOUS
<1>1. TypeInv /\ FrameInv /\ ReadOnlyInv /\ WritableInv /\ PageInv
  BY DEF SettingsInv
<1>2. /\ "Settings" \in Pages /\ "FontSize" \in FieldsOf["Settings"] /\ "FontSize" \in Fields
      /\ \A f \in Fields : \E p \in Pages : f \in FieldsOf[p]
  BY FieldFacts DEF Pages
<1>3. /\ UNCHANGED <<writable, filter, control, checked, dialog, open, reset>>
      /\ ~writable => key' = key /\ suspect' = suspect
      /\ writable => key # NoKey
  BY <1>2, ApplyFacts
<1>4. TypeInv'
  <2>1. \A f \in Fields : settings'[f] \in Values /\ (writable => key'[f] \in Values \cup {"absent"})
    BY <1>1, <1>2, <1>3, AppliedFacts, ApplyFacts, Types
  <2>2. settings' \in [Fields -> Values]
    <3>1. settings' = [f \in Fields |->
             IF f \in UNION {FieldsOf[p] : p \in {q \in Pages : dirty[q]}}
             THEN Applied(f) ELSE settings[f]]
      BY Zenon DEF Apply
    <3>2. settings' = [f \in Fields |-> settings'[f]]
      BY <3>1
    <3> QED
      BY <2>1, <3>2
  <2>3. ASSUME writable
        PROVE  key' \in [Fields -> Values \cup {"absent"}]
    <3> DEFINE saved == UNION {FieldsOf[q] : q \in {q \in Pages : dirty[q]}}
    <3>1. key' = [f \in Fields |-> CASE f \in saved -> Applied(f)
                                     [] key = NoKey -> "absent"
                                     [] OTHER -> key[f]]
      BY <2>3, Zenon DEF Apply
    <3> HIDE DEF saved
    <3>2. key' = [f \in Fields |-> key'[f]]
      BY <3>1
    <3> QED
      BY <2>1, <2>3, <3>2
  <2>4. dirty' = [p \in Pages |-> FALSE]
    BY DEF Apply
  <2> QED
    BY <1>1, <1>3, <2>2, <2>3, <2>4 DEF TypeInv
<1>5. FrameInv'
  <2>1. writable => key'["FontSize"] \in Values \cup {"absent"}
    BY <1>1, <1>2, <1>3, AppliedFacts, ApplyFacts, Types
  <2>2. "no key" \notin Values \cup {"absent"} /\ NoKey["FontSize"] = "no key"
    BY <1>2 DEF NoKey, Values
  <2>3. writable => key' # NoKey
    BY <2>1, <2>2
  <2> QED
    BY <1>1, <1>3, <2>3 DEF FrameInv
<1>6. ReadOnlyInv'
  BY <1>1, <1>3 DEF ReadOnlyInv
<1>7. WritableInv'
  <2> SUFFICES ASSUME writable, NEW f \in Fields, key'[f] \notin Valid[f]
               PROVE  f \in suspect' \cup blind'
    BY <1>3 DEF WritableInv
  <2>1. PICK p \in Pages : f \in FieldsOf[p]
    BY <1>2
  <2>2. key[f] \notin Valid[f] => f \in suspect \cup blind
    BY <1>1, <1>3 DEF WritableInv
  <2>3. Caused(p, f)
    BY <1>1, <2>1 DEF PageInv, FieldInv
  <2> QED
    BY <1>1, <2>1, <2>2, <2>3, AppliedFacts, ApplyFacts DEF Caused
<1>8. ASSUME NEW p \in Pages, NEW f \in FieldsOf[p]
      PROVE  FieldInv(p, f)'
  <2>1. FieldInv(p, f) /\ f \in Fields
    BY <1>1, OnePage DEF PageInv
  <2>2. CASE ~dirty[p]
    <3>1. /\ settings'[f] = settings[f] /\ key'[f] = key[f]
          /\ f \in suspect \cup blind => f \in suspect' \cup blind'
      BY <1>3, <2>2, ApplyFacts
    <3> QED
      BY <1>3, <2>1, <2>2, <3>1, FieldKept
  <2>3. CASE dirty[p]
    <3>1. /\ settings'[f] = Applied(f)
          /\ writable => key'[f] = Applied(f)
          /\ f \in suspect \cup blind => \/ f \in suspect' \cup blind'
                                         \/ Applied(f) \in Valid[f]
      BY <2>3, ApplyFacts
    <3>2. /\ Applied(f) \in Values
          /\ Clean(f, Applied(f)) = Applied(f)
          /\ dialog[p] # "none" /\ f # "LineAlignment" => Applied(f) = Clean(f, Held(f))
          /\ f = "LineAlignment" => Applied(f) = FirstChecked /\ Applied(f) \in Valid[f]
      BY <1>1, AppliedFacts
    <3>3. Held(f)' = IF f \in Chosen THEN Applied(f) ELSE control[f]
      BY <1>3, <3>1 DEF Held
    <3>4. dialog[p] # "none" /\ f # "LineAlignment" => Clean(f, Held(f)') = Applied(f)
      BY <3>2, <3>3 DEF Held
    <3>5. dialog[p] # "none" => Clean(f, Seen(f)') = Applied(f)
      <4>1. CASE f = "LineAlignment"
        <5>1. Seen(f)' = FirstChecked
          BY <1>3, <4>1 DEF Seen, FirstChecked, Chosen
        <5> QED
          BY <3>2, <4>1, <5>1
      <4>2. CASE f # "LineAlignment"
        <5>1. Seen(f)' = Held(f)'
          BY <4>2 DEF Seen, Held
        <5> QED
          BY <3>4, <4>2, <5>1
      <4> QED
        BY <4>1, <4>2
    <3>6. Caused(p, f)'
      <4>1. writable /\ dialog[p] # "none" /\ f # "LineAlignment" /\ f \notin suspect \cup blind
              => Applied(f) \in Valid[f]
        BY <2>1, <3>2 DEF FieldInv, Caused
      <4> QED
        BY <1>3, <3>1, <3>4, <4>1 DEF Caused
    <3>7. Saved(p, f)'
      BY <1>3, <3>1, <3>5 DEF Saved
    <3>8. Restored(p, f)'
      <4> SUFFICES ASSUME p \in reset
                   PROVE  IF f = "LineAlignment" THEN "2" \in checked ELSE Held(f)' = Default[f]
        BY <1>3, <2>1 DEF FieldInv, Restored
      <4>1. /\ dialog[p] # "none"
            /\ IF f = "LineAlignment" THEN "2" \in checked ELSE Held(f) = Default[f]
        BY <2>1 DEF FieldInv, Restored
      <4>2. f # "LineAlignment" => Applied(f) = Default[f]
        BY <2>1, <3>2, <4>1, ValidValues
      <4> QED
        BY <3>3, <4>1, <4>2 DEF Held
    <3> QED
      BY <3>6, <3>7, <3>8 DEF FieldInv
  <2> QED
    BY <2>2, <2>3
<1>9. PageInv'
  BY <1>8 DEF PageInv
<1> QED
  BY <1>4, <1>5, <1>6, <1>7, <1>9 DEF SettingsInv

-----------------------------------------------------------------------------
(* The theorems.                                                           *)

LEMMA SettingsStep == SettingsInv /\ [Next]_vars => SettingsInv'
<1> SUFFICES ASSUME SettingsInv, [Next]_vars
             PROVE  SettingsInv'
  OBVIOUS
<1>1. CASE CreateFilter
  BY <1>1, CreateFilterKeeps
<1>2. CASE DestroyFilter
  BY <1>2, DestroyFilterKeeps
<1>3. CASE \E p \in Pages : OpenFrame(p) \/ Reset(p)
  BY <1>3, OpenFrameKeeps, ResetKeeps
<1>4. CASE \E p, q \in Pages : SwitchTab(p, q)
  BY <1>4, SwitchTabKeeps
<1>5. CASE CloseFrame
  BY <1>5, CloseFrameKeeps
<1>6. CASE \E p \in Pages, f \in Fields : ClickCheck(p, f)
  BY <1>6, ClickCheckKeeps
<1>7. CASE \E p \in Pages, f \in Fields :
             \E v \in Valid[f] \cup (IF f = "FontScaleX" THEN {"zero", "tooBig"} ELSE {}) : Type(p, f, v)
  BY <1>7, TypeKeeps
<1>8. CASE \E p \in Pages, f \in Fields :
             \E v \in Valid[f] \cup (IF f = "FontSize" THEN {"bad"} ELSE {}) : Choose(p, f, v)
  BY <1>8, ChooseKeeps
<1>9. CASE \E b \in Buttons : ClickRadio(b)
  BY <1>9, ClickRadioKeeps
<1>10. CASE Apply
  BY <1>10, ApplyKeeps
<1>11. CASE UNCHANGED vars
  <2>1. UNCHANGED <<key, writable, filter, settings, control, checked, dirty, dialog, open,
                    suspect, blind, reset>>
    BY <1>11 DEF vars, pageVars, history
  <2>2. TypeInv /\ FrameInv /\ ReadOnlyInv /\ WritableInv /\ PageInv
    BY DEF SettingsInv
  <2>3. TypeInv' /\ FrameInv' /\ ReadOnlyInv' /\ WritableInv'
    BY <2>1, <2>2 DEF TypeInv, FrameInv, ReadOnlyInv, WritableInv
  <2>4. PageInv'
    BY <2>1, <2>2, PagesKept
  <2> QED
    BY <2>3, <2>4 DEF SettingsInv
<1> QED
  BY <1>1, <1>2, <1>3, <1>4, <1>5, <1>6, <1>7, <1>8, <1>9, <1>10, <1>11 DEF Next

\* The types, and what the key, m_settings and the controls have to do with each
\* other, whatever the key holds at the start and whoever may write it.
THEOREM Invariance == Spec => []SettingsInv
<1>1. Init => SettingsInv
  BY InitSettings
<1>2. SettingsInv /\ [Next]_vars => SettingsInv'
  BY SettingsStep
<1> QED
  BY <1>1, <1>2, PTL DEF Spec

\* An automatic button unchecks the others, LoadDefaults unchecks none.
LEMMA ButtonsStep ==
  ASSUME SettingsInv, ButtonsInv, [Next]_vars
  PROVE  ButtonsInv'
<1>1. dialog \in [Pages -> {"shown", "hidden", "none"}]
  BY DEF SettingsInv, TypeInv
<1>2. "Settings" \in Pages /\ "2" \in Buttons
  BY DEF Pages, Buttons
<1>3. CASE UNCHANGED <<checked, dialog>>
  BY <1>3 DEF ButtonsInv
<1>4. CASE CreateFilter \/ DestroyFilter \/ Apply \/ UNCHANGED vars
  <2>1. UNCHANGED <<checked, dialog>>
    BY <1>4, Zenon DEF CreateFilter, DestroyFilter, Apply, vars, pageVars
  <2> QED
    BY <2>1, <1>3
<1>5. CASE \E p \in Pages, f \in Fields :
             \/ ClickCheck(p, f)
             \/ \E v \in Valid[f] \cup (IF f = "FontScaleX" THEN {"zero", "tooBig"} ELSE {}) : Type(p, f, v)
             \/ \E v \in Valid[f] \cup (IF f = "FontSize" THEN {"bad"} ELSE {}) : Choose(p, f, v)
  <2>1. UNCHANGED <<checked, dialog>>
    BY <1>5 DEF ClickCheck, Type, Choose, Edit
  <2> QED
    BY <2>1, <1>3
<1>6. CASE \E b \in Buttons : ClickRadio(b)
  BY <1>6 DEF ClickRadio, ButtonsInv
<1>7. CASE CloseFrame
  BY <1>2, <1>7 DEF CloseFrame, ButtonsInv
<1>8. ASSUME NEW p \in Pages, Reset(p)
      PROVE  ButtonsInv'
  <2>1. dialog' = dialog /\ checked' = IF p = "Settings" THEN checked \cup {"2"} ELSE checked
    BY <1>8 DEF Reset, Edit, ResetChecks
  <2> QED
    BY <2>1 DEF ButtonsInv
<1>9. ASSUME NEW p \in Pages, Activate(p)
      PROVE  IF p = "Settings" THEN \E b \in Buttons : checked' = {b} ELSE checked' = checked
  BY <1>9, Zenon DEF Activate
<1>10. ASSUME NEW p \in Pages, OpenFrame(p)
       PROVE  ButtonsInv'
  <2>1. dialog' = [dialog EXCEPT ![p] = "shown"] /\ Activate(p)
    BY <1>10 DEF OpenFrame
  <2> QED
    BY <1>1, <1>2, <1>9, <2>1 DEF ButtonsInv
<1>11. ASSUME NEW p \in Pages, NEW q \in Pages, SwitchTab(p, q)
       PROVE  ButtonsInv'
  <2>1. /\ p # q /\ dialog[p] = "shown"
        /\ \E left \in {"hidden", "none"} : dialog' = [dialog EXCEPT ![p] = left, ![q] = "shown"]
        /\ dialog[q] = "none" => Activate(q)
        /\ dialog[q] # "none" => checked' = checked
    BY <1>11, Zenon DEF SwitchTab
  <2>2. CASE dialog[q] = "none"
    BY <1>1, <1>2, <1>9, <2>1, <2>2 DEF ButtonsInv
  <2>3. CASE dialog[q] # "none"
    BY <1>1, <1>2, <2>1, <2>3 DEF ButtonsInv
  <2> QED
    BY <2>2, <2>3
<1> QED
  BY <1>4, <1>5, <1>6, <1>7, <1>8, <1>10, <1>11 DEF Next

\* A page on the screen without an active Apply button shows what is saved
\* (AssFilterSettingsProps.cpp:659-935): it was filled from the key or was applied,
\* and was not edited since to another value than m_settings has.  Only a scale of 0
\* stays in its edit while 100 is saved (AssFilterSettingsProps.cpp:204-206), and the
\* default's button beside the one that is saved (AssFilterSettingsProps.cpp:449).
THEOREM CleanPageShowsTheKey == Spec => []ShownIsSaved
<1>1. Init => ButtonsInv
  BY DEF Init, ButtonsInv, Pages
<1>2. SettingsInv /\ ButtonsInv /\ [Next]_vars => ButtonsInv'
  BY ButtonsStep
<1>3. SettingsInv /\ ButtonsInv => ShownIsSaved
  <2> SUFFICES ASSUME SettingsInv, ButtonsInv, NEW p \in Pages, NEW f \in FieldsOf[p],
                      dialog[p] = "shown", ~dirty[p], writable, key[f] \in Valid[f]
               PROVE  Shows(f, key[f]) \/ ZeroForHundred(f) \/ TwoButtons(f)
    BY DEF ShownIsSaved
  <2>1. f \in Fields /\ (f = "LineAlignment" => p = "Settings")
    BY OnePage
  <2>2. settings[f] = key[f] /\ Clean(f, Seen(f)) = key[f]
    BY DEF SettingsInv, PageInv, FieldInv, Saved
  <2>3. CASE f \in Chosen
    BY <2>2, <2>3 DEF Shows, Chosen
  <2>4. CASE f = "LineAlignment"
    <3>1. FirstChecked = key[f]
      BY <2>2, <2>4 DEF Seen, Clean, Chosen
    <3>2. PICK b \in Buttons : checked = {b} \/ checked = {b, "2"}
      BY <2>1, <2>4 DEF ButtonsInv
    <3>3. CASE checked = {b}
      <4>1. FirstChecked = b
        BY <2>1, <2>4, <3>3, Alignment
      <4> QED
        BY <2>4, <3>1, <3>3, <4>1 DEF Shows, Chosen
    <3>4. CASE checked = {b, "2"} /\ b # "2"
      <4>1. Cardinality({b, "2"}) = 2
        <5>1. "2" \notin {b} /\ {b, "2"} = {b} \cup {"2"}
          BY <3>4
        <5>2. IsFiniteSet({b}) /\ Cardinality({b}) = 1
          BY FS_Singleton
        <5>3. Cardinality({b} \cup {"2"}) = Cardinality({b}) + 1
          BY <5>1, <5>2, FS_AddElement
        <5> QED
          BY <5>1, <5>2, <5>3
      <4> QED
        BY <2>4, <3>1, <3>4, <4>1 DEF TwoButtons
    <3> QED
      BY <3>2, <3>3, <3>4
  <2>5. CASE f \notin Chosen /\ f # "LineAlignment"
    <3>1. Clean(f, control[f]) = key[f] /\ f # "FontSize"
      BY <2>2, <2>5 DEF Seen, Chosen
    <3> QED
      BY <2>5, <3>1 DEF Shows, ZeroForHundred, Clean
  <2> QED
    BY <2>3, <2>4, <2>5
<1> QED
  BY <1>1, <1>2, <1>3, Invariance, PTL DEF Spec

\* A value out of its range in the key was there at the start, or comes from a page
\* that was applied without a dialog (AssFilterSettingsProps.cpp:189-321, 1307-1328):
\* no edit and no order of tabs leads to one.
THEOREM OnlyBlindPagesSaveJunk == Spec => []BadValuesHaveACause
<1>1. SettingsInv => BadValuesHaveACause
  <2> SUFFICES ASSUME SettingsInv, key # NoKey, NEW f \in Fields, key[f] \notin Valid[f]
               PROVE  f \in suspect \cup blind
    BY DEF BadValuesHaveACause
  <2>1. writable \in BOOLEAN /\ ReadOnlyInv /\ WritableInv
    BY DEF SettingsInv, TypeInv
  <2> QED
    BY <2>1 DEF ReadOnlyInv, WritableInv
<1> QED
  BY <1>1, Invariance, PTL

\* Only Apply and the end of the frame make a page clean.
LEMMA DirtyStays ==
  ASSUME SettingsInv, [Next]_vars, ~Apply, ~CloseFrame, NEW p \in Pages, dirty[p]
  PROVE  dirty'[p]
<1>1. dirty \in [Pages -> BOOLEAN]
  BY DEF SettingsInv, TypeInv
<1>2. ASSUME NEW q \in Pages, NEW changed \in BOOLEAN, dirty' = [dirty EXCEPT ![q] = @ \/ changed]
      PROVE  dirty'[p]
  BY <1>1, <1>2
<1>3. CASE UNCHANGED dirty
  BY <1>3
<1>4. CASE \E q \in Pages : OpenFrame(q)
  BY <1>2, <1>4 DEF OpenFrame, Activate
<1>5. CASE \E q \in Pages : Reset(q)
  BY <1>1, <1>5 DEF Reset
<1>6. CASE \E r, q \in Pages : SwitchTab(r, q)
  BY <1>2, <1>3, <1>6 DEF SwitchTab, Activate
<1>7. CASE \E q \in Pages, f \in Fields :
             \/ ClickCheck(q, f)
             \/ \E v \in Valid[f] \cup (IF f = "FontScaleX" THEN {"zero", "tooBig"} ELSE {}) : Type(q, f, v)
             \/ \E v \in Valid[f] \cup (IF f = "FontSize" THEN {"bad"} ELSE {}) : Choose(q, f, v)
  BY <1>2, <1>7 DEF ClickCheck, Type, Choose, Dirty
<1>8. CASE \E b \in Buttons : ClickRadio(b)
  BY <1>2, <1>8 DEF ClickRadio, Dirty, Pages
<1>9. CASE CreateFilter \/ DestroyFilter \/ UNCHANGED vars
  BY <1>3, <1>9 DEF CreateFilter, DestroyFilter, vars, pageVars
<1> QED
  BY <1>4, <1>5, <1>6, <1>7, <1>8, <1>9 DEF Next

\* What Reset shows is what the next Apply saves, for every field but the alignment
\* (AssFilterSettingsProps.cpp:449), whatever tabs are visited in between.
THEOREM ApplyAfterReset == Spec => ResetRestores
<1>1. SettingsInv /\ [Next]_vars => \A p \in Pages : ResetSaved(p)
  <2> SUFFICES ASSUME SettingsInv, [Next]_vars, NEW p \in Pages,
                      p \in reset, dirty[p], ~dirty'[p], open', writable, NEW f \in FieldsOf[p]
               PROVE  key'[f] = IF f = "LineAlignment" /\ "7" \in checked THEN "7" ELSE Default[f]
    BY DEF ResetSaved
  <2>1. TypeInv /\ FieldInv(p, f) /\ f \in Fields /\ (f = "LineAlignment" => p = "Settings")
    BY OnePage DEF SettingsInv, PageInv
  <2>2. ~CloseFrame
    BY DEF CloseFrame
  <2>3. Apply
    BY <2>2, DirtyStays
  <2>4. key'[f] = Applied(f)
    BY <2>3, ApplyFacts
  <2>5. /\ dialog[p] # "none"
        /\ IF f = "LineAlignment" THEN "2" \in checked ELSE Held(f) = Default[f]
    BY <2>1 DEF FieldInv, Restored
  <2>6. CASE f # "LineAlignment"
    BY <2>1, <2>4, <2>5, <2>6, AppliedFacts, ValidValues
  <2>7. CASE f = "LineAlignment"
    <3>1. Applied(f) = FirstChecked
      BY <2>1, <2>7, AppliedFacts
    <3>2. FirstChecked = IF "7" \in checked THEN "7" ELSE "2"
      BY <2>1, <2>5, <2>7, Alignment
    <3>3. Default[f] = "2"
      BY <2>1, <2>7 DEF Default, Checks
    <3> QED
      BY <2>4, <2>7, <3>1, <3>2, <3>3
  <2> QED
    BY <2>6, <2>7
<1> QED
  BY <1>1, Invariance, PTL DEF Spec, ResetRestores

=============================================================================
