------------------------------ MODULE Settings ------------------------------
(***************************************************************************)
(* The settings: the registry key, the copy a filter reads when it is      *)
(* created, and the two property pages, which read and write the key       *)
(* themselves, each for the fields it shows.                               *)
(*                                                                         *)
(* Of every kind of field there is one: a check box on each page, a number *)
(* that is typed, the alignment with its radio buttons, a font size and a  *)
(* colour that are chosen in dialogs of the system, a combo box and a text.*)
(* The frame around the pages belongs to the system: it may hide a page's  *)
(* dialog or destroy it when another tab is chosen, and applies every page.*)
(***************************************************************************)
EXTENDS Naturals, FiniteSets

CONSTANTS
  StartKeys,  \* the states of the registry key at the start: NoKey, or a value
              \* or "absent" for every field
  MaxEdits    \* bound: the edits of the user

Pages == {"Settings", "General"}

FieldsOf == [p \in Pages |->
  IF p = "Settings"
  THEN {"ScaledBorderAndShadow", "FontScaleX", "LineAlignment", "FontSize", "ColorPrimary"}
  ELSE {"DisableAutoLoad", "CustomRes", "ExtraSubsDir"}]

Fields == UNION {FieldsOf[p] : p \in Pages}

Checks == {"ScaledBorderAndShadow", "DisableAutoLoad"}
Chosen == {"FontSize", "ColorPrimary"}  \* in a dialog of the system: no control of the page's
Typed == {"FontScaleX", "ExtraSubsDir", "CustomRes"}

NoKey == [f \in Fields |-> "no key"]
NoFilter == [f \in Fields |-> "no filter"]

\* Three of the nine buttons, by the alignment they stand for: RADIO1, RADIO8 and
\* RADIO9, in the order in which Apply looks at them.
Buttons == {"7", "2", "3"}

Default == [f \in Fields |->
  CASE f = "ScaledBorderAndShadow" -> "on" [] f = "DisableAutoLoad" -> "off"
    [] f = "LineAlignment" -> "2" [] OTHER -> "default"]

\* What a field may hold that was set on purpose.
Valid == [f \in Fields |->
  CASE f \in Checks -> {"on", "off"} [] f = "LineAlignment" -> Buttons
    [] OTHER -> {"default", "other"}]

\* "junk" is an indeterminate value, "empty" that of a string never assigned; "bad",
\* "zero" and "tooBig" are values out of the field's range.
Values == {"on", "off", "7", "2", "3", "default", "other", "bad", "zero", "tooBig",
           "junk", "empty"}

ASSUME StartKeysAssumption ==
  StartKeys \subseteq {NoKey} \cup [Fields -> Values \cup {"absent"}]
ASSUME MaxEditsAssumption == MaxEdits \in Nat

VARIABLES
  key,       \* the registry key
  writable,  \* the user may create and write it
  filter,    \* m_settings of the filter
  settings,  \* m_settings of the pages
  control,   \* what the pages' check boxes, edits and combo boxes show
  checked,   \* the radio buttons that are checked
  dirty,     \* m_bDirty
  dialog,    \* "shown", "hidden" or "none": m_hwnd of each page
  open,      \* the frame is on the screen
  edits,     \* the edits made so far
  suspect,   \* history: the fields that were missing or out of range at the start,
             \* and no proper value has been saved since
  blind,     \* history: so for the fields of a page applied when it had no dialog
  reset      \* history: the pages that were reset, with no edit or dialog since

pageVars == <<settings, control, checked, dirty, dialog>>
history == <<suspect, blind, reset>>
vars == <<key, writable, filter, pageVars, open, edits, history>>

\* CAssFilterSettingsProp::m_settings has no initialiser; its strings do.
Uninitialised == [f \in Fields |-> IF f = "ExtraSubsDir" THEN "empty" ELSE "junk"]

Init ==
  /\ key \in StartKeys
  /\ writable \in BOOLEAN
  /\ filter = NoFilter
  /\ settings = Uninitialised
  /\ control = Uninitialised
  /\ checked = {}
  /\ dirty = [p \in Pages |-> FALSE]
  /\ dialog = [p \in Pages |-> "none"]
  /\ open = FALSE
  /\ edits = 0
  /\ suspect = {f \in Fields : key # NoKey /\ key[f] \notin Valid[f]}
  /\ blind = {}
  /\ reset = {}

-----------------------------------------------------------------------------
(* The filter.                                                             *)

Present(f) == key # NoKey /\ key[f] # "absent"

\* LoadSettings: the defaults, then what the key has; a missing key is created
\* with the defaults.
CreateFilter ==
  /\ filter = NoFilter
  /\ filter' = [f \in Fields |-> IF Present(f) THEN key[f] ELSE Default[f]]
  /\ key' = IF key = NoKey /\ writable THEN Default ELSE key
  /\ UNCHANGED <<writable, pageVars, open, edits, history>>

\* The frame holds a reference to the filter.
DestroyFilter ==
  /\ filter # NoFilter
  /\ ~open
  /\ filter' = NoFilter
  /\ UNCHANGED <<key, writable, pageVars, open, edits, history>>

-----------------------------------------------------------------------------
(* The frame and its tabs.                                                 *)

Clip(v) == IF v = "tooBig" THEN "other" ELSE v

\* OnActivate: read the fields the key has, keep m_settings for the others, and fill
\* the controls.  Filling an edit makes it send EN_CHANGE, which clips a number
\* that is too big and then finds it changed; of an indeterminate number nobody
\* knows.
Activate(p) ==
  /\ \E alignment \in Buttons :
       LET read == [f \in Fields |-> IF f \in FieldsOf[p] /\ Present(f) THEN key[f] ELSE settings[f]]
           known == read["LineAlignment"] \in Buttons
       IN
       /\ CASE known -> alignment = read["LineAlignment"]
            [] read["LineAlignment"] = "bad" -> alignment = "2"
            [] OTHER -> TRUE
       /\ settings' = IF p = "Settings" THEN [read EXCEPT !["LineAlignment"] = alignment] ELSE read
       /\ checked' = IF p = "Settings" THEN {alignment} ELSE checked
       /\ control' = [f \in Fields |-> IF f \in FieldsOf[p] THEN Clip(read[f]) ELSE control[f]]
       /\ \E changed \in BOOLEAN :
            /\ p = "Settings" /\ read["FontScaleX"] = "tooBig" => changed
            /\ changed => p = "Settings" /\ read["FontScaleX"] \in {"tooBig", "junk"}
            /\ dirty' = [dirty EXCEPT ![p] = @ \/ changed]

OpenFrame(p) ==
  /\ filter # NoFilter
  /\ ~open
  /\ open' = TRUE
  /\ dialog' = [dialog EXCEPT ![p] = "shown"]
  /\ Activate(p)
  /\ UNCHANGED <<key, writable, filter, edits, history>>

\* The page that is left is hidden, or deactivated: its dialog destroyed.
SwitchTab(p, q) ==
  /\ p # q
  /\ dialog[p] = "shown"
  /\ \E left \in {"hidden", "none"} :
       dialog' = [dialog EXCEPT ![p] = left, ![q] = "shown"]
  /\ IF dialog[q] = "none"
     THEN Activate(q)
     ELSE UNCHANGED <<settings, control, checked, dirty>>
  /\ reset' = {r \in reset : dialog'[r] # "none"}
  /\ UNCHANGED <<key, writable, filter, open, edits, suspect, blind>>

CloseFrame ==
  /\ open
  /\ open' = FALSE
  /\ settings' = Uninitialised
  /\ control' = Uninitialised
  /\ checked' = {}
  /\ dirty' = [p \in Pages |-> FALSE]
  /\ dialog' = [p \in Pages |-> "none"]
  /\ reset' = {}
  /\ UNCHANGED <<key, writable, filter, edits, suspect, blind>>

-----------------------------------------------------------------------------
(* Edits of the page that is shown.                                        *)

Edit(p) ==
  /\ dialog[p] = "shown"
  /\ edits < MaxEdits
  /\ edits' = edits + 1
  /\ UNCHANGED <<key, writable, filter, dialog, open, suspect, blind>>

Dirty(p, changed) ==
  /\ dirty' = [dirty EXCEPT ![p] = @ \/ changed]
  /\ reset' = reset \ {p}

ClickCheck(p, f) ==
  /\ f \in Checks \cap FieldsOf[p]
  /\ Edit(p)
  /\ \E v \in {"on", "off"} \ {control[f]} : control' = [control EXCEPT ![f] = v]
  /\ Dirty(p, TRUE)
  /\ UNCHANGED <<settings, checked>>

TypeUnclipped(p, f, v) ==
  /\ f \in Typed \cap FieldsOf[p]
  /\ Edit(p)
  /\ control' = [control EXCEPT ![f] = Clip(v)]
  /\ \E changed \in BOOLEAN :
       /\ settings[f] # "junk" => changed = (v \in Valid[f] /\ v # settings[f])
       /\ Dirty(p, changed)
  /\ UNCHANGED <<settings, checked>>

\* EN_CHANGE and CBN_SELCHANGE: a number is clipped, and the page dirty if the value
\* is not that of m_settings, which may be indeterminate.
Type(p, f, v) ==
  /\ f \in Typed \cap FieldsOf[p]
  /\ Edit(p)
  /\ control' = [control EXCEPT ![f] = Clip(v)]
  /\ \E changed \in BOOLEAN :
       /\ settings[f] # "junk" => changed = (Clip(v) # settings[f])
       /\ Dirty(p, changed)
  /\ UNCHANGED <<settings, checked>>

\* The button is an automatic one: it unchecks the others.
ClickRadio(b) ==
  /\ Edit("Settings")
  /\ checked' = {b}
  /\ Dirty("Settings", settings["LineAlignment"] # b)
  /\ UNCHANGED <<settings, control>>

\* ChooseFont and ChooseColor: the choice goes to m_settings at once.
Choose(p, f, v) ==
  /\ f \in Chosen \cap FieldsOf[p]
  /\ Edit(p)
  /\ settings' = [settings EXCEPT ![f] = v]
  /\ Dirty(p, TRUE)
  /\ UNCHANGED <<control, checked>>

\* BM_SETCHECK checks the default's button and leaves the others as they are.
ResetChecks(p) == IF p = "Settings" THEN checked \cup {"2"} ELSE checked

ResetSettingsOnly(p) ==
  /\ Edit(p)
  /\ settings' = [f \in Fields |-> IF f \in FieldsOf[p] THEN Default[f] ELSE settings[f]]
  /\ checked' = ResetChecks(p)
  /\ dirty' = [dirty EXCEPT ![p] = TRUE]
  /\ reset' = reset \cup {p}
  /\ UNCHANGED control

\* LoadDefaults.
Reset(p) ==
  /\ Edit(p)
  /\ settings' = [f \in Fields |-> IF f \in FieldsOf[p] THEN Default[f] ELSE settings[f]]
  /\ control' = [f \in Fields |-> IF f \in FieldsOf[p] THEN Default[f] ELSE control[f]]
  /\ checked' = ResetChecks(p)
  /\ dirty' = [dirty EXCEPT ![p] = TRUE]
  /\ reset' = reset \cup {p}

-----------------------------------------------------------------------------
(* Apply.                                                                  *)

PageOf(f) == CHOOSE p \in Pages : f \in FieldsOf[p]

\* What Apply gets from a control.  Without a dialog the messages return 0 and leave
\* the buffers, which are uninitialised, alone.
FromControl(f) ==
  IF dialog[PageOf(f)] # "none" THEN control[f]
  ELSE CASE f \in Checks -> "off" [] f = "CustomRes" -> "default" [] OTHER -> "junk"

FirstChecked ==
  IF dialog["Settings"] = "none" \/ checked = {} THEN "2"
  ELSE IF "7" \in checked THEN "7"
  ELSE IF "2" \in checked THEN "2"
  ELSE "3"

CleanNumberOnly(f, v) == IF f = "FontScaleX" /\ v = "zero" THEN "default" ELSE v

\* The checks before the settings are saved.
Clean(f, v) ==
  IF <<f, v>> \in {<<"FontScaleX", "zero">>, <<"FontSize", "bad">>} THEN "default" ELSE v

Applied(f) ==
  CASE f = "LineAlignment" -> FirstChecked
    [] f \in Chosen -> Clean(f, settings[f])
    [] OTHER -> Clean(f, FromControl(f))

\* Every page that is dirty saves its fields.  SaveSettings reports success although
\* the key could not be opened.
Apply ==
  LET saved == UNION {FieldsOf[p] : p \in {q \in Pages : dirty[q]}}
      proper == {f \in saved : Applied(f) \in Valid[f]}
  IN
  /\ open
  /\ saved # {}
  /\ settings' = [f \in Fields |-> IF f \in saved THEN Applied(f) ELSE settings[f]]
  /\ key' = IF ~writable THEN key
            ELSE [f \in Fields |-> CASE f \in saved -> Applied(f)
                                     [] key = NoKey -> "absent"
                                     [] OTHER -> key[f]]
  /\ dirty' = [p \in Pages |-> FALSE]
  /\ suspect' = IF writable THEN suspect \ proper ELSE suspect
  /\ blind' = (blind \cup {f \in saved : dialog[PageOf(f)] = "none"}) \ proper
  /\ UNCHANGED <<writable, filter, control, checked, dialog, open, edits, reset>>

Next ==
  \/ CreateFilter \/ DestroyFilter
  \/ \E p \in Pages : OpenFrame(p) \/ Reset(p)
  \/ \E p, q \in Pages : SwitchTab(p, q)
  \/ CloseFrame
  \/ \E p \in Pages, f \in Fields :
       \/ ClickCheck(p, f)
       \/ \E v \in Valid[f] \cup (IF f = "FontScaleX" THEN {"zero", "tooBig"} ELSE {}) : Type(p, f, v)
       \/ \E v \in Valid[f] \cup (IF f = "FontSize" THEN {"bad"} ELSE {}) : Choose(p, f, v)
  \/ \E b \in Buttons : ClickRadio(b)
  \/ Apply

Spec == Init /\ [][Next]_vars

-----------------------------------------------------------------------------
(* Properties.                                                             *)

\* The user reads the value v of a field on the screen: it is the one button that is
\* checked, the font or colour that is drawn, or what the control holds.
Shows(f, v) ==
  CASE f = "LineAlignment" -> checked = {v}
    [] f \in Chosen -> settings[f] = v
    [] OTHER -> control[f] = v

\* Apply saves a scale of 100 for one of 0, and leaves the 0 in the edit.
ZeroForHundred(f) == f = "FontScaleX" /\ control[f] = "zero" /\ key[f] = "default"

\* Reset checks the default's button beside the one that is checked; the first of the
\* two is the one that is saved.
TwoButtons(f) ==
  /\ f = "LineAlignment"
  /\ Cardinality(checked) = 2
  /\ "2" \in checked
  /\ FirstChecked = key[f]

\* A page that is on the screen, and for which the Apply button is not active, shows
\* what is saved, after any sequence of edits, applications and changes of the tab,
\* as far as the key can be written and holds a proper value for the field
\* (AssFilterSettingsProps.cpp:659-935: SetDirty is called when the value differs from
\* m_settings, not from the key or from what was shown before).  It does not in two
\* cases: a scale of 0 was applied (AssFilterSettingsProps.cpp:204-206), or the page
\* was reset and applied while another button was checked than the default's
\* (AssFilterSettingsProps.cpp:449).
ShownIsSaved ==
  \A p \in Pages, f \in Fields :
    f \in FieldsOf[p] /\ dialog[p] = "shown" /\ ~dirty[p] /\ writable /\ key # NoKey /\ key[f] \in Valid[f]
      => Shows(f, key[f]) \/ ZeroForHundred(f) \/ TwoButtons(f)

\* An indeterminate value, or one out of its range, is saved only in place of one that
\* was missing or out of range already, or because a page was applied that had no
\* dialog any more (AssFilterSettingsProps.cpp:189-321, 1307-1328).
BadValuesHaveACause ==
  key # NoKey => \A f \in Fields : key[f] \notin Valid[f] => f \in suspect \cup blind

\* Reset and then Apply saves the defaults, with one exception: the alignment keeps
\* its old value if that has a button before the default's, as LoadDefaults checks
\* the default's and unchecks none (AssFilterSettingsProps.cpp:449).
ResetSaved(p) ==
  p \in reset /\ dirty[p] /\ ~dirty'[p] /\ open' /\ writable =>
    \A f \in FieldsOf[p] :
      key'[f] = IF f = "LineAlignment" /\ "7" \in checked THEN "7" ELSE Default[f]

ResetRestores == [][\A p \in Pages : ResetSaved(p)]_vars


=============================================================================
