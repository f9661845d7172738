----------------------------- MODULE TextEditing ------------------------------
(***************************************************************************)
(* Text fields: TextInputControl and TextAreaControl                       *)
(* (gui_do/controls/input/text_input_control.py, text_area_control.py):    *)
(* the text, the cursor and the selection under typing, keys, the mouse    *)
(* and the program, whose on_change may set another text.                  *)
(*                                                                         *)
(* A text is a sequence of letters; positions count the letters before     *)
(* them.  A font is so wide that LineWidth letters fit.                    *)
(***************************************************************************)
EXTENDS Integers, SequencesExt, FiniteSetsExt

CONSTANTS
    Editors,    \* kinds of controls: "input", "area", "read only" (an area)
    Letters,    \* contains " " and "newline" where they matter
    Typed,      \* texts typed or pasted
    Replacements, \* texts the program sets
    MaxText,    \* max_length
    LineWidth   \* letters in a visual line

Texts == SeqOf(Letters, MaxText)

ASSUME TextEditingAssumption ==
    /\ Editors \subseteq {"input", "area", "read only"}
    /\ Typed \subseteq Seq(Letters) \ {<<>>} /\ Replacements \subseteq Texts
    /\ MaxText \in Nat /\ LineWidth \in Nat \ {0}

VARIABLES
    editor,    \* the kind of the control
    edit,      \* _value, _cursor_pos, _sel_anchor, _sel_active
    selecting, \* _drag_selecting
    laidOut,   \* _line_cache_key is that of the text
    focusHere, \* _focused
    told,      \* history: the text as the program knows it
    lastTyped, \* history: what was inserted, if nothing has happened since
    typedOver, \* history: typed with an anchor but nothing selected
    overflowed \* history: an area was full when something was typed

textVars == <<editor, edit, selecting, laidOut, focusHere, told, lastTyped, typedOver, overflowed>>

NoIndex == -1  \* None
PlainText(s, c) == [text |-> s, cursor |-> c, anchor |-> NoIndex, active |-> NoIndex]
FirstLetters(n, s) == SubSeq(s, 1, n)
LettersAfter(n, s)  == SubSeq(s, n + 1, Len(s))
Least(i, j) == IF i < j THEN i ELSE j

(* selection_range.                                                        *)
Low(e)      == IF NoIndex \in {e.anchor, e.active} THEN e.cursor ELSE Least(e.anchor, e.active)
High(e)     == IF NoIndex \in {e.anchor, e.active} THEN e.cursor ELSE e.anchor + e.active - Low(e)
Selected(e) == Low(e) # High(e)
Editable    == editor # "read only"

-----------------------------------------------------------------------------
(* What a key makes of the text, the cursor and the selection.             *)

Erased(e) ==
    IF Selected(e) THEN PlainText(FirstLetters(Low(e), e.text) \o LettersAfter(High(e), e.text), Low(e)) ELSE e

(* An input takes as much as there is room for.  An area takes all of it,  *)
(* cuts the end of the text off, and moves the cursor by what the text has *)
(* grown; without a selection it keeps the anchor.                         *)
InsertedInput(e, t) ==
    LET b == Erased(e)
        s == FirstLetters(Least(Len(t), MaxText - Len(b.text)), t)
    IN PlainText(FirstLetters(b.cursor, b.text) \o s \o LettersAfter(b.cursor, b.text), b.cursor + Len(s))

InsertedArea(e, t) ==
    LET b == Erased(e)
        s == FirstLetters(b.cursor, b.text) \o t \o LettersAfter(b.cursor, b.text)
        n == FirstLetters(Least(Len(s), MaxText), s)
    IN [b EXCEPT !.text = n, !.cursor = Least(Len(n), @ + Len(n) - Len(b.text))]

Inserted(e, t) == IF editor = "input" THEN InsertedInput(e, t) ELSE InsertedArea(e, t)

Backspaced(e) ==
    IF Selected(e) THEN Erased(e)
    ELSE IF e.cursor > 0 THEN PlainText(FirstLetters(e.cursor - 1, e.text) \o LettersAfter(e.cursor, e.text), e.cursor - 1)
    ELSE e

Deleted(e) ==
    IF Selected(e) THEN Erased(e)
    ELSE [e EXCEPT !.text = FirstLetters(e.cursor, @) \o LettersAfter(e.cursor + 1, @)]

(* Mutant: the selection goes on where the cursor is now.                  *)
ExtendedAnew(e, p) == [e EXCEPT !.cursor = p, !.active = p, !.anchor = p]
Extended(e, p)     == [e EXCEPT !.cursor = p, !.active = p, !.anchor = IF @ = NoIndex THEN e.cursor ELSE @]
MovedTo(e, p, shift) == IF shift THEN Extended(e, p) ELSE PlainText(e.text, p)

-----------------------------------------------------------------------------
(* The lines of a text.  A paragraph that is too wide is broken behind the *)
(* last space that fits, or in a word.                                     *)

IsBreak(s, i) == i < Len(s) /\ s[i + 1] = "newline"

ParagraphEnd(s, i) == CHOOSE j \in i .. Len(s) :
    (j = Len(s) \/ IsBreak(s, j)) /\ \A k \in i .. j - 1 : ~IsBreak(s, k)

LineEnd(s, i) ==
    LET last   == ParagraphEnd(s, i)
        fits   == i + LineWidth
        spaces == {j \in i + 1 .. Least(fits, last) : s[j] = " "}
    IN IF last <= fits THEN last ELSE IF spaces = {} THEN fits ELSE Max(spaces)

VisualLines(s) ==
    LET from[i \in 0 .. Len(s)] ==
          LET to == LineEnd(s, i) IN
          <<[start |-> i, end |-> to]>>
             \o IF to = Len(s) THEN <<>> ELSE from[IF IsBreak(s, to) THEN to + 1 ELSE to]
    IN from[0]

(* A position between two lines of a paragraph is at the end of the first. *)
LineOf(s, p) == SelectInSeq(VisualLines(s), LAMBDA l : p <= l.end)

Vertical(s, p, by) ==
    LET lines  == VisualLines(s)
        here   == LineOf(s, p)
        column == p - lines[here].start
        there  == lines[here + by]
    IN IF here + by \in DOMAIN lines THEN there.start + Least(column, there.end - there.start)
       ELSE IF by < 0 THEN 0 ELSE Len(s)

(* Home and End of an input go by what breaks its text.                    *)
BreaksBefore(s, p) == {i \in 0 .. p - 1 : IsBreak(s, i)}
HomeOf(s, p) == IF editor # "input" THEN VisualLines(s)[LineOf(s, p)].start
                ELSE IF BreaksBefore(s, p) = {} THEN 0 ELSE Max(BreaksBefore(s, p)) + 1
EndOf(s, p)  == IF editor # "input" THEN VisualLines(s)[LineOf(s, p)].end ELSE ParagraphEnd(s, p)

-----------------------------------------------------------------------------
(* on_change is told of the text and may set another.                      *)
SetValue(v) == PlainText(v, Len(v))
Changed(e) ==
    /\ edit' \in {e} \cup {SetValue(v) : v \in Replacements}
    /\ told' = edit'.text

Keeping == UNCHANGED <<editor, selecting, focusHere>>

(* Typing, Return in an area, and pasting.                                 *)
TypeText(t) ==
    /\ focusHere /\ Editable
    /\ Changed(Inserted(edit, t))
    /\ laidOut' = FALSE
    /\ lastTyped' = IF edit' = Inserted(edit, t) THEN t ELSE <<>>
    /\ typedOver' = (edit'.anchor # NoIndex)
    /\ overflowed' = (overflowed \/ (editor = "area" /\ Len(Erased(edit).text) + Len(t) > MaxText))
    /\ Keeping

(* Backspace, Delete and Ctrl+X.                                           *)
EraseKey(key) ==
    /\ focusHere /\ Editable
    /\ key = "cut" => Selected(edit)
    /\ LET e == IF key = "backspace" THEN Backspaced(edit)
                ELSE IF key = "delete" THEN Deleted(edit) ELSE Erased(edit)
       IN Changed(e) /\ laidOut' = (laidOut /\ edit' = e /\ e.text = edit.text)
    /\ lastTyped' = <<>> /\ typedOver' = (typedOver /\ edit'.anchor # NoIndex)
    /\ UNCHANGED overflowed /\ Keeping

(* An area that has not been drawn since its text changed has no lines: it *)
(* looks for a theme it does not have and raises.                          *)
HasLines == editor = "input" \/ laidOut

MoveKey(key, shift) ==
    LET s == edit.text
        p == edit.cursor
        to == CASE key = "left"  -> IF p = 0 THEN 0 ELSE p - 1
                [] key = "right" -> Least(p + 1, Len(s))
                [] key = "home"  -> HomeOf(s, p)
                [] key = "end"   -> EndOf(s, p)
                [] key = "up"    -> Vertical(s, p, -1)
                [] key = "down"  -> Vertical(s, p, 1)
    IN
    /\ focusHere
    /\ key \in {"up", "down"} => editor # "input"
    /\ key \notin {"left", "right"} => HasLines
    /\ edit' = MovedTo(edit, to, shift)
    /\ lastTyped' = <<>> /\ typedOver' = (typedOver /\ shift)
    /\ UNCHANGED <<told, laidOut, overflowed>> /\ Keeping

SelectAll ==
    /\ edit' = [text |-> edit.text, cursor |-> Len(edit.text), anchor |-> 0, active |-> Len(edit.text)]
    /\ lastTyped' = <<>> /\ typedOver' = FALSE
    /\ UNCHANGED <<editor, selecting, laidOut, focusHere, told, overflowed>>

(* The mouse: a press on the text and the drag it begins.                  *)
PressText(p) ==
    /\ HasLines
    /\ edit' = [edit EXCEPT !.cursor = p, !.anchor = p, !.active = p]
    /\ selecting' = TRUE /\ focusHere' = TRUE
    /\ lastTyped' = <<>> /\ typedOver' = FALSE
    /\ UNCHANGED <<editor, laidOut, told, overflowed>>

DragText(p) ==
    /\ selecting /\ HasLines
    /\ edit' = [edit EXCEPT !.cursor = p, !.active = p]
    /\ lastTyped' = <<>> /\ typedOver' = FALSE
    /\ UNCHANGED <<editor, selecting, laidOut, focusHere, told, overflowed>>

ReleaseText ==
    /\ selecting
    /\ selecting' = FALSE
    /\ edit' = IF edit.anchor = edit.active THEN PlainText(edit.text, edit.cursor) ELSE edit
    /\ typedOver' = (typedOver /\ edit'.anchor # NoIndex)
    /\ UNCHANGED <<editor, laidOut, focusHere, told, lastTyped, overflowed>>

(* Without the focus there is no drag; the selection stays.                *)
FocusText(on) ==
    /\ focusHere # on
    /\ focusHere' = on
    /\ selecting' = (selecting /\ on)
    /\ UNCHANGED <<editor, edit, laidOut, told, lastTyped, typedOver, overflowed>>

(* set_value(), and set_value_with_cursor() of an input.                   *)
SetTextValue(v, c) ==
    /\ editor # "input" => c = Len(v)
    /\ edit' = PlainText(v, c) /\ told' = v /\ laidOut' = FALSE
    /\ lastTyped' = <<>> /\ typedOver' = FALSE
    /\ UNCHANGED overflowed /\ Keeping

DrawText ==
    /\ editor # "input" /\ ~laidOut
    /\ laidOut' = TRUE
    /\ UNCHANGED <<editor, edit, selecting, focusHere, told, lastTyped, typedOver, overflowed>>

TextInit ==
    /\ editor \in Editors
    /\ edit = SetValue(<<>>) /\ told = <<>>
    /\ selecting = FALSE /\ laidOut = FALSE /\ focusHere = FALSE
    /\ lastTyped = <<>> /\ typedOver = FALSE /\ overflowed = FALSE

TextNext ==
    \/ \E t \in Typed : TypeText(t)
    \/ \E key \in {"backspace", "delete", "cut"} : EraseKey(key)
    \/ \E key \in {"left", "right", "home", "end", "up", "down"}, shift \in BOOLEAN : MoveKey(key, shift)
    \/ SelectAll \/ ReleaseText \/ DrawText
    \/ \E p \in 0 .. Len(edit.text) : PressText(p) \/ DragText(p)
    \/ \E on \in BOOLEAN : FocusText(on)
    \/ \E v \in Replacements : \E c \in 0 .. Len(v) : SetTextValue(v, c)

TextSpec == TextInit /\ [][TextNext]_textVars

TextTypeOK ==
    /\ editor \in Editors /\ edit.text \in Texts /\ told \in Texts
    /\ {selecting, laidOut, focusHere, typedOver, overflowed} \subseteq BOOLEAN
    /\ lastTyped \in Typed \cup {<<>>}

(* The cursor and the selection are in the text, whatever keys, the mouse  *)
(* and on_change have made of it; the selection ends at the cursor, unless *)
(* something was typed into it when it was empty; what was typed last is   *)
(* before the cursor, unless the control was full; the program knows the   *)
(* text; the lines of a text hold all of it but what breaks it, and Up and *)
(* Down leave no position but the first and the last.                      *)
TextSafe ==
    LET s == edit.text
        lines == VisualLines(s)
    IN
    /\ edit.cursor \in 0 .. Len(s) /\ {edit.anchor, edit.active} \subseteq NoIndex .. Len(s)
    /\ NoIndex \notin {edit.anchor, edit.active} /\ ~typedOver => edit.active = edit.cursor
    /\ ~overflowed => \E n \in 0 .. Len(lastTyped) :
          /\ FirstLetters(n, lastTyped) = SubSeq(s, edit.cursor - n + 1, edit.cursor)
          /\ n = Len(lastTyped) \/ Len(s) = MaxText
    /\ told = s
    /\ editor # "input" =>
          /\ \A i \in DOMAIN s : s[i] # "newline" =>
                Quantify(DOMAIN lines, LAMBDA l : i \in lines[l].start + 1 .. lines[l].end) = 1
          /\ \A p \in 0 .. Len(s) :
                /\ p < Len(s) => Vertical(s, p, 1) > p
                /\ p > 0 => Vertical(s, p, -1) < p
=============================================================================
