---------------------------- MODULE ModalFocus ----------------------------
(***************************************************************************)
(* frontend/src/components/Modal.tsx: where the keyboard focus is while a   *)
(* dialog is open and after it closes.                                      *)
(*                                                                          *)
(* The controls of the dialog are 1..Controls in tab order; typing happens  *)
(* in any of them.  Every page passes a new closure as onClose each time it *)
(* renders, and the effect depends on onClose.                              *)
(***************************************************************************)
EXTENDS Integers

CONSTANT Controls
ASSUME SomeControl == Controls \in Nat \ {0}

VARIABLES modalOpen,
          activeElement,      \* document.activeElement
          previouslyFocused,  \* previouslyFocusedRef.current
          triggerThere,       \* the control that opened the dialog can be focused
          touched,            \* history: focus left the controls through the mouse,
                              \* or with a control that was disabled
          typed               \* history: the control last typed in, until Tab, a click
                              \* or closing; 0 for none

focusVars == <<modalOpen, activeElement, previouslyFocused, triggerThere, touched, typed>>

\* The control that opened the dialog, another one behind it, the dialog's own
\* container, and the document: no control of the dialog.
Trigger == 0
Page == -1
Panel == -2
Body == -3
Elements == Body..Controls
CanFocus(e) == e # Body /\ (e = Trigger => triggerThere)

FocusInit ==
    /\ modalOpen = FALSE /\ activeElement = Trigger
    /\ previouslyFocused = Body /\ triggerThere = TRUE
    /\ touched = FALSE /\ typed = 0

\* The effect runs: remember what had the focus, focus the first control.
OpenModal ==
    /\ ~modalOpen /\ activeElement = Trigger
    /\ modalOpen' = TRUE
    /\ previouslyFocused' = activeElement
    /\ activeElement' = 1
    /\ touched' = FALSE /\ typed' = 0
    /\ UNCHANGED triggerThere

\* Mutant: the next effect runs before the cleanup of the last one.
RunEffectAgain_RecordsFirst ==
    /\ previouslyFocused' = activeElement
    /\ activeElement' = 1

\* Cleanup of the old effect, then the new one.
RunEffectAgain ==
    /\ previouslyFocused' = IF CanFocus(previouslyFocused) THEN previouslyFocused
                            ELSE activeElement
    /\ activeElement' = 1

\* A keystroke in a field changes the page's state, which renders the page again: the
\* prices of the filter sheet, the reason of a removal or suspension.
Type ==
    /\ modalOpen /\ activeElement \in 1..Controls
    /\ typed \in {0, activeElement}
    /\ typed' = activeElement
    /\ RunEffectAgain
    /\ UNCHANGED <<modalOpen, triggerThere, touched>>

\* So does anything else that the page reacts to: an answer, a timer.
RenderAgain ==
    /\ modalOpen
    /\ RunEffectAgain
    /\ UNCHANGED <<modalOpen, triggerThere, touched, typed>>

\* Mutant: handleKeyDown looks after Tab only.
ShiftTab_NoWrap ==
    /\ modalOpen /\ activeElement \in 1..Controls
    /\ activeElement' = IF activeElement = 1 THEN Page ELSE activeElement - 1
    /\ typed' = 0
    /\ UNCHANGED <<modalOpen, previouslyFocused, triggerThere, touched>>

ShiftTab ==
    /\ modalOpen /\ activeElement \in 1..Controls
    /\ activeElement' = IF activeElement = 1 THEN Controls ELSE activeElement - 1
    /\ typed' = 0
    /\ UNCHANGED <<modalOpen, previouslyFocused, triggerThere, touched>>

Tab ==
    /\ modalOpen /\ activeElement \in 1..Controls
    /\ activeElement' = IF activeElement = Controls THEN 1 ELSE activeElement + 1
    /\ typed' = 0
    /\ UNCHANGED <<modalOpen, previouslyFocused, triggerThere, touched>>

\* From anywhere else the handler does nothing and the browser moves the focus:
\* from the panel forward to the first control, back to the page behind.
TabFromElsewhere ==
    /\ modalOpen /\ activeElement \notin 1..Controls
    /\ activeElement' \in (IF activeElement = Panel THEN {1, Page}
                           ELSE {Page} \union 1..Controls)
    /\ UNCHANGED <<modalOpen, previouslyFocused, triggerThere, touched, typed>>

\* A click on the text of the dialog focuses its container (tabIndex -1); a button
\* that is disabled while its request runs gives the focus to the document.
LoseControl ==
    /\ modalOpen
    /\ activeElement' \in {Panel, Body}
    /\ touched' = TRUE /\ typed' = 0
    /\ UNCHANGED <<modalOpen, previouslyFocused, triggerThere>>

\* The row with the button that opened the dialog is rendered away.
TriggerGoes ==
    /\ modalOpen /\ triggerThere
    /\ triggerThere' = FALSE
    /\ activeElement' = IF activeElement = Trigger THEN Body ELSE activeElement
    /\ UNCHANGED <<modalOpen, previouslyFocused, touched, typed>>

\* The dialog's elements are gone when the cleanup runs.
CloseModal ==
    /\ modalOpen
    /\ modalOpen' = FALSE
    /\ activeElement' = IF CanFocus(previouslyFocused) /\ previouslyFocused \in {Trigger, Page}
                        THEN previouslyFocused ELSE Body
    /\ typed' = 0
    /\ UNCHANGED <<previouslyFocused, triggerThere, touched>>

FocusNext ==
    \/ OpenModal \/ Type \/ RenderAgain \/ ShiftTab \/ Tab \/ TabFromElsewhere
    \/ LoseControl \/ TriggerGoes \/ CloseModal

FocusSpec == FocusInit /\ [][FocusNext]_focusVars

-----------------------------------------------------------------------------
FocusTypeOK ==
    /\ {activeElement, previouslyFocused} \subseteq Elements
    /\ typed \in 0..Controls

(* A11Y-004: Tab and Shift+Tab stay within an open dialog -- until the focus    *)
(* leaves its controls by mouse or with a control that is disabled: the handler *)
(* (lines 67-73) knows no other place to wrap around from.                      *)
FocusTrapped == modalOpen => activeElement \in 1..Controls \/ touched

(* A11Y-004: the focus returns to the control that opened the dialog, however   *)
(* often the effect has run in between, as long as that control is there.       *)
FocusReturns == ~modalOpen /\ triggerThere => activeElement = Trigger

(* FE-050: every control can be operated from the keyboard; a field that is     *)
(* typed in keeps the focus for the next key.  Only a dialog with a control     *)
(* before its field can lose it: BrowsePage's filter sheet, whose first is Close. *)
TypingKeepsFocus == typed # 0 => activeElement = typed
=============================================================================
