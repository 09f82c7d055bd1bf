------------------------------ MODULE Timeline ------------------------------
(***************************************************************************)
(* What undo and redo promise: a line of canvas states with a cursor.      *)
(* past and future are what undo and redo lead to, nearest last.  A visible*)
(* change either opens a new entry of the past or joins the newest one, and*)
(* only a new entry forgets the future; a change that cannot be seen leaves*)
(* the line alone.  Moving along the line keeps the state left behind.     *)
(***************************************************************************)
EXTENDS Integers, Sequences

CONSTANTS
  States,          \* the canvas states
  Start,           \* the state before any change
  Restored(_),     \* what is left of a state when undo or redo returns to it
  LooksLike(_, _)  \* two states that differ in nothing undo cares about

VARIABLES past, present, future

timeline == <<past, present, future>>

Top(stack) == stack[Len(stack)]
Rest(stack) == SubSeq(stack, 1, Len(stack) - 1)

Begin == past = << >> /\ present = Start /\ future = << >>

\* A visible change that can be undone on its own.
NewEntry(s) ==
  /\ past' = Append(past, present)
  /\ present' = s
  /\ future' = << >>

\* A visible change that is undone together with the one before it.
Join(s) ==
  /\ past # << >> /\ future = << >>
  /\ present' = s
  /\ UNCHANGED <<past, future>>

\* A change nobody sees.
Touch(s) ==
  /\ LooksLike(present, s)
  /\ present' = s
  /\ UNCHANGED <<past, future>>

Back ==
  /\ past # << >>
  /\ present' = Restored(Top(past))
  /\ past' = Rest(past)
  /\ future' = Append(future, present)

Forth ==
  /\ future # << >>
  /\ present' = Restored(Top(future))
  /\ future' = Rest(future)
  /\ past' = Append(past, present)

Move == \/ \E s \in States : NewEntry(s) \/ Join(s) \/ Touch(s)
        \/ Back
        \/ Forth

Spec == Begin /\ [][Move]_timeline
=============================================================================
