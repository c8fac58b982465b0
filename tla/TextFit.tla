------------------------------- MODULE TextFit -------------------------------
(***************************************************************************)
(* How composition.py sets a text in its box: _fit_font tries font sizes   *)
(* from the largest, _wrap_text fills lines with units (words, or single   *)
(* Chinese characters) as long as they fit, and the first size at which    *)
(* everything fits is taken.  One step per turn of either loop.  A unit is *)
(* where it begins and ends at size 1, were the text set on one line: the  *)
(* space before a unit belongs to none, so it does not count where a line  *)
(* starts.  The font (Pillow's) is taken to measure additively.            *)
(***************************************************************************)
EXTENDS Integers, Sequences

CONSTANTS
  Texts,               \* texts as sequences of units [from, to]
  BoxWidth, BoxHeight,
  StartSize, MinSize,  \* range(start, minimum - 1, -2)
  MaxLines

Units == [from: Nat, to: Nat]
ASSUME TextAssumption ==
  \A t \in Texts :
    /\ t \in Seq(Units) /\ Len(t) > 0
    /\ \A i \in DOMAIN t : t[i].from < t[i].to
    /\ \A i, j \in DOMAIN t : i < j => t[i].to <= t[j].from
ASSUME SizeAssumption == MinSize \in Nat \ {0} /\ StartSize \in Nat /\ StartSize >= MinSize
ASSUME BoxAssumption == BoxWidth \in Nat /\ BoxHeight \in Nat /\ MaxLines \in Nat \ {0}

VARIABLES
  text,
  size,    \* the font size being tried
  next,    \* the unit _wrap_text looks at
  lines,   \* the lines it has closed, [first, last] units
  first,   \* first unit of `current`; next when current is empty
  outcome  \* "wrapping", "wrapped", "fits" or "invalid" (INVALID_OUTPUT)

fitVars == <<text, size, next, lines, first, outcome>>

\* The width of units a..b on one line.
Length(s, a, b) == s * (text[b].to - text[a].from)

Spacing(s) == IF s \div 6 > 2 THEN s \div 6 ELSE 2
Height(s, n) == n * s + (n - 1) * Spacing(s)

Start == next' = 1 /\ first' = 1 /\ lines' = <<>>

FitInit ==
  /\ text \in Texts
  /\ size = StartSize /\ next = 1 /\ first = 1 /\ lines = <<>>
  /\ outcome = "wrapping"

\* CompositionError in _wrap_text, or a box too low: the next size, if any.
NextSize ==
  /\ IF size >= MinSize + 2
       THEN size' = size - 2 /\ Start /\ outcome' = "wrapping"
       ELSE outcome' = "invalid" /\ UNCHANGED <<size, next, first, lines>>
  /\ UNCHANGED text

\* Mutant of TakesUnit: a line must stay below the width of the box.
TakesUnitStrictly == Length(size, first, next) < BoxWidth

TakesUnit == Length(size, first, next) <= BoxWidth

Take ==
  /\ outcome = "wrapping" /\ next <= Len(text) /\ TakesUnit
  /\ next' = next + 1
  /\ UNCHANGED <<text, size, lines, first, outcome>>

\* current is empty, the unit is wider than the box, or no line is left.
BreakFails ==
  \/ first = next
  \/ Length(size, next, next) > BoxWidth
  \/ Len(lines) + 1 >= MaxLines

Break ==
  /\ outcome = "wrapping" /\ next <= Len(text) /\ ~TakesUnit /\ ~BreakFails
  /\ lines' = Append(lines, [first |-> first, last |-> next - 1])
  /\ first' = next /\ next' = next + 1
  /\ UNCHANGED <<text, size, outcome>>

GiveUpSize ==
  /\ outcome = "wrapping" /\ next <= Len(text) /\ ~TakesUnit /\ BreakFails
  /\ NextSize

Wrapped ==
  /\ outcome = "wrapping" /\ next > Len(text)
  /\ lines' = Append(lines, [first |-> first, last |-> Len(text)])
  /\ outcome' = "wrapped"
  /\ UNCHANGED <<text, size, next, first>>

\* The box around the wrapped text, width and height.
FitsBox ==
  /\ \A k \in DOMAIN lines : Length(size, lines[k].first, lines[k].last) <= BoxWidth
  /\ Height(size, Len(lines)) <= BoxHeight

Measure ==
  /\ outcome = "wrapped"
  /\ IF FitsBox
       THEN outcome' = "fits" /\ UNCHANGED <<text, size, next, first, lines>>
       ELSE NextSize

FitNext == Take \/ Break \/ GiveUpSize \/ Wrapped \/ Measure

-----------------------------------------------------------------------------
Sizes == {s \in MinSize..StartSize : (StartSize - s) % 2 = 0}

\* The text can be set in its box at size s: its units go, in order, on at most n
\* lines, none of which is too wide.
Possible(s) ==
  \E n \in 1..MaxLines : \E line \in [DOMAIN text -> 1..n] :
    /\ Height(s, n) <= BoxHeight
    /\ \A i, j \in DOMAIN text : i <= j =>
         /\ line[i] <= line[j]
         /\ line[i] = line[j] => Length(s, i, j) <= BoxWidth

\* Filling lines greedily and stopping at the first size that works loses
\* nothing: the font chosen is the largest one at which the text can be set
\* in its box at all, and the composition is refused only when there is none
\* (_wrap_text, _fit_font).
LargestFontThatFits ==
  /\ outcome = "fits" =>
       /\ Possible(size)
       /\ \A s \in Sizes : s > size => ~Possible(s)
  /\ outcome = "invalid" => \A s \in Sizes : ~Possible(s)
=============================================================================
