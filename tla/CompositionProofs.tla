-------------------------- MODULE CompositionProofs --------------------------
(***************************************************************************)
(* The compositor: its layers satisfy their contract and stay apart,       *)
(* whatever the size of the assets; and whatever text it sets in whatever  *)
(* box, filling lines greedily and stopping at the first size that works   *)
(* finds the largest size at which the text can be set at all.             *)
(***************************************************************************)
EXTENDS Layout, TextFit, TLAPS

-----------------------------------------------------------------------------
(* The layers.                                                             *)

\* The bounds of a layer are those it is pasted at (_rendered_layer).
LEMMA BoundsOfLayer ==
  ASSUME NEW kind, NEW left, NEW top, NEW width, NEW height
  PROVE  /\ Layer(kind, left, top, width, height).kind = kind
         /\ Layer(kind, left, top, width, height).left = left
         /\ Layer(kind, left, top, width, height).top = top
         /\ Layer(kind, left, top, width, height).right = left + width
         /\ Layer(kind, left, top, width, height).bottom = top + height
         /\ Layer(kind, left, top, width, height).width = width
         /\ Layer(kind, left, top, width, height).height = height
BY DEF Layer

\* A layer that is not empty and ends inside the canvas satisfies its contract.
LEMMA InsideIsAllowed ==
  ASSUME NEW kind, NEW left \in Nat, NEW top \in Nat,
         NEW width \in Nat \ {0}, NEW height \in Nat \ {0},
         left + width <= CanvasWidth, top + height <= CanvasHeight
  PROVE  LayerAllowed(Layer(kind, left, top, width, height))
<1>1. /\ left >= 0 /\ top >= 0
      /\ left + width <= CanvasWidth /\ top + height <= CanvasHeight
      /\ left + width > left /\ top + height > top
      /\ (left + width) - left = width /\ (top + height) - top = height
  OBVIOUS
<1>2. width \in 1..CanvasWidth /\ height \in 1..CanvasHeight
  BY DEF CanvasWidth, CanvasHeight
<1> QED BY <1>1, <1>2, BoundsOfLayer DEF LayerAllowed

\* The sizes of a scaled logo and interface.
LEMMA ScaledSizes ==
  ASSUME NEW interface \in InterfaceSizes, NEW logo \in LogoSizes
  PROVE  /\ interface.width \in Nat \ {0} /\ interface.width <= 650
         /\ interface.height \in Nat \ {0} /\ interface.height <= 520
         /\ logo.width \in Nat \ {0} /\ logo.width <= 220
         /\ logo.height \in Nat \ {0} /\ logo.height <= 96
<1>1. interface.width \in 1..650 /\ interface.height \in 1..520
  BY DEF InterfaceSizes
<1>2. logo.width \in 1..220 /\ logo.height \in 1..96
  BY DEF LogoSizes
<1>3. PICK w \in 1..650 : w = interface.width
  BY <1>1
<1>4. PICK h \in 1..520 : h = interface.height
  BY <1>1
<1>5. PICK lw \in 1..220 : lw = logo.width
  BY <1>2
<1>6. PICK lh \in 1..96 : lh = logo.height
  BY <1>2
<1>7. w \in Nat \ {0} /\ w <= 650
  BY <1>3
<1>8. h \in Nat \ {0} /\ h <= 520
  BY <1>4
<1>9. lw \in Nat \ {0} /\ lw <= 220
  BY <1>5
<1>10. lh \in Nat \ {0} /\ lh <= 96
  BY <1>6
<1> QED BY <1>3, <1>4, <1>5, <1>6, <1>7, <1>8, <1>9, <1>10, Zenon

\* Whatever the sizes of a brand's logo and interface, the evidence of every
\* layer satisfies its contract, so no asset makes a composition unstorable
\* (_rendered_layer, CompositionLayer).
THEOREM LayersSatisfyContract ==
  ASSUME NEW interface \in InterfaceSizes, NEW logo \in LogoSizes
  PROVE  \A layer \in Layers(interface, logo) : LayerAllowed(layer)
<1>1. LayerAllowed(Layer("background", 0, 0, CanvasWidth, CanvasHeight))
  <2>1. CanvasWidth \in Nat \ {0} /\ CanvasHeight \in Nat \ {0}
    BY DEF CanvasWidth, CanvasHeight
  <2>2. 0 + CanvasWidth <= CanvasWidth /\ 0 + CanvasHeight <= CanvasHeight
    BY <2>1
  <2> QED BY <2>1, <2>2, InsideIsAllowed
<1>2. LayerAllowed(Layer("product_ui", 850, 170, interface.width, interface.height))
  <2>1. /\ interface.width \in Nat \ {0} /\ 850 + interface.width <= CanvasWidth
        /\ interface.height \in Nat \ {0} /\ 170 + interface.height <= CanvasHeight
    BY ScaledSizes DEF CanvasWidth, CanvasHeight
  <2> QED BY <2>1, InsideIsAllowed
<1>3. LayerAllowed(Layer("logo", 100, 70, logo.width, logo.height))
  <2>1. /\ logo.width \in Nat \ {0} /\ 100 + logo.width <= CanvasWidth
        /\ logo.height \in Nat \ {0} /\ 70 + logo.height <= CanvasHeight
    BY ScaledSizes DEF CanvasWidth, CanvasHeight
  <2> QED BY <2>1, InsideIsAllowed
<1>4. LayerAllowed(Layer("headline", 100, 220, 660, 124))
  <2>1. 100 + 660 <= CanvasWidth /\ 220 + 124 <= CanvasHeight
    BY DEF CanvasWidth, CanvasHeight
  <2> QED BY <2>1, InsideIsAllowed
<1>5. LayerAllowed(Layer("body", 100, 390, 680, 86))
  <2>1. 100 + 680 <= CanvasWidth /\ 390 + 86 <= CanvasHeight
    BY DEF CanvasWidth, CanvasHeight
  <2> QED BY <2>1, InsideIsAllowed
<1>6. LayerAllowed(Layer("cta", 100, 560, 330, 76))
  <2>1. 100 + 330 <= CanvasWidth /\ 560 + 76 <= CanvasHeight
    BY DEF CanvasWidth, CanvasHeight
  <2> QED BY <2>1, InsideIsAllowed
<1>7. LayerAllowed(Layer("disclosure", 100, 820, 430, 44))
  <2>1. 100 + 430 <= CanvasWidth /\ 820 + 44 <= CanvasHeight
    BY DEF CanvasWidth, CanvasHeight
  <2> QED BY <2>1, InsideIsAllowed
<1> QED BY <1>1, <1>2, <1>3, <1>4, <1>5, <1>6, <1>7 DEF Layers, Pasted

\* Where each layer lies: the texts and the logo in the left half, each in a
\* band of its own, the product interface in the right half.
InItsPlace(l) ==
  \/ l.kind = "product_ui" /\ l.left = 850
  \/ l.kind = "logo" /\ l.right <= 780 /\ l.bottom <= 166
  \/ l.kind = "headline" /\ l.right <= 780 /\ l.top = 220 /\ l.bottom = 344
  \/ l.kind = "body" /\ l.right <= 780 /\ l.top = 390 /\ l.bottom = 476
  \/ l.kind = "cta" /\ l.right <= 780 /\ l.top = 560 /\ l.bottom = 636
  \/ l.kind = "disclosure" /\ l.right <= 780 /\ l.top = 820

HasBounds(l) ==
  l.left \in Nat /\ l.right \in Nat /\ l.top \in Nat /\ l.bottom \in Nat

LEMMA LayersInPlace ==
  ASSUME NEW interface \in InterfaceSizes, NEW logo \in LogoSizes,
         NEW l \in Pasted(interface, logo)
  PROVE  InItsPlace(l) /\ HasBounds(l)
<1>1. CASE l = Layer("product_ui", 850, 170, interface.width, interface.height)
  <2>1. /\ l.kind = "product_ui" /\ l.left = 850 /\ l.top = 170
        /\ l.right = 850 + interface.width /\ l.bottom = 170 + interface.height
    BY <1>1, BoundsOfLayer
  <2> QED BY <2>1, ScaledSizes DEF InItsPlace, HasBounds
<1>2. CASE l = Layer("logo", 100, 70, logo.width, logo.height)
  <2>1. /\ l.kind = "logo" /\ l.left = 100 /\ l.top = 70
        /\ l.right = 100 + logo.width /\ l.bottom = 70 + logo.height
    BY <1>2, BoundsOfLayer
  <2> QED BY <2>1, ScaledSizes DEF InItsPlace, HasBounds
<1>3. CASE l = Layer("headline", 100, 220, 660, 124)
  <2>1. l.kind = "headline" /\ l.left = 100 /\ l.top = 220 /\ l.right = 100 + 660 /\ l.bottom = 220 + 124
    BY <1>3, BoundsOfLayer
  <2> QED BY <2>1 DEF InItsPlace, HasBounds
<1>4. CASE l = Layer("body", 100, 390, 680, 86)
  <2>1. l.kind = "body" /\ l.left = 100 /\ l.top = 390 /\ l.right = 100 + 680 /\ l.bottom = 390 + 86
    BY <1>4, BoundsOfLayer
  <2> QED BY <2>1 DEF InItsPlace, HasBounds
<1>5. CASE l = Layer("cta", 100, 560, 330, 76)
  <2>1. l.kind = "cta" /\ l.left = 100 /\ l.top = 560 /\ l.right = 100 + 330 /\ l.bottom = 560 + 76
    BY <1>5, BoundsOfLayer
  <2> QED BY <2>1 DEF InItsPlace, HasBounds
<1>6. CASE l = Layer("disclosure", 100, 820, 430, 44)
  <2>1. l.kind = "disclosure" /\ l.left = 100 /\ l.top = 820 /\ l.right = 100 + 430 /\ l.bottom = 820 + 44
    BY <1>6, BoundsOfLayer
  <2> QED BY <2>1 DEF InItsPlace, HasBounds
<1> QED BY <1>1, <1>2, <1>3, <1>4, <1>5, <1>6 DEF Pasted

\* And no layer covers another but the background: the layers are pasted one
\* over the other, and the disclosure that the ad is a demonstration, like the
\* locked logo, stays whole (compose).
THEOREM LayersStayApart ==
  ASSUME NEW interface \in InterfaceSizes, NEW logo \in LogoSizes,
         NEW layer \in Pasted(interface, logo), NEW other \in Pasted(interface, logo),
         layer.kind # other.kind
  PROVE  Apart(layer, other)
<1>1. InItsPlace(layer) /\ HasBounds(layer) /\ InItsPlace(other) /\ HasBounds(other)
  BY LayersInPlace
<1>2. CASE layer.kind = "product_ui"
  BY <1>1, <1>2 DEF InItsPlace, HasBounds, Apart
<1>3. CASE other.kind = "product_ui"
  BY <1>1, <1>3 DEF InItsPlace, HasBounds, Apart
<1>4. CASE layer.kind # "product_ui" /\ other.kind # "product_ui"
  BY <1>1, <1>4 DEF InItsPlace, HasBounds, Apart
<1> QED BY <1>2, <1>3, <1>4

-----------------------------------------------------------------------------
(* The setting of a text.                                                  *)

\* A way to set the text at size s on n lines, whether or not they fit in height.
Set(s, n, line) ==
  /\ line \in [DOMAIN text -> 1..n]
  /\ \A i, j \in DOMAIN text : i <= j =>
       /\ line[i] <= line[j]
       /\ line[i] = line[j] => Length(s, i, j) <= BoxWidth

FitTypeOK ==
  /\ text \in Texts /\ size \in Sizes
  /\ next \in 1..(Len(text) + 1) /\ first \in 1..next
  /\ lines \in Seq([first: DOMAIN text, last: DOMAIN text])
  /\ outcome \in {"wrapping", "wrapped", "fits", "invalid"}

\* The lines closed so far hold the units before `first`, in order, and are not
\* too wide; nor is the current one.
LinesInv ==
  /\ \A k \in DOMAIN lines :
       /\ lines[k].first <= lines[k].last
       /\ Length(size, lines[k].first, lines[k].last) <= BoxWidth
  /\ \A k, m \in DOMAIN lines : k < m => lines[k].last < lines[m].first
  /\ \A i \in DOMAIN text : i < first \/ outcome \in {"wrapped", "fits"} =>
       \E k \in DOMAIN lines : lines[k].first <= i /\ i <= lines[k].last

CurrentInv ==
  /\ outcome = "wrapping" =>
       /\ Len(lines) < MaxLines
       /\ \A k \in DOMAIN lines : lines[k].last < first
       /\ first = next => first = 1
       /\ first < next => Length(size, first, next - 1) <= BoxWidth
  /\ outcome \in {"wrapped", "fits"} => Len(lines) \in 1..MaxLines
  /\ outcome = "fits" => Height(size, Len(lines)) <= BoxHeight

\* No way to set the text gets the first unit of the current line on an earlier
\* line, so none does with fewer lines.
GreedyInv ==
  \A n \in Nat : \A line : Set(size, n, line) =>
    /\ outcome = "wrapping" /\ first \in DOMAIN text => line[first] > Len(lines)
    /\ outcome \in {"wrapped", "fits"} => n >= Len(lines)

\* No size that was given up can be used.
SizesInv == \A s \in Sizes : s > size \/ outcome = "invalid" => ~Possible(s)

FitInv == FitTypeOK /\ LinesInv /\ CurrentInv /\ GreedyInv /\ SizesInv

LEMMA ProductIsNat ==
  ASSUME NEW s \in Nat, NEW d \in Nat
  PROVE  s * d \in Nat
OBVIOUS

LEMMA ProductDistributes ==
  ASSUME NEW s \in Int, NEW x \in Int, NEW y \in Int
  PROVE  s * (y - x) = s * y - s * x
OBVIOUS

LEMMA ProductIsInt ==
  ASSUME NEW s \in Int, NEW x \in Int
  PROVE  s * x \in Int /\ s * x = x * s
OBVIOUS

LEMMA DifferenceIsNat ==
  ASSUME NEW p \in Int, NEW q \in Int, q - p \in Nat
  PROVE  p <= q
OBVIOUS

LEMMA TimesGrows ==
  ASSUME NEW s \in Nat, NEW x \in Int, NEW y \in Int, x <= y
  PROVE  s * x \in Int /\ s * y \in Int /\ s * x <= s * y
<1>1. y - x \in Nat
  OBVIOUS
<1>2. s * (y - x) \in Nat
  BY <1>1, ProductIsNat
<1>3. s \in Int
  OBVIOUS
<1>4. s * y - s * x \in Nat
  BY <1>2, <1>3, ProductDistributes
<1>5. s * x \in Int /\ s * y \in Int
  BY <1>3, ProductIsInt
<1> QED BY <1>4, <1>5, DifferenceIsNat

LEMMA TextFacts ==
  ASSUME NEW t \in Texts
  PROVE  /\ Len(t) \in Nat \ {0} /\ DOMAIN t = 1..Len(t)
         /\ \A k \in DOMAIN t : t[k].from \in Nat /\ t[k].to \in Nat /\ t[k].from < t[k].to
         /\ \A i, j \in DOMAIN t : i <= j => t[i].from <= t[j].from /\ t[i].to <= t[j].to
<1>1. t \in Seq(Units) /\ Len(t) > 0
  BY TextAssumption
<1>2. Len(t) \in Nat \ {0} /\ DOMAIN t = 1..Len(t) /\ \A k \in DOMAIN t : t[k] \in Units
  BY <1>1
<1>3. \A k \in DOMAIN t : t[k].from \in Nat /\ t[k].to \in Nat /\ t[k].from < t[k].to
  BY <1>2, TextAssumption DEF Units
<1>4. \A i, j \in DOMAIN t : i < j => t[i].to <= t[j].from
  BY TextAssumption
<1>5. ASSUME NEW i \in DOMAIN t, NEW j \in DOMAIN t, i <= j
      PROVE  t[i].from <= t[j].from /\ t[i].to <= t[j].to
  <2>1. CASE i = j
    BY <1>3, <2>1
  <2>2. CASE i < j
    BY <1>3, <1>4, <2>2
  <2> QED BY <1>2, <1>5, <2>1, <2>2
<1> QED BY <1>2, <1>3, <1>5

\* Part of a line is not wider than the line.
LEMMA PartIsNarrower ==
  ASSUME text \in Texts, NEW s \in Nat, NEW i \in DOMAIN text, NEW j \in DOMAIN text,
         NEW a \in DOMAIN text, NEW b \in DOMAIN text, i <= a, b <= j
  PROVE  /\ Length(s, a, b) \in Int /\ Length(s, i, j) \in Int
         /\ Length(s, a, b) <= Length(s, i, j)
<1>1. /\ text[a].from \in Nat /\ text[b].to \in Nat
      /\ text[i].from \in Nat /\ text[j].to \in Nat
      /\ text[i].from <= text[a].from /\ text[b].to <= text[j].to
  BY TextFacts
<1>2. /\ text[b].to - text[a].from \in Int /\ text[j].to - text[i].from \in Int
      /\ text[b].to - text[a].from <= text[j].to - text[i].from
  BY <1>1
<1> QED BY <1>2, TimesGrows DEF Length

\* More lines are not lower.
LEMMA HeightGrows ==
  ASSUME NEW s \in Nat, NEW m \in Nat, NEW n \in Nat, m <= n
  PROVE  Height(s, m) \in Int /\ Height(s, n) \in Int /\ Height(s, m) <= Height(s, n)
<1>1. Spacing(s) \in Nat
  BY DEF Spacing
<1>2. /\ s * m \in Int /\ s * n \in Int /\ s * m <= s * n
      /\ Spacing(s) * (m - 1) \in Int /\ Spacing(s) * (n - 1) \in Int
      /\ Spacing(s) * (m - 1) <= Spacing(s) * (n - 1)
  BY <1>1, TimesGrows
<1>3. /\ s * m = m * s /\ s * n = n * s
      /\ Spacing(s) * (m - 1) = (m - 1) * Spacing(s)
      /\ Spacing(s) * (n - 1) = (n - 1) * Spacing(s)
  BY <1>1, ProductIsInt
<1> QED BY <1>2, <1>3 DEF Height

LEMMA SizesAreApart ==
  ASSUME NEW s \in Sizes, NEW t \in Sizes
  PROVE  /\ s \in Nat /\ s >= MinSize
         /\ s < t => s <= t - 2
         /\ t >= MinSize + 2 => t - 2 \in Sizes
BY SizeAssumption DEF Sizes

\* A size at which the text can be set, and a way to set it.
LEMMA PossibleIsSet ==
  ASSUME NEW s
  PROVE  Possible(s) <=> \E n \in 1..MaxLines : \E line : Set(s, n, line) /\ Height(s, n) <= BoxHeight
BY DEF Possible, Set

LEMMA FitInitKeepsFit == FitInit => FitInv
<1> SUFFICES ASSUME FitInit PROVE FitInv
  OBVIOUS
<1>1. Len(text) \in Nat \ {0} /\ DOMAIN text = 1..Len(text)
  BY TextFacts DEF FitInit
<1>2. FitTypeOK
  BY <1>1, SizeAssumption DEF FitInit, FitTypeOK, Sizes
<1>3. LinesInv /\ CurrentInv
  BY <1>1, BoxAssumption DEF FitInit, LinesInv, CurrentInv
<1>4. GreedyInv
  BY <1>1 DEF FitInit, GreedyInv, Set
<1>5. SizesInv
  BY SizeAssumption DEF FitInit, SizesInv, Sizes
<1> QED BY <1>2, <1>3, <1>4, <1>5 DEF FitInv

\* What the invariant says of the numbers while lines are filled.
WrappingFacts ==
  /\ Len(text) \in Nat \ {0} /\ DOMAIN text = 1..Len(text)
  /\ size \in Nat /\ next \in Nat /\ first \in Nat /\ 1 <= first /\ first <= next
  /\ next <= Len(text) + 1 /\ MaxLines \in Nat
  /\ Len(lines) \in Nat /\ DOMAIN lines = 1..Len(lines)
  /\ \A i, j \in DOMAIN text : Length(size, i, j) \in Int
  /\ first = next => first = 1

LEMMA Wrapping ==
  ASSUME FitInv, outcome = "wrapping"
  PROVE  WrappingFacts
<1>1. Len(text) \in Nat \ {0} /\ DOMAIN text = 1..Len(text) /\ text \in Texts
  BY TextFacts DEF FitInv, FitTypeOK
<1>2. size \in Nat
  BY SizesAreApart DEF FitInv, FitTypeOK
<1>3. ASSUME NEW i \in DOMAIN text, NEW j \in DOMAIN text PROVE Length(size, i, j) \in Int
  BY <1>1, <1>2, PartIsNarrower
<1>4. /\ next \in Nat /\ first \in Nat /\ 1 <= first /\ first <= next /\ next <= Len(text) + 1
      /\ Len(lines) \in Nat /\ DOMAIN lines = 1..Len(lines) /\ first = next => first = 1
  BY <1>1 DEF FitInv, FitTypeOK, CurrentInv
<1> QED BY <1>1, <1>2, <1>3, <1>4, BoxAssumption DEF WrappingFacts

\* Where the unit that does not fit must be, in any way to set the text.
LEMMA NextIsLater ==
  ASSUME FitInv, outcome = "wrapping", next <= Len(text), ~TakesUnit, first < next,
         NEW n \in Nat, NEW line, Set(size, n, line)
  PROVE  /\ line[next] \in Int /\ line[next] <= n /\ line[next] > Len(lines) + 1
<1>1. first \in DOMAIN text /\ next \in DOMAIN text /\ Len(lines) \in Nat
  BY Wrapping DEF WrappingFacts
<1>2. line[first] \in 1..n /\ line[next] \in 1..n /\ line[first] <= line[next]
      /\ (line[first] = line[next] => Length(size, first, next) <= BoxWidth)
  BY <1>1 DEF Set
<1>3. line[first] # line[next]
  BY <1>2 DEF TakesUnit
<1>4. line[first] > Len(lines)
  BY <1>1 DEF FitInv, GreedyInv
<1> QED BY <1>1, <1>2, <1>3, <1>4

LEMMA TakeKeepsFit == FitInv /\ Take => FitInv'
<1> SUFFICES ASSUME FitInv, Take PROVE FitInv'
  OBVIOUS
<1>1. /\ outcome = "wrapping" /\ next <= Len(text) /\ TakesUnit /\ next' = next + 1
      /\ text' = text /\ size' = size /\ lines' = lines /\ first' = first /\ outcome' = outcome
  BY DEF Take
<1>2. WrappingFacts
  BY <1>1, Wrapping
<1>3. FitTypeOK'
  BY <1>1, <1>2 DEF FitInv, FitTypeOK, WrappingFacts
<1>4. LinesInv'
  BY <1>1 DEF FitInv, LinesInv, Length
<1>5. CurrentInv'
  <2>1. Length(size, first, next) <= BoxWidth
    BY <1>1 DEF TakesUnit
  <2>2. next' - 1 = next /\ first' <= next /\ first' # next'
    BY <1>1, <1>2 DEF WrappingFacts
  <2>3. Length(size, first, next - 1)' <= BoxWidth
    BY <1>1, <2>1, <2>2 DEF Length
  <2> QED BY <1>1, <2>2, <2>3 DEF FitInv, CurrentInv
<1>6. GreedyInv'
  BY <1>1 DEF FitInv, GreedyInv, Set, Length
<1>7. SizesInv'
  BY <1>1 DEF FitInv, SizesInv, Possible, Length
<1> QED BY <1>3, <1>4, <1>5, <1>6, <1>7 DEF FitInv

\* Closing the current line, which both Break and Wrapped do.
LEMMA LineIsClosed ==
  ASSUME FitInv, outcome = "wrapping", first < next, text' = text, size' = size,
         lines' = Append(lines, [first |-> first, last |-> next - 1])
  PROVE  /\ lines' \in Seq([first: DOMAIN text, last: DOMAIN text])
         /\ Len(lines') = Len(lines) + 1 /\ DOMAIN lines' = 1..(Len(lines) + 1)
         /\ \A k \in DOMAIN lines' :
              /\ lines'[k].first <= lines'[k].last /\ lines'[k].last < next
              /\ Length(size, lines'[k].first, lines'[k].last) <= BoxWidth
         /\ \A k, m \in DOMAIN lines' : k < m => lines'[k].last < lines'[m].first
         /\ \A i \in DOMAIN text : i < next =>
              \E k \in DOMAIN lines' : lines'[k].first <= i /\ i <= lines'[k].last
<1> DEFINE L == [first |-> first, last |-> next - 1]
           S == [first: DOMAIN text, last: DOMAIN text]
           m == Len(lines) + 1
<1>1. WrappingFacts
  BY Wrapping
<1>2. L \in [first: DOMAIN text, last: DOMAIN text] /\ L.first = first /\ L.last = next - 1
  BY <1>1 DEF WrappingFacts
<1>3. lines \in Seq([first: DOMAIN text, last: DOMAIN text])
  BY DEF FitInv, FitTypeOK
<1>4. /\ lines' \in Seq([first: DOMAIN text, last: DOMAIN text])
      /\ Len(lines') = m /\ DOMAIN lines' = 1..m
      /\ lines'[m] = L
      /\ \A k \in DOMAIN lines : k \in DOMAIN lines' /\ lines'[k] = lines[k]
      /\ \A k \in DOMAIN lines' : k = m \/ k \in DOMAIN lines
  <2>1. lines \in Seq(S) /\ L \in S /\ lines' = Append(lines, L)
    BY <1>2, <1>3
  <2> HIDE DEF L, S
  <2>2. lines' \in Seq(S) /\ Len(lines') = m /\ DOMAIN lines' = 1..m
    BY <2>1
  <2>3. lines'[m] = L
    BY <2>1
  <2>4. DOMAIN lines = 1..Len(lines) /\ Len(lines) \in Nat
    BY <2>1
  <2>5. ASSUME NEW k \in DOMAIN lines
        PROVE  k \in DOMAIN lines' /\ lines'[k] = lines[k]
    BY <2>1, <2>2, <2>4
  <2>6. \A k \in DOMAIN lines' : k = m \/ k \in DOMAIN lines
    BY <2>2, <2>4
  <2> QED BY <2>2, <2>3, <2>5, <2>6 DEF S
<1>5. \A k \in DOMAIN lines :
        /\ lines[k].first \in Nat /\ lines[k].last \in Nat
        /\ lines[k].first <= lines[k].last /\ lines[k].last < first
        /\ Length(size, lines[k].first, lines[k].last) <= BoxWidth
  <2>1. ASSUME NEW k \in DOMAIN lines
        PROVE  lines[k].first \in DOMAIN text /\ lines[k].last \in DOMAIN text
    <3>1. lines[k] \in S
      <4>1. lines \in Seq(S)
        BY <1>3
      <4> HIDE DEF S
      <4> QED BY <4>1
    <3> QED BY <3>1
  <2>2. ASSUME NEW k \in DOMAIN lines
        PROVE  /\ lines[k].first <= lines[k].last /\ lines[k].last < first
               /\ Length(size, lines[k].first, lines[k].last) <= BoxWidth
    BY DEF FitInv, LinesInv, CurrentInv
  <2>3. \A i \in DOMAIN text : i \in Nat
    BY <1>1 DEF WrappingFacts
  <2> QED BY <2>1, <2>2, <2>3
<1>6. Length(size, first, next - 1) <= BoxWidth
  BY DEF FitInv, CurrentInv
<1>7. ASSUME NEW k \in DOMAIN lines'
      PROVE  /\ lines'[k].first <= lines'[k].last /\ lines'[k].last < next
             /\ Length(size, lines'[k].first, lines'[k].last) <= BoxWidth
  <2>1. CASE k = m
    BY <1>1, <1>2, <1>4, <1>6, <2>1 DEF WrappingFacts
  <2>2. CASE k \in DOMAIN lines
    <3>1. lines'[k] = lines[k]
      BY <1>4, <2>2
    <3>2. lines[k].last < next
      BY <1>1, <1>5, <2>2 DEF WrappingFacts
    <3> QED BY <1>5, <2>2, <3>1, <3>2
  <2> QED BY <1>4, <1>7, <2>1, <2>2
<1>8. ASSUME NEW k \in DOMAIN lines', NEW n \in DOMAIN lines', k < n
      PROVE  lines'[k].last < lines'[n].first
  <2>1. k \in DOMAIN lines
    BY <1>1, <1>4, <1>8 DEF WrappingFacts
  <2>2. CASE n = m
    BY <1>2, <1>4, <1>5, <2>1, <2>2
  <2>3. CASE n \in DOMAIN lines
    BY <1>4, <1>8, <2>1, <2>3 DEF FitInv, LinesInv
  <2> QED BY <1>4, <1>8, <2>2, <2>3
<1>9. ASSUME NEW i \in DOMAIN text, i < next
      PROVE  \E k \in DOMAIN lines' : lines'[k].first <= i /\ i <= lines'[k].last
  <2>1. CASE i < first
    <3>1. PICK k \in DOMAIN lines : lines[k].first <= i /\ i <= lines[k].last
      BY <2>1 DEF FitInv, LinesInv
    <3> QED BY <1>4, <3>1
  <2>2. CASE ~(i < first)
    <3>1. m \in DOMAIN lines' /\ L.first <= i /\ i <= L.last
      BY <1>1, <1>2, <1>4, <1>9, <2>2 DEF WrappingFacts
    <3> QED BY <1>4, <3>1
  <2> QED BY <2>1, <2>2
<1> QED BY <1>4, <1>7, <1>8, <1>9

LEMMA BreakKeepsFit == FitInv /\ Break => FitInv'
<1> SUFFICES ASSUME FitInv, Break PROVE FitInv'
  OBVIOUS
<1>1. /\ outcome = "wrapping" /\ next <= Len(text) /\ ~TakesUnit /\ ~BreakFails
      /\ lines' = Append(lines, [first |-> first, last |-> next - 1])
      /\ first' = next /\ next' = next + 1
      /\ text' = text /\ size' = size /\ outcome' = outcome
  BY DEF Break
<1>2. WrappingFacts
  BY <1>1, Wrapping
<1>3. first < next /\ Len(lines) + 1 < MaxLines /\ ~(Length(size, next, next) > BoxWidth)
  BY <1>1, <1>2 DEF BreakFails, WrappingFacts
<1>4. Length(size, next, next) <= BoxWidth
  BY <1>1, <1>2, <1>3, BoxAssumption DEF WrappingFacts
<1>5. /\ lines' \in Seq([first: DOMAIN text, last: DOMAIN text])
      /\ Len(lines') = Len(lines) + 1 /\ DOMAIN lines' = 1..(Len(lines) + 1)
      /\ \A k \in DOMAIN lines' :
           /\ lines'[k].first <= lines'[k].last /\ lines'[k].last < next
           /\ Length(size, lines'[k].first, lines'[k].last) <= BoxWidth
      /\ \A k, m \in DOMAIN lines' : k < m => lines'[k].last < lines'[m].first
      /\ \A i \in DOMAIN text : i < next =>
           \E k \in DOMAIN lines' : lines'[k].first <= i /\ i <= lines'[k].last
  BY <1>1, <1>3, LineIsClosed
<1>6. FitTypeOK'
  BY <1>1, <1>2, <1>5 DEF FitInv, FitTypeOK, WrappingFacts
<1>7. LinesInv'
  BY <1>1, <1>5 DEF LinesInv, Length
<1>8. CurrentInv'
  <2>1. Length(size, first, next - 1)' <= BoxWidth
    <3>1. next' - 1 = next
      BY <1>1, <1>2 DEF WrappingFacts
    <3> QED BY <1>1, <1>4, <3>1 DEF Length
  <2>2. first' # next'
    BY <1>1, <1>2 DEF WrappingFacts
  <2>3. \A k \in DOMAIN lines' : lines'[k].last < first'
    BY <1>1, <1>5
  <2>4. Len(lines') < MaxLines
    BY <1>3, <1>5
  <2> QED BY <1>1, <2>1, <2>2, <2>3, <2>4 DEF CurrentInv
<1>9. GreedyInv'
  <2> SUFFICES ASSUME NEW n \in Nat, NEW line, Set(size, n, line)
               PROVE  line[next] > Len(lines) + 1
    BY <1>1, <1>5 DEF GreedyInv, Set, Length
  <2> QED BY <1>1, <1>3, NextIsLater
<1>10. SizesInv'
  BY <1>1 DEF FitInv, SizesInv, Possible, Length
<1> QED BY <1>6, <1>7, <1>8, <1>9, <1>10 DEF FitInv

LEMMA WrappedKeepsFit == FitInv /\ Wrapped => FitInv'
<1> SUFFICES ASSUME FitInv, Wrapped PROVE FitInv'
  OBVIOUS
<1>1. /\ outcome = "wrapping" /\ next > Len(text) /\ outcome' = "wrapped"
      /\ lines' = Append(lines, [first |-> first, last |-> Len(text)])
      /\ text' = text /\ size' = size /\ next' = next /\ first' = first
  BY DEF Wrapped
<1>2. WrappingFacts
  BY <1>1, Wrapping
<1>3. first < next /\ next - 1 = Len(text)
  BY <1>1, <1>2 DEF WrappingFacts
<1>4. /\ lines' \in Seq([first: DOMAIN text, last: DOMAIN text])
      /\ Len(lines') = Len(lines) + 1 /\ DOMAIN lines' = 1..(Len(lines) + 1)
      /\ \A k \in DOMAIN lines' :
           /\ lines'[k].first <= lines'[k].last /\ lines'[k].last < next
           /\ Length(size, lines'[k].first, lines'[k].last) <= BoxWidth
      /\ \A k, m \in DOMAIN lines' : k < m => lines'[k].last < lines'[m].first
      /\ \A i \in DOMAIN text : i < next =>
           \E k \in DOMAIN lines' : lines'[k].first <= i /\ i <= lines'[k].last
  BY <1>1, <1>3, LineIsClosed
<1>5. FitTypeOK'
  BY <1>1, <1>4 DEF FitInv, FitTypeOK
<1>6. LinesInv'
  <2>1. \A i \in DOMAIN text : i < next
    BY <1>1, <1>2 DEF WrappingFacts
  <2> QED BY <1>1, <1>4, <2>1 DEF LinesInv, Length
<1>7. CurrentInv'
  <2>1. Len(lines) < MaxLines
    BY <1>1 DEF FitInv, CurrentInv
  <2> QED BY <1>1, <1>2, <1>4, <2>1 DEF CurrentInv, WrappingFacts
<1>8. GreedyInv'
  <2> SUFFICES ASSUME NEW n \in Nat, NEW line, Set(size, n, line)
               PROVE  n >= Len(lines) + 1
    BY <1>1, <1>4 DEF GreedyInv, Set, Length
  <2>1. first \in DOMAIN text
    BY <1>2, <1>3 DEF WrappingFacts
  <2>2. line[first] > Len(lines)
    BY <1>1, <2>1 DEF FitInv, GreedyInv
  <2>3. line[first] \in 1..n
    BY <2>1 DEF Set
  <2> QED BY <1>2, <2>2, <2>3 DEF WrappingFacts
<1>9. SizesInv'
  BY <1>1 DEF FitInv, SizesInv, Possible, Length
<1> QED BY <1>5, <1>6, <1>7, <1>8, <1>9 DEF FitInv

\* A size is given up for the next one only when it cannot be used.
LEMMA NextSizeKeepsFit ==
  ASSUME FitInv, ~Possible(size), outcome \in {"wrapping", "wrapped"}, NextSize
  PROVE  FitInv'
<1>1. size \in Sizes /\ text \in Texts /\ text' = text
  BY DEF FitInv, FitTypeOK, NextSize
<1>2. size \in Nat /\ size >= MinSize /\ MinSize \in Nat
  BY <1>1, SizesAreApart, SizeAssumption
<1>3. Len(text) \in Nat \ {0} /\ DOMAIN text = 1..Len(text)
  BY <1>1, TextFacts
<1>4. ASSUME NEW s \in Sizes, s >= size PROVE ~Possible(s)
  BY <1>2, <1>4, SizesAreApart DEF FitInv, SizesInv
<1>5. CASE size >= MinSize + 2
  <2>1. size' = size - 2 /\ next' = 1 /\ first' = 1 /\ lines' = <<>> /\ outcome' = "wrapping"
    BY <1>5 DEF NextSize, Start
  <2>2. size' \in Sizes /\ size' \in Nat
    BY <1>1, <1>5, <2>1, SizesAreApart
  <2>3. FitTypeOK'
    BY <1>1, <1>3, <2>1, <2>2 DEF FitTypeOK
  <2>4. LinesInv' /\ CurrentInv'
    BY <1>1, <1>3, <2>1, BoxAssumption DEF LinesInv, CurrentInv
  <2>5. GreedyInv'
    BY <1>1, <1>3, <2>1 DEF GreedyInv, Set
  <2>6. ASSUME NEW s \in Sizes, s > size - 2 PROVE s >= size
    BY <1>1, <1>2, <2>6, SizesAreApart
  <2>7. SizesInv'
    BY <1>1, <1>4, <2>1, <2>6 DEF SizesInv, Possible, Length
  <2> QED BY <2>3, <2>4, <2>5, <2>7 DEF FitInv
<1>6. CASE ~(size >= MinSize + 2)
  <2>1. /\ outcome' = "invalid" /\ size' = size /\ next' = next /\ first' = first
        /\ lines' = lines
    BY <1>6 DEF NextSize
  <2>2. FitTypeOK'
    BY <1>1, <2>1 DEF FitInv, FitTypeOK
  <2>3. LinesInv'
    BY <1>1, <2>1 DEF FitInv, LinesInv, Length
  <2>4. CurrentInv' /\ GreedyInv'
    BY <2>1 DEF CurrentInv, GreedyInv
  <2>5. ASSUME NEW s \in Sizes PROVE s >= size
    BY <1>1, <1>2, <1>6, SizesAreApart
  <2>6. SizesInv'
    BY <1>1, <1>4, <2>1, <2>5 DEF SizesInv, Possible, Length
  <2> QED BY <2>2, <2>3, <2>4, <2>6 DEF FitInv
<1> QED BY <1>5, <1>6

LEMMA GiveUpSizeKeepsFit == FitInv /\ GiveUpSize => FitInv'
<1> SUFFICES ASSUME FitInv, GiveUpSize PROVE FitInv'
  OBVIOUS
<1>1. outcome = "wrapping" /\ next <= Len(text) /\ ~TakesUnit /\ BreakFails /\ NextSize
  BY DEF GiveUpSize
<1>2. WrappingFacts
  BY <1>1, Wrapping
<1>3. ASSUME NEW n \in 1..MaxLines, NEW line, Set(size, n, line) PROVE FALSE
  <2>1. next \in DOMAIN text
    BY <1>1, <1>2 DEF WrappingFacts
  <2>2. Length(size, next, next) \in Int /\ Length(size, next, next) <= BoxWidth
    BY <1>2, <1>3, <2>1 DEF Set, WrappingFacts
  <2>3. first < next
    BY <1>1, <1>2, <2>2 DEF TakesUnit, WrappingFacts
  <2>4. Len(lines) + 1 >= MaxLines
    <3>1. first # next
      BY <1>2, <2>3 DEF WrappingFacts
    <3>2. ~(Length(size, next, next) > BoxWidth)
      BY <2>2, BoxAssumption
    <3> QED BY <1>1, <3>1, <3>2 DEF BreakFails
  <2>5. n \in Nat
    OBVIOUS
  <2>6. line[next] \in Int /\ line[next] <= n /\ line[next] > Len(lines) + 1
    BY <1>1, <1>3, <2>3, <2>5, NextIsLater
  <2> QED BY <1>2, <1>3, <2>4, <2>6 DEF WrappingFacts
<1>4. ~Possible(size)
  BY <1>3, PossibleIsSet
<1> QED BY <1>1, <1>4, NextSizeKeepsFit

LEMMA MeasureKeepsFit == FitInv /\ Measure => FitInv'
<1> SUFFICES ASSUME FitInv, Measure PROVE FitInv'
  OBVIOUS
<1>1. outcome = "wrapped"
  BY DEF Measure
<1>2. size \in Nat /\ Len(lines) \in 1..MaxLines /\ MaxLines \in Nat
  BY <1>1, SizesAreApart, BoxAssumption DEF FitInv, FitTypeOK, CurrentInv
\* Each line was kept within the width of the box when it was filled.
<1>5. FitsBox <=> Height(size, Len(lines)) <= BoxHeight
  BY DEF FitsBox, FitInv, LinesInv
<1>3. CASE Height(size, Len(lines)) <= BoxHeight
  <2>1. /\ outcome' = "fits" /\ text' = text /\ size' = size /\ next' = next
        /\ first' = first /\ lines' = lines
    BY <1>3, <1>5 DEF Measure
  <2>2. FitTypeOK'
    BY <2>1 DEF FitInv, FitTypeOK
  <2>3. LinesInv'
    BY <1>1, <2>1 DEF FitInv, LinesInv, Length
  <2>4. CurrentInv'
    BY <1>2, <1>3, <2>1 DEF CurrentInv, Height, Spacing
  <2>5. GreedyInv'
    BY <1>1, <2>1 DEF FitInv, GreedyInv, Set, Length
  <2>6. SizesInv'
    BY <1>1, <2>1 DEF FitInv, SizesInv, Possible, Length
  <2> QED BY <2>2, <2>3, <2>4, <2>5, <2>6 DEF FitInv
<1>4. CASE ~(Height(size, Len(lines)) <= BoxHeight)
  <2>1. ASSUME NEW n \in 1..MaxLines, NEW line, Set(size, n, line), Height(size, n) <= BoxHeight
        PROVE  FALSE
    <3>1. n \in Nat /\ Len(lines) \in Nat
      BY <1>2
    <3>2. n >= Len(lines)
      BY <1>1, <2>1, <3>1 DEF FitInv, GreedyInv
    <3>3. /\ Height(size, Len(lines)) \in Int /\ Height(size, n) \in Int
          /\ Height(size, Len(lines)) <= Height(size, n)
      BY <1>2, <3>1, <3>2, HeightGrows
    <3> QED BY <1>4, <2>1, <3>3, BoxAssumption
  <2>2. ~Possible(size)
    BY <2>1, PossibleIsSet
  <2>3. NextSize
    BY <1>4, <1>5 DEF Measure
  <2> QED BY <1>1, <2>2, <2>3, NextSizeKeepsFit
<1> QED BY <1>3, <1>4

LEMMA FitStutters == FitInv /\ UNCHANGED fitVars => FitInv'
<1> SUFFICES ASSUME FitInv, UNCHANGED fitVars PROVE FitInv'
  OBVIOUS
<1>1. /\ text' = text /\ size' = size /\ next' = next /\ first' = first
      /\ lines' = lines /\ outcome' = outcome
  BY DEF fitVars
<1>2. FitTypeOK'
  BY <1>1 DEF FitInv, FitTypeOK
<1>3. LinesInv' /\ SizesInv'
  BY <1>1 DEF FitInv, LinesInv, SizesInv, Possible, Length
<1>4. CurrentInv'
  BY <1>1 DEF FitInv, CurrentInv, Length, Height, Spacing
<1>5. GreedyInv'
  BY <1>1 DEF FitInv, GreedyInv, Set, Length
<1> QED BY <1>2, <1>3, <1>4, <1>5 DEF FitInv

\* The lines that were closed are a way to set the text.
LEMMA FitsIsPossible ==
  ASSUME FitInv, outcome = "fits"
  PROVE  Possible(size)
<1> DEFINE Holds(k, i) == lines[k].first <= i /\ i <= lines[k].last
           line == [i \in DOMAIN text |-> CHOOSE k \in DOMAIN lines : Holds(k, i)]
           n == Len(lines)
<1>1. size \in Nat /\ n \in 1..MaxLines /\ Height(size, n) <= BoxHeight /\ text \in Texts
  BY SizesAreApart DEF FitInv, FitTypeOK, CurrentInv
<1>2. lines \in Seq([first: DOMAIN text, last: DOMAIN text])
  BY DEF FitInv, FitTypeOK
<1>3. n \in Nat /\ DOMAIN lines = 1..n /\ DOMAIN text = 1..Len(text) /\ Len(text) \in Nat
  BY <1>1, <1>2, TextFacts
<1>4. ASSUME NEW k \in DOMAIN lines
      PROVE  /\ lines[k].first \in DOMAIN text /\ lines[k].last \in DOMAIN text
             /\ Length(size, lines[k].first, lines[k].last) <= BoxWidth
  <2> DEFINE S == [first: DOMAIN text, last: DOMAIN text]
  <2>1. lines[k] \in S
    <3>1. lines \in Seq(S)
      BY <1>2
    <3> HIDE DEF S
    <3> QED BY <3>1
  <2> QED BY <2>1 DEF FitInv, LinesInv
<1>5. ASSUME NEW i \in DOMAIN text
      PROVE  line[i] \in 1..n /\ Holds(line[i], i)
  <2>1. \E k \in DOMAIN lines : Holds(k, i)
    BY DEF FitInv, LinesInv
  <2> HIDE DEF Holds
  <2> QED BY <1>3, <2>1
<1>6. line \in [DOMAIN text -> 1..n]
  BY <1>5
<1> HIDE DEF line
<1>7. ASSUME NEW i \in DOMAIN text, NEW j \in DOMAIN text, i <= j
      PROVE  line[i] <= line[j] /\ (line[i] = line[j] => Length(size, i, j) <= BoxWidth)
  <2>1. line[i] \in DOMAIN lines /\ line[j] \in DOMAIN lines /\ Holds(line[i], i) /\ Holds(line[j], j)
    BY <1>3, <1>5
  <2>2. ASSUME line[j] < line[i] PROVE FALSE
    <3>1. lines[line[j]].last < lines[line[i]].first
      BY <2>1, <2>2 DEF FitInv, LinesInv
    <3>2. lines[line[j]].last \in Nat /\ lines[line[i]].first \in Nat /\ i \in Nat /\ j \in Nat
      BY <1>3, <1>4, <2>1
    <3> QED BY <1>7, <2>1, <3>1, <3>2
  <2>3. ASSUME line[i] = line[j] PROVE Length(size, i, j) <= BoxWidth
    <3> DEFINE k == line[i]
    <3>1. k \in DOMAIN lines /\ lines[k].first <= i /\ j <= lines[k].last
      BY <2>1, <2>3
    <3>2. /\ lines[k].first \in DOMAIN text /\ lines[k].last \in DOMAIN text
          /\ Length(size, lines[k].first, lines[k].last) <= BoxWidth
      BY <1>4, <3>1
    <3> HIDE DEF k
    <3>3. /\ Length(size, i, j) \in Int /\ Length(size, lines[k].first, lines[k].last) \in Int
          /\ Length(size, i, j) <= Length(size, lines[k].first, lines[k].last)
      BY <1>1, <3>1, <3>2, PartIsNarrower
    <3> QED BY <3>2, <3>3, BoxAssumption
  <2> QED BY <1>3, <1>5, <2>2, <2>3
<1>8. Set(size, n, line)
  BY <1>6, <1>7 DEF Set
<1> QED BY <1>1, <1>8, PossibleIsSet

\* Nothing but the largest size at which the text can be set is chosen, and the
\* text is refused only when there is none (_fit_font, _wrap_text).
THEOREM LargestFontIsChosen == FitInit /\ [][FitNext]_fitVars => []LargestFontThatFits
<1>1. FitInv /\ [FitNext]_fitVars => FitInv'
  BY TakeKeepsFit, BreakKeepsFit, GiveUpSizeKeepsFit, WrappedKeepsFit, MeasureKeepsFit,
     FitStutters DEF FitNext
<1>2. FitInv => LargestFontThatFits
  BY FitsIsPossible DEF FitInv, SizesInv, LargestFontThatFits
<1> QED BY <1>1, <1>2, FitInitKeepsFit, PTL
==============================================================================
