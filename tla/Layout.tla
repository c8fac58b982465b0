------------------------------- MODULE Layout -------------------------------
(***************************************************************************)
(* Where composition.py puts the layers of a picture.  The four texts have *)
(* boxes of a fixed size; the logo and the product interface are scaled    *)
(* down to at most a given size (Image.thumbnail), so theirs is any size   *)
(* up to it, depending on the asset.                                       *)
(***************************************************************************)
EXTENDS Integers

CanvasWidth == 1600
CanvasHeight == 900

LogoSizes == [width: 1..220, height: 1..96]
InterfaceSizes == [width: 1..650, height: 1..520]

\* _rendered_layer: the evidence of a layer, with the bounds it is pasted at.
Layer(kind, left, top, width, height) ==
  [kind |-> kind, left |-> left, top |-> top, right |-> left + width,
   bottom |-> top + height, width |-> width, height |-> height]

\* The layers PillowCompositor.compose puts over the background.
Pasted(interface, logo) ==
  { Layer("product_ui", 850, 170, interface.width, interface.height),
    Layer("logo", 100, 70, logo.width, logo.height),
    Layer("headline", 100, 220, 660, 124),
    Layer("body", 100, 390, 680, 86),
    Layer("cta", 100, 560, 330, 76),
    Layer("disclosure", 100, 820, 430, 44) }

Layers(interface, logo) ==
  {Layer("background", 0, 0, CanvasWidth, CanvasHeight)} \cup Pasted(interface, logo)

\* contracts.py CompositionLayer: the evidence of a layer that can exist.
LayerAllowed(layer) ==
  /\ layer.width \in 1..CanvasWidth /\ layer.height \in 1..CanvasHeight
  /\ layer.left >= 0 /\ layer.top >= 0
  /\ layer.right <= CanvasWidth /\ layer.bottom <= CanvasHeight
  /\ layer.right > layer.left /\ layer.bottom > layer.top
  /\ layer.right - layer.left = layer.width /\ layer.bottom - layer.top = layer.height

Apart(layer, other) ==
  \/ layer.right <= other.left \/ other.right <= layer.left
  \/ layer.bottom <= other.top \/ other.bottom <= layer.top
=============================================================================
