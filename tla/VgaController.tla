--------------------------- MODULE VgaController ---------------------------
(***************************************************************************)
(* VGA_controller.sv: the pixel clock, the two pixel counters and the sync *)
(* pulses.  The rising edge of vs is the clock of every register of the    *)
(* game (frame_clk in lab62.sv), so this module is what a frame is.        *)
(***************************************************************************)
EXTENDS Integers

CONSTANTS
  hpixels, vlines,              \* the last pixel of a line, the last line
  HVisible, VVisible,           \* 640, 480
  HSyncStart, HSyncEnd,         \* 656, 752
  VSyncFirst, VSyncSecond       \* 490, 491

ASSUME VgaAssumption ==
  /\ {hpixels, vlines, HVisible, VVisible} \subseteq Nat
  /\ {HSyncStart, HSyncEnd, VSyncFirst, VSyncSecond} \subseteq Nat
  /\ VVisible <= VSyncFirst /\ VVisible <= VSyncSecond   \* the pulse comes after the picture

VARIABLES
  clkdiv,       \* the pixel clock, half of Clk
  hc, vc,       \* pixel and line
  hs, vs        \* sync pulses, low when active

raster == <<clkdiv, hc, vc, hs, vs>>

\* The registers power up as a reset leaves them.
VgaInit == clkdiv = 0 /\ hc = 0 /\ vc = 0 /\ hs = 0 /\ vs = 0

\* The reset button.
Reset == clkdiv' = 0 /\ hc' = 0 /\ vc' = 0 /\ hs' = 0 /\ vs' = 0

\* Mutants: a line is a pixel too long, the line counter saturates, and the lines
\* of the pulse are cut to eight bits.
NextPixel_Late == IF hc > hpixels THEN 0 ELSE hc + 1
NextLine_Saturated == IF vc = vlines THEN vc ELSE vc + 1
InVSync_Narrow == vc + 1 = VSyncFirst % 256 \/ vc + 1 = VSyncSecond % 256

NextPixel == IF hc = hpixels THEN 0 ELSE hc + 1

NextLine == IF vc = vlines THEN 0 ELSE vc + 1

InHSync == HSyncStart <= hc + 1 /\ hc + 1 < HSyncEnd

InVSync == vc + 1 = VSyncFirst \/ vc + 1 = VSyncSecond

\* posedge Clk on which the pixel clock falls
ClkFall ==
  /\ clkdiv = 1
  /\ clkdiv' = 0
  /\ UNCHANGED <<hc, vc, hs, vs>>

\* posedge Clk on which it rises: the counters and the sync registers move
\* together, so the pulses show where the counters were.
ClkRise ==
  /\ clkdiv = 0
  /\ clkdiv' = 1
  /\ hc' = NextPixel
  /\ vc' = IF hc = hpixels THEN NextLine ELSE vc
  /\ hs' = IF InHSync THEN 0 ELSE 1
  /\ vs' = IF InVSync THEN 0 ELSE 1

VgaNext == Reset \/ ClkFall \/ ClkRise

\* Clk is the board's oscillator.
VgaSpec == VgaInit /\ [][VgaNext]_raster /\ WF_raster(ClkFall \/ ClkRise)

display == hc < HVisible /\ vc < VVisible

---------------------------------------------------------------------------
\* Properties

\* The counters stay on the 800 by 525 raster.
VgaTypeOK ==
  /\ clkdiv \in 0 .. 1 /\ hs \in 0 .. 1 /\ vs \in 0 .. 1
  /\ hc \in 0 .. hpixels /\ vc \in 0 .. vlines

(***************************************************************************)
(* The game's registers are clocked while the beam is off the screen, so   *)
(* no frame is shown half old and half new; the one exception is the edge  *)
(* that ends a reset, on the first pixel.                                  *)
(***************************************************************************)
NoTearing == [][vs = 0 /\ vs' = 1 => ~display \/ (hc = 0 /\ vc = 0)]_raster

(***************************************************************************)
(* Frames keep coming unless somebody keeps pressing the reset button.     *)
(* This is the fairness the arena assumes of its frames.                   *)
(***************************************************************************)
FramesKeepComing == ([]<><<Reset>>_raster) \/ ([]<>(vs = 0) /\ []<>(vs = 1))
============================================================================
