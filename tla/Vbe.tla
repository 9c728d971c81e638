-------------------------------- MODULE Vbe --------------------------------
(***************************************************************************)
(* VBE_Initialize and the drawing it does (libs/boot/vbe.c): a mode is     *)
(* picked from the list of the VESA BIOS, set, and drawn to through the    *)
(* information that was read last.  The frame buffers are memory counted   *)
(* in pixels of four bytes.                                                *)
(***************************************************************************)
EXTENDS Integers, Sequences

CONSTANTS
  desiredWidth, desiredHeight,  \* (1024, 768)
  FONT_WIDTH, FONT_HEIGHT,      \* (8, 16)
  Text,                         \* the characters drawn
  Glyph,                        \* font: of each character, the pixels set, <<column, row>>
  ModeLists,                    \* what the BIOS may have, in its order, see ModeOK
  LinearAlways,                 \* does a mode set without bit 14 have its frame buffer?
  Memory                        \* indices of pixels

\* fails: VBE_GetModeInfo of it fails.  fits: attributes and depth are those wanted.
ModeOK(m) ==
  /\ m.fails \in BOOLEAN /\ m.fits \in BOOLEAN
  /\ {m.width, m.height, m.pitch, m.framebuffer} \subseteq Nat
  /\ m.pitch % 4 = 0 /\ m.pitch >= 4 * m.width
  /\ m.framebuffer .. m.framebuffer + m.height * (m.pitch \div 4) - 1 \subseteq Memory

ASSUME VbeAssumption ==
  /\ \A s \in ModeLists : /\ Len(s) \in Nat /\ DOMAIN s = 1 .. Len(s)
                           /\ \A i \in DOMAIN s : ModeOK(s[i])
  /\ {desiredWidth, desiredHeight, FONT_WIDTH, FONT_HEIGHT} \subseteq Nat \ {0}
  /\ \A c \in DOMAIN Glyph : Glyph[c] \subseteq (0 .. FONT_WIDTH - 1) \X (0 .. FONT_HEIGHT - 1)
  /\ Text \in Seq(DOMAIN Glyph)
  /\ Len(Text) * FONT_WIDTH <= desiredWidth /\ FONT_HEIGHT <= desiredHeight
  /\ LinearAlways \in BOOLEAN

VARIABLES
  modes,     \* the BIOS's list
  vbePc,
  i,         \* the entry of the list in hand
  modeInfo,  \* of which mode the information at MEMORY_MODE_INFO is, 0 if of none
  pickedMode,
  display,   \* the mode the display is in, 0 for text
  fb,        \* what has been written to memory
  vbeResult

vbeVars == <<modes, vbePc, i, modeInfo, pickedMode, display, fb, vbeResult>>

None == 0
Black == "black"

VbeInit ==
  /\ modes \in ModeLists
  /\ vbePc = "VBE_Initialize" /\ i = 1
  /\ modeInfo = None /\ pickedMode = None /\ display = None
  /\ fb = [p \in Memory |-> Black] /\ vbeResult = FALSE

\* VBE_GetControllerInfo: without VESA BIOS the boot stops.
GetControllerInfo ==
  /\ vbePc = "VBE_Initialize"
  /\ \/ vbePc' = "loop" /\ UNCHANGED vbeResult
     \/ vbePc' = "return" /\ vbeResult' = FALSE
  /\ UNCHANGED <<modes, i, modeInfo, pickedMode, display, fb>>

Wanted(m) == m.fits /\ m.width = desiredWidth /\ m.height = desiredHeight

\* Bug: the search goes on after a mode was picked.
BugNoBreak ==
  /\ vbePc = "loop" /\ i <= Len(modes)
  /\ IF modes[i].fails THEN UNCHANGED <<modeInfo, pickedMode>>
     ELSE modeInfo' = i /\ pickedMode' = IF Wanted(modes[i]) THEN i ELSE pickedMode
  /\ i' = i + 1
  /\ UNCHANGED <<modes, vbePc, display, fb, vbeResult>>

\* Bug: what an earlier call left in the buffer is taken for the mode's.
BugFailureIgnored ==
  /\ vbePc = "loop" /\ i <= Len(modes)
  /\ modeInfo' = IF modes[i].fails THEN modeInfo ELSE i
  /\ IF modeInfo' # None /\ modes[IF modeInfo' = None THEN 1 ELSE modeInfo'].width = desiredWidth
     THEN pickedMode' = i /\ vbePc' = "set" /\ UNCHANGED i
     ELSE i' = i + 1 /\ UNCHANGED <<vbePc, pickedMode>>
  /\ UNCHANGED <<modes, display, fb, vbeResult>>

\* A turn of the loop: the first mode that fits ends it.
TryMode ==
  /\ vbePc = "loop" /\ i <= Len(modes)
  /\ modeInfo' = IF modes[i].fails THEN modeInfo ELSE i
  /\ IF ~modes[i].fails /\ Wanted(modes[i])
     THEN pickedMode' = i /\ vbePc' = "set" /\ UNCHANGED i
     ELSE i' = i + 1 /\ UNCHANGED <<vbePc, pickedMode>>
  /\ UNCHANGED <<modes, display, fb, vbeResult>>

\* Bug: the entry behind the list is stepped over as well.
BugEndSteps ==
  /\ vbePc = "loop" /\ i > Len(modes)
  /\ i' = i + 1
  /\ vbePc' = IF pickedMode = None THEN "return" ELSE "set"
  /\ vbeResult' = TRUE
  /\ UNCHANGED <<modes, modeInfo, pickedMode, display, fb>>

\* The list is over: a mode picked is set, none is no error.
EndOfModes ==
  /\ vbePc = "loop" /\ i > Len(modes)
  /\ vbePc' = IF pickedMode = None THEN "return" ELSE "set"
  /\ vbeResult' = TRUE
  /\ UNCHANGED <<modes, i, modeInfo, pickedMode, display, fb>>

\* VBE_SetMode, which may fail; that is no error either.
VbeSetMode ==
  /\ vbePc = "set"
  /\ \/ display' = pickedMode /\ vbePc' = "rectangle"
     \/ vbePc' = "return" /\ UNCHANGED display
  /\ vbeResult' = TRUE
  /\ UNCHANGED <<modes, i, modeInfo, pickedMode, fb>>

\* Bug: a line is as long as the mode is wide.
BugPixelAt(x, y) == modes[modeInfo].framebuffer + y * desiredWidth + x

\* VBE_PutPixel: pitch is in bytes.
PixelAt(x, y) == modes[modeInfo].framebuffer + ((y * modes[modeInfo].pitch) \div 4) + x

\* VBE_PutPixel of every pixel of a set.  Without frame buffer nothing is there to keep it.
Put(pixels, colour) ==
  LET at == {PixelAt(p[1], p[2]) : p \in pixels}
  IN fb' = [p \in Memory |-> IF LinearAlways /\ p \in at THEN colour ELSE fb[p]]

Screen == (0 .. desiredWidth - 1) \X (0 .. desiredHeight - 1)

VBE_DrawRectangle ==
  /\ vbePc = "rectangle"
  /\ Put(Screen, "blue")
  /\ vbePc' = "string"
  /\ UNCHANGED <<modes, i, modeInfo, pickedMode, display, vbeResult>>

\* The pixels of the text in the middle of the screen.
TextPixels ==
  LET left == (desiredWidth - Len(Text) * FONT_WIDTH) \div 2
      top == (desiredHeight - FONT_HEIGHT) \div 2
  IN UNION {{<<left + (n - 1) * FONT_WIDTH + g[1], top + g[2]>> : g \in Glyph[Text[n]]} :
              n \in DOMAIN Text}

VBE_DrawString ==
  /\ vbePc = "string"
  /\ Put(TextPixels, "white")
  /\ vbePc' = "return"
  /\ UNCHANGED <<modes, i, modeInfo, pickedMode, display, vbeResult>>

VbeNext ==
  \/ GetControllerInfo \/ TryMode \/ EndOfModes \/ VbeSetMode
  \/ VBE_DrawRectangle \/ VBE_DrawString

VbeSpec == VbeInit /\ [][VbeNext]_vbeVars

-----------------------------------------------------------------------------
VbeTypeOK ==
  /\ modes \in ModeLists
  /\ vbePc \in {"VBE_Initialize", "loop", "set", "rectangle", "string", "return"}
  /\ i \in 1 .. Len(modes) + 1
  /\ {modeInfo, pickedMode, display} \subseteq {None} \cup DOMAIN modes
  /\ fb \in [Memory -> {Black, "blue", "white"}]
  /\ vbeResult \in BOOLEAN

\* The pixels written are within the frame buffer of the mode the display is in.
DrawsInFrameBuffer ==
  \A p \in Memory : fb[p] # Black =>
    /\ display # None
    /\ LET m == modes[display]
       IN p \in m.framebuffer .. m.framebuffer + m.height * (m.pitch \div 4) - 1

\* What the display shows once the picture is drawn, line by line as the mode has it:
\* the text in the middle, on blue.
PictureShown ==
  vbePc = "return" /\ display # None =>
    \A x \in 0 .. desiredWidth - 1, y \in 0 .. desiredHeight - 1 :
      LET m == modes[display]
          left == (desiredWidth - Len(Text) * FONT_WIDTH) \div 2
          top == (desiredHeight - FONT_HEIGHT) \div 2
          n == IF x < left THEN 0 ELSE ((x - left) \div FONT_WIDTH) + 1
          shown == fb[m.framebuffer + y * (m.pitch \div 4) + x]
      IN shown = IF /\ n \in DOMAIN Text
                    /\ <<(x - left) % FONT_WIDTH, y - top>> \in Glyph[Text[n]]
                 THEN "white" ELSE "blue"

\* The mode set is the first of the list whose information was had and is as wanted;
\* a later one is never set, nor one that is not as wanted.
FirstFit ==
  display # None =>
    /\ Wanted(modes[display]) /\ ~modes[display].fails
    /\ \A k \in 1 .. display - 1 : modes[k].fails \/ ~Wanted(modes[k])
=============================================================================
