------------------------------- MODULE ColorBar -------------------------------
(* The colour bar generator of video_syncgen.  It does not compute the       *)
(* colour of a pixel from the counters: a state machine walks through the    *)
(* segments of a line and through six zones of the screen, each state        *)
(* waiting for the one value of hcount (and vcount) that ends it.  A state   *)
(* whose value never comes keeps the picture for ever.                       *)
EXTENDS SyncGen, Sequences

CONSTANT BarGenerics     \* the pairs BAR_MODE, COLORSPACE considered

ASSUME BarAssumption ==
    BarGenerics \subseteq {"WIDE", "SD"} \X {"RGB", "BT601", "BT709"}

VARIABLES BAR_MODE,      \* the generics of this instance
          COLORSPACE,
          zone,          \* areastate: the zone, 1..6,
          segment,       \* and the segment of its lines
          colour,        \* cb_rgb_reg: a named colour, or a level of a ramp
          lamp           \* cblamp_reg

barVars == <<BAR_MODE, COLORSPACE, zone, segment, colour, lamp>>

Ycc == COLORSPACE # "RGB"

-----------------------------------------------------------------------------
(* cb_band: the last clock of the N-th band.                                 *)
WideBand(n) ==
    CASE n = 0  -> H_ACTIVE \div 8
      [] n = 8  -> H_ACTIVE
      [] n = 9  -> H_ACTIVE \div 8 + (3 * H_ACTIVE * 3) \div (28 * 2)
      [] n = 10 -> H_ACTIVE \div 8 + (7 * H_ACTIVE * 3) \div (28 * 2)
      [] OTHER  -> H_ACTIVE \div 8 + (n * H_ACTIVE * 3) \div 28

SdBand(n) ==
    CASE n = 0  -> 0
      [] n = 7  -> H_ACTIVE
      [] n = 8  -> H_ACTIVE + 1
      [] n = 9  -> (3 * H_ACTIVE) \div (7 * 2)
      [] n = 10 -> (7 * H_ACTIVE) \div (7 * 2)
      [] OTHER  -> (n * H_ACTIVE) \div 7

cb_band(n) == H_START - EARLY_REQ - 1
                + (IF BAR_MODE = "WIDE" THEN WideBand(n) ELSE SdBand(n))

CB_LEFTBAND  == cb_band(0)
CB_BLACKBAND == cb_band(9)
CB_WHITEBAND == cb_band(10)

\* CB_NORMAL_V .. CB_BLAMP_V: the last line of each zone.
ZoneEndFault(z) == V_START + (V_ACTIVE * (6 + z)) \div 12
ZoneEnd(z)      == V_START + (V_ACTIVE * (6 + z)) \div 12 - 1

lampBegin == IF Ycc THEN 16 ELSE 0
lampEnd   == IF Ycc THEN 235 ELSE 255
lampWidth == IF BAR_MODE = "WIDE" THEN (H_ACTIVE * 3) \div 4 ELSE H_ACTIVE
lampStep  == ((lampEnd - lampBegin) * 256) \div (lampWidth - 1)

(* The bands that end the segments of a zone's lines: LEFTBAND, the seven    *)
(* bars and RIGHTBAND; LEFTBAND, FULLWHITE, GRAY and RIGHTBAND; LEFTBAND, a  *)
(* ramp and RIGHTBAND.                                                       *)
SegmentBands(z) ==
    CASE z = 1  -> <<0, 1, 2, 3, 4, 5, 6, 7, 8>>
      [] z = 2  -> <<0, 1, 7, 8>>
      [] OTHER  -> <<0, 7, 8>>
RightBand(z) == Len(SegmentBands(z))
InRamp       == zone \in 3..6 /\ segment = 2

Flat(name) == [name |-> name, level |-> 0]

\* What the segments after LEFTBAND show; a ramp shows its level instead.
SegmentColour(z, s) ==
    CASE z = 1 -> Flat(<<"40W", "75W", "75Y", "75C", "75G", "75M", "75R",
                         "75B", "40W">>[s])
      [] z = 2 -> Flat(<<"C", "W", "75W", "B">>[s])
      [] z = 3 -> Flat(<<"Y", "ramp", "R">>[s])
      [] OTHER -> Flat(<<"15W", "ramp", "15W">>[s])

(* The level a ramp shows.  In YCbCr zones 4 and 5 are chroma ramps, with    *)
(* their centre corrected by 2, and zone 6 is a black and white bar.         *)
RampColour(z) ==
    IF Ycc /\ z \in {4, 5}
    THEN [name |-> "ramp", level |-> (lamp \div 256 + 2) % 256]
    ELSE [name |-> "ramp", level |-> lamp \div 256]

ZoneSixBar ==
    IF At(CB_BLACKBAND) THEN Flat("W")
    ELSE IF At(CB_WHITEBAND) THEN Flat("K")
    ELSE colour

-----------------------------------------------------------------------------
BarInit ==
    /\ \E pair \in BarGenerics : BAR_MODE = pair[1] /\ COLORSPACE = pair[2]
    /\ zone = 1 /\ segment = 1
    /\ colour = Flat("K")
    /\ lamp = 0

RunLamp ==
    lamp' = IF At(CB_LEFTBAND - 1) THEN lampBegin * 256
            ELSE (lamp + lampStep) % 65536

SegmentEnds == At(cb_band(SegmentBands(zone)[segment]))

(* From LEFTBAND, a bar or a ramp into the next segment of the line.         *)
NextSegment ==
    /\ SegmentEnds /\ segment < RightBand(zone)
    /\ segment' = segment + 1
    /\ colour' = IF zone \in 3..6 /\ segment = 1
                 THEN IF Ycc /\ zone = 6 THEN Flat("K") ELSE RampColour(zone)
                 ELSE SegmentColour(zone, segment + 1)
    /\ zone' = zone

(* From RIGHTBAND to the LEFTBAND of the same zone, or of the next one.      *)
NextLine ==
    /\ SegmentEnds /\ segment = RightBand(zone)
    /\ segment' = 1
    /\ zone' = IF vcount # ZoneEnd(zone) THEN zone
               ELSE IF zone = 6 THEN 1
               ELSE zone + 1
    /\ colour' = SegmentColour(zone', 1)

InSegment ==
    /\ ~SegmentEnds
    /\ colour' = IF ~InRamp THEN colour
                 ELSE IF Ycc /\ zone = 6 THEN ZoneSixBar
                 ELSE RampColour(zone)
    /\ UNCHANGED <<zone, segment>>

RunBar == NextSegment \/ NextLine \/ InSegment

(* One edge of video_clk, together with VideoEdge, and the reset.            *)
BarEdge == RunLamp /\ RunBar /\ UNCHANGED <<BAR_MODE, COLORSPACE>>

BarReset ==
    /\ zone' = 1 /\ segment' = 1
    /\ colour' = Flat("K")
    /\ lamp' = 0
    /\ UNCHANGED <<BAR_MODE, COLORSPACE>>

-----------------------------------------------------------------------------
ColourNames == {"K", "15W", "40W", "75W", "W", "75Y", "75C", "75G", "75M",
                "75R", "75B", "C", "B", "Y", "R", "ramp"}

BarTypeOK ==
    /\ <<BAR_MODE, COLORSPACE>> \in BarGenerics
    /\ zone \in 1..6
    /\ segment \in 1..RightBand(zone)
    /\ colour \in [name : ColourNames, level : 0..255]
    /\ lamp \in 0..65535

-----------------------------------------------------------------------------
(* The picture, pixel by pixel.                                              *)
px == hcount - (H_START - EARLY_REQ)
py == vcount - V_START

\* The zones have 7, 1, 1, 1, 1 and 1 twelfths of the height.
ZoneOfLine(y) ==
    CHOOSE z \in 1..6 :
        /\ y < (V_ACTIVE * (6 + z)) \div 12
        /\ z > 1 => y >= (V_ACTIVE * (5 + z)) \div 12

\* The bars: number 0 is the left margin, number 8 the right one.
LeftMargin == IF BAR_MODE = "WIDE" THEN H_ACTIVE \div 8 ELSE 0
BarStart(n) ==
    LeftMargin + (IF BAR_MODE = "WIDE" THEN ((n - 1) * H_ACTIVE * 3) \div 28
                                       ELSE ((n - 1) * H_ACTIVE) \div 7)
BarOfPixel(x) ==
    IF x < LeftMargin THEN 0
    ELSE CHOOSE n \in 1..8 : /\ x >= BarStart(n)
                             /\ n < 8 => x < BarStart(n + 1)

BarNames == <<"75W", "75Y", "75C", "75G", "75M", "75R", "75B">>

\* The level of an exact ramp; the accumulator may stay behind it by its
\* truncated step.
ExactLevel(x, centre) ==
    lampBegin + ((x - LeftMargin) * (lampEnd - lampBegin)) \div (lampWidth - 1)
        + centre
Near(level, exact) == level <= exact /\ exact <= level + 1 + lampWidth \div 256

\* The white part of the black and white bar.
WhiteFrom  == IF BAR_MODE = "WIDE" THEN LeftMargin + (9 * H_ACTIVE) \div 56
                                   ELSE (3 * H_ACTIVE) \div 14
WhiteUntil == IF BAR_MODE = "WIDE" THEN LeftMargin + (21 * H_ACTIVE) \div 56
                                   ELSE H_ACTIVE \div 2

Shows(x, y) ==
    LET z   == ZoneOfLine(y)
        bar == BarOfPixel(x)
    IN  CASE bar = 0 -> colour = SegmentColour(z, 1)
          [] bar = 8 -> colour = SegmentColour(z, RightBand(z))
          [] z = 1 /\ bar \in 1..7 -> colour = Flat(BarNames[bar])
          [] z = 2 /\ bar \in 1..7 -> colour = Flat(IF bar = 1 THEN "W" ELSE "75W")
          [] z = 6 /\ Ycc /\ bar \in 1..7 ->
                colour = Flat(IF Within(x, WhiteFrom, WhiteUntil) THEN "W" ELSE "K")
          [] OTHER ->
                /\ colour.name = "ramp"
                /\ Near(colour.level,
                        ExactLevel(x, IF Ycc /\ z \in {4, 5} THEN 2 ELSE 0))

(* Wherever its counters started, the state machine falls in step with them: *)
(* from some time on every requested pixel has the colour of its place.      *)
PictureAppears == <>[](request => Shows(px, py))

=============================================================================
