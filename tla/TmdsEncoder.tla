----------------------------- MODULE TmdsEncoder ------------------------------
(* hdmi_tx_tmds_encoder_submodule: three encoders side by side - pixels,     *)
(* packet data (TERC4), control and guard bands - behind an input register,  *)
(* and a selection that travels with the data through the two stages.        *)
EXTENDS TmdsCode, Sequences

CONSTANT Inputs        \* [mode, d, s, c]: what mode, d_in, s_in, c_in may be

VARIABLES channel,           \* TMDS_CHANNEL of this instance
          sel, selDly,       \* sel_reg, sel_dly_reg
          qm, sReg, cReg,    \* qm_reg, s_reg, c_reg
          cnt,               \* cnt: half of (ones - zeros) of the line so far
          qout, sout, cout,  \* qout_reg, sout_reg, cout_reg
          sent,              \* the last two inputs, newest first (observer)
          sum                \* disparity of the words of the line (observer)

encoderVars ==
    <<channel, sel, selDly, qm, sReg, cReg, cnt, qout, sout, cout, sent, sum>>

Modes == {"control", "video", "data", "videoGuard", "dataGuard"}

\* The ports d_in, s_in, c_in, and the five values mode is given.
ASSUME InputsAssumption ==
    Inputs \subseteq [mode : Modes, d : AllBytes, s : 0..15, c : 0..3]

Bits(n) == {i \in 0..9 : (n \div 2^i) % 2 = 1}

terc4 ==
    [s \in 0..15 |-> Bits(
        CASE s = 0  -> \b1010011100 [] s = 1  -> \b1001100011
          [] s = 2  -> \b1011100100 [] s = 3  -> \b1011100010
          [] s = 4  -> \b0101110001 [] s = 5  -> \b0100011110
          [] s = 6  -> \b0110001110 [] s = 7  -> \b0100111100
          [] s = 8  -> \b1011001100 [] s = 9  -> \b0100111001
          [] s = 10 -> \b0110011100 [] s = 11 -> \b1011000110
          [] s = 12 -> \b1010001110 [] s = 13 -> \b1001110001
          [] s = 14 -> \b0101100011 [] s = 15 -> \b1011000011)]

controlCode ==
    [c \in 0..3 |-> Bits(
        CASE c = 0 -> \b1101010100 [] c = 1 -> \b0010101011
          [] c = 2 -> \b0101010100 [] c = 3 -> \b1010101011)]

videoGuardWord == Bits(IF channel = 1 THEN \b0100110011 ELSE \b1011001100)
dataGuardWord(c) == IF channel = 0 THEN terc4[12 + c] ELSE Bits(\b0100110011)

-----------------------------------------------------------------------------
(* Only the selection has an initial value; the other registers come up as  *)
(* zeros, cnt anywhere in its range.  No input has been taken yet.           *)
EncoderInit ==
    /\ channel \in 0..2
    /\ sel = "control" /\ selDly = "control"
    /\ qm = {} /\ sReg = 0
    /\ cReg = [guard |-> "none", c |-> 0]
    /\ cnt \in -4..4
    /\ qout = {} /\ sout = {} /\ cout = {}
    /\ sent = <<>>
    /\ sum = 0

\* The first stage: sel_reg, qm_reg, s_reg, c_reg.
LatchInput(in) ==
    /\ sel' = IF in.mode \in {"video", "data"} THEN in.mode ELSE "control"
    /\ selDly' = sel
    /\ qm' = byteencode(in.d)
    /\ sReg' = in.s
    /\ cReg' = [guard |-> IF in.mode \in {"videoGuard", "dataGuard"}
                          THEN in.mode ELSE "none",
                c |-> in.c]

\* The second stage: qout_reg, sout_reg, cout_reg.
controlWord ==
    CASE cReg.guard = "videoGuard" -> videoGuardWord
      [] cReg.guard = "dataGuard"  -> dataGuardWord(cReg.c)
      [] OTHER                     -> controlCode[cReg.c]

lineCntFault == nextCnt(qm, cnt)                \* not cleared in blanking
lineCnt == IF sel = "video" THEN nextCnt(qm, cnt) ELSE 0

EncodeWords ==
    /\ cnt' = lineCnt
    /\ qout' = videoWord(qm, cnt)
    /\ sout' = terc4[sReg]
    /\ cout' = controlWord

q_outFault == CASE sel = "video" -> qout        \* selects one clock early
                [] sel = "data"  -> sout
                [] OTHER         -> cout
q_out == CASE selDly = "video" -> qout
           [] selDly = "data"  -> sout
           [] OTHER            -> cout

\* The observers see the word of every clock; the sum restarts with the line.
Observe(in) ==
    /\ sent' = IF sent = <<>> THEN <<in>> ELSE <<in, sent[1]>>
    /\ sum' = IF sel = "video" THEN sum + Ones(qout') - 5 ELSE 0

ClockEncoder(in) ==
    LatchInput(in) /\ EncodeWords /\ Observe(in) /\ UNCHANGED channel

Next == \E in \in Inputs : ClockEncoder(in)

Spec == EncoderInit /\ [][Next]_encoderVars

-----------------------------------------------------------------------------
TypeOK ==
    /\ channel \in 0..2
    /\ cnt \in -4..4                            \* integer range -4 to 4
    /\ {sel, selDly} \subseteq {"video", "data", "control"}
    /\ qm \subseteq 0..8 /\ sReg \in 0..15
    /\ cReg \in [guard : {"none", "videoGuard", "dataGuard"}, c : 0..3]
    /\ qout \subseteq 0..9 /\ sout \subseteq 0..9 /\ cout \subseteq 0..9

(* The disparity counter restarts with every line and follows the words that *)
(* are really selected, so that its range keeps the line balanced for ever.  *)
LineDisparityTracked == sel = "video" => sum = cnt

(* Two clocks after an input the sink decodes exactly that input from the    *)
(* channel, whatever was sent before and comes after it: the selection and   *)
(* the three data paths stay aligned over every change of period.  And only  *)
(* control words have seven transitions or more, so that the sink can tell   *)
(* the control periods from everything else and align its words.             *)
Decodes(in) ==
    CASE in.mode = "video"      -> Decode(q_out) = in.d
      [] in.mode = "data"       -> {s \in 0..15 : terc4[s] = q_out} = {in.s}
      [] in.mode = "control"    -> {c \in 0..3 : controlCode[c] = q_out} = {in.c}
      [] in.mode = "videoGuard" -> q_out = videoGuardWord
      [] in.mode = "dataGuard"  -> q_out = dataGuardWord(in.c)

SinkDecodes ==
    Len(sent) = 2 => /\ Decodes(sent[2])
                     /\ Transitions(q_out) >= 7 <=> sent[2].mode = "control"

(* Whatever byte the pixel is, of all 256, at whatever disparity the line    *)
(* has reached: its word decodes to it, has at most five transitions, and    *)
(* moves cnt by its own disparity, not out of range.                         *)
EveryPixelIsSafe ==
    sel = "video" =>
        \A d \in AllBytes :
            LET code == byteencode(d)
                word == videoWord(code, cnt)
            IN  /\ Decode(word) = d
                /\ Transitions(word) <= 5
                /\ nextCnt(code, cnt) = cnt + Ones(word) - 5
                /\ nextCnt(code, cnt) \in -4..4

=============================================================================
