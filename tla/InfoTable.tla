------------------------------ MODULE InfoTable -------------------------------
(* The contents of the packets of hdmi_tx_infopacket_submodule, computed     *)
(* from the generics when the design is elaborated: the AVI infoframe, the   *)
(* Audio infoframe and the Audio Clock Regeneration packet.  Each has its    *)
(* bytes in the header, HB0..HB2, and in the first sub-packet, PB0..PB6; the *)
(* other bytes of the table are zero.  Sequences are numbered from 1.        *)
EXTENDS Integers, Sequences, FiniteSetsExt

Code(codes, value) == IF value \in DOMAIN codes THEN codes[value] ELSE 0

SumOf(bytes) == MapThenSumSet(LAMBDA i : bytes[i], DOMAIN bytes)

\* PB0 of an infoframe; pb: the bytes that follow it.
checksum(header, pb) == (255 - (SumOf(header \o pb) % 256) + 1) % 256

Infoframe(header, pb) ==
    [header |-> header, pb |-> <<checksum(header, pb)>> \o pb]

-----------------------------------------------------------------------------
(* The AVI infoframe of the generics g; each summand is a field in place.    *)
Y_CODE(g)      == IF g.COLORSPACE = "RGB" THEN 0 ELSE 2
FORMATINFO(g)  == IF g.FORMATASPECT = "NONE" THEN 0 ELSE 1
SCANINFO(g)    == Code([OVER |-> 1, UNDER |-> 2], g.SCANMODE)
COLORIMETRY(g) == Code([BT601 |-> 1, BT709 |-> 2, XVYCC601 |-> 3, XVYCC709 |-> 3],
                       g.COLORSPACE)
PICTUREAR(g)   == CASE g.PICTUREASPECT = "4:3"  -> 1
                    [] g.PICTUREASPECT = "16:9" -> 2
                    [] OTHER                    -> 0
FORMATAR(g)    == CASE g.FORMATASPECT = "AUTO" -> 8
                    [] g.FORMATASPECT = "4:3"  -> 9
                    [] g.FORMATASPECT = "16:9" -> 10
                    [] g.FORMATASPECT = "14:9" -> 11
                    [] OTHER                   -> 0
ITCONTENT(g)   == IF g.CONTENTTYPE = "GRAPHICS" THEN 1 ELSE 0
CONTENTCODE(g) == Code([PHOTO |-> 1, CINEMA |-> 2, GAME |-> 3], g.CONTENTTYPE)
SCALING(g)     == Code([FIT |-> 3, HEIGHT |-> 2, WIDTH |-> 1], g.PICTURESCALING)
EXCOLORIMETRY(g) == IF g.COLORSPACE = "XVYCC709" THEN 1 ELSE 0
RGBQUANTRANGE(g) == IF g.COLORSPACE = "RGB" THEN 2 ELSE 0
YCCQUANTRANGE(g) ==
    IF g.COLORSPACE # "RGB" /\ g.YCC_DATARANGE = "FULL" THEN 1 ELSE 0

AviInfoframe(g) ==
    Infoframe(<<130, 2, 13>>,
        << Y_CODE(g) * 32 + FORMATINFO(g) * 16 + SCANINFO(g),
           COLORIMETRY(g) * 64 + PICTUREAR(g) * 16 + FORMATAR(g),
           ITCONTENT(g) * 128 + EXCOLORIMETRY(g) * 16
               + RGBQUANTRANGE(g) * 4 + SCALING(g),
           g.VIDEO_CODE % 128,
           YCCQUANTRANGE(g) * 64 + CONTENTCODE(g) * 16 + (g.REPETITION % 16),
           0 >>)

\* PCM, two channels, the rest as the stream says.
AudioInfoframe == Infoframe(<<132, 1, 10>>, <<17, 0, 0, 0, 0, 0>>)

-----------------------------------------------------------------------------
(* Audio Clock Regeneration.  CLOCK_FREQUENCY is given in kHz here, and      *)
(* AUDIO_FREQUENCY in units of 100 Hz.                                       *)
calc_acr_n(af) ==
    CASE af = 320 -> 4096 [] af = 480 -> 6144 [] af = 960  -> 12288
      [] af = 1920 -> 24576
      [] af = 441 -> 6272 [] af = 882 -> 12544 [] af = 1764 -> 25088
      [] OTHER -> 0

\* integer(DF*1000.0*10.0/9.0) rounds to the nearest.
calc_acr_ctsFault(df, af) ==                    \* forgets 176.4 kHz
    IF calc_acr_n(af) \in {6272, 12544} THEN (df * 20 + 9) \div 18 ELSE df
calc_acr_cts(df, af) ==
    IF calc_acr_n(af) \in {6272, 12544, 25088} THEN (df * 20 + 9) \div 18 ELSE df

\* 20 bits in three bytes, the highest first.
Bytes20(n) == << (n \div 65536) % 16, (n \div 256) % 256, n % 256 >>

AcrPacket(df, af) ==
    [header |-> <<1, 0, 0>>,
     pb |-> <<0>> \o Bytes20(calc_acr_cts(df, af)) \o Bytes20(calc_acr_n(af))]

=============================================================================
