# TLA+ models of hdmi_tx

This directory models the HDMI transmitter `src/hdl/hdmi_tx.vhd`, the video
sync and colour bar generator `src/hdl/video_syncgen.vhd`, and the program,
drivers and frame reader of the example that plays music through them,
`src/hdl/example/wavplayer`. It checks the models with TLC and proves some of
their properties with TLAPS for every value of the constants. `TX` below is
`hdmi_tx.vhd`, `VS` is `video_syncgen.vhd`.

    tlc -workers 2 -config IslandTiming.cfg IslandTiming.tla
    tlapm LinkProofs.tla

`PROJECT.json` lists the components, the runs, the source lines behind each
definition, the hazards with the properties aimed at them, and for each property
a faulty variant of a definition (`...Fault`, next to the definition it
replaces) under which the property is violated.

## 1. The system

hdmi_tx is synchronous hardware: one register transfer per edge of `clk`, one
asynchronous reset, and a serializer on `clk_x5`. A step of a model is therefore
one clock edge of everything it contains. What is concurrent is the
surroundings: the PCM bus comes from another clock domain, `scan_ena` and
`cc_swap` change at any time, reset comes at any time, and the submodules run
side by side and are connected by valid/ready pairs whose stalls nobody tests
exhaustively.

    pcm bus --> audio packets --.
                 (sample FIFO)   +--> arbiter --> island assembler --> ECC --.
    vsync ----> infoframes -----'                     ^                       +--> TMDS --> serializer
                                                      | packets allowed       |   encoders
    pixels, active --> delay line / active_reg -------+-----------------------'
         ^                     or
    video_syncgen  --> control port (USE_EXTCONTROL)

| Component (code) | State | Operations | What makes it correct |
|---|---|---|---|
| Island sequencer (TX, `hdmi_tx_dataisland_submodule`) | `counter_reg` | accept a packet, wait for permission, run through the island | order and width of preamble, guard bands, data, gap |
| Island timing (TX `gen_intgen`) | `active_reg`, the pixel delay line | shift; look at the two ends of the register | no island over video, pixels not displaced, packets do leave |
| Island timing from the control port (TX `gen_extgen`, VS) | `packet_reg`, `preamble_reg`, `guard_reg` of VS | set and cleared at positions of `hcount` | the same, from generics |
| LITEHDMI null packet (TX `gen_nodata`) | `counter_reg`, `vsync_old_reg` | one island per fall of vsync, unasked | the same, by the place of vsync alone |
| Sync generator (VS) | `hcount`, `vcount`, ten set/clear registers, `scanena_reg` | count; latch `scan_ena` at vsync | registers follow the counters from any start position; a reader gets whole frames |
| Colour bar (VS) | `areastate`, `cblamp_reg`, `cb_rgb_reg` | 24 states, each left at one value of `hcount` | never stuck; each pixel has the colour of its place |
| Sample FIFO (TX `hdmi_tx_scfifo`) | RAM, registered output, addresses, level | write, acknowledge, clear | is a queue, late by one edge |
| Audio packets (TX `hdmi_tx_audiopacket_submodule`) | synchroniser, byte and frame counters, parity, send counter, acknowledge, markers | capture a sample in 7 words, send 28 words and a header | no word lost, repeated, torn; markers right |
| Infoframes and arbiter (TX `hdmi_tx_infopacket_submodule`) | table counter, output registers, `infosel_reg`, `request_reg` | send a set on request; hand over between packets | whole sets; audio only after the first; no starvation |
| Assembler buffer and ECC (TX) | `datacount`, `sb_reg`, `hb_reg`, BCH registers | receive 31 bytes, shift out with ECC | whole packets, code words |
| TMDS encoder (TX) | two-stage pipeline, `cnt` | encode, select | decodable, balanced, aligned over every change of period |
| Serializer (TX `hdmi_tx_pdiff_submodule`) | `data_in_reg`, `start_reg`, `ser_reg` | load every fifth edge, shift | every word whole, lanes together, at any phase |

The wavplayer example puts a Nios II processor in front of the PCM bus. Its main
loop picks a WAV file from a memory card, starts it and waits for its end; an
interrupt handler refills the FIFO of `pcm_component` from the card. The card is
reached through Petit FatFs, a disk layer and the SPI port `peridot_sdif`.

    main loop --------.                        .--> pcm_component --> pcm bus
        | play state   +--> Petit FatFs         |    (dual clock FIFO)
    handler ----------'      | disk layer      |
        |                    | peridot_sdif -- card
        '---------------------------------------'

| Component (code) | State | Operations | What makes it correct |
|---|---|---|---|
| PCM peripheral (`pcm_component.v`) | status, volume, FIFO with two clocks | register writes, audio clock, late read pointer | its level and interrupt may lag but never promise room that is not there |
| Player (`playwav.c`, `main.c`, `getfilename.c`, `loadbmp.c`) | `g_wavleft`, place of main loop and handler | open, check, stop, fill, arm; read a chunk and push it | no word lost, no song mixed or cut, always another song |
| Petit FatFs (`pff.c`) | one file object, a DIR object | open, read, search | closed after an error, used by one caller at a time |
| SPI port (`peridot_sdif.vhd`, `.c`) | READY, select, power, divider | read, change, write back; exchange bytes | bits changed although writes are ignored while busy |
| Disk layers (`peridot_sdif_ff_diskio.c`, `..._pff_diskio.c`) | `Stat`, `CardType`, place in a call | initialise, read, write, ioctl | always return, card released, success means moved |

Hard behaviours, each listed at its line under `hazards`: levels and permissions
that are looked at once and used many clocks later (FIFO level, window test,
packet area); hand-overs decided one clock before they happen; counters shared
by groups that wrap at different widths; registers that are not reset or that
rest with their last value; sampling from other clock domains; starvation and
states that wait for a value that never comes. In the program: an interrupt
handler and a main loop without a lock, a library that is not reentrant, levels
known earlier than they are used, reads that fail half way, a card that is
exchanged while it is being talked to, register writes that are silently ignored.

The picture comes from `peridot_vga`, which sits between the processor, the
memory and video_syncgen, in three clocks without any relation:

    software -- registers (csr) --- framestart, buffer address --.
                    ^                                            v
    video_syncgen --+-- vsync --> pixel FIFO <-- words -- frame reader -- memory
         ^                           |
         '------- pixels requested --'

| Component (code) | State | Operations | What makes it correct |
|---|---|---|---|
| Registers (`peridot_vga_csr.vhd`) | vsync synchroniser, latched buffer address, scan bit | register writes, start of a frame | one buffer per frame, whatever is written when |
| Frame reader (`peridot_vga_avm.vhd`) | `avm_state`, counters, addresses | lines and bursts, as fast as the FIFO has room | no word without room; starts each frame once, recovers when it missed one |
| Pixel FIFO (`peridot_vga_pixel.vhd`) | FIFO, reset pulse, vsync synchroniser | write, show, empty at each vsync | emptied before the first word of a frame, never after |

## 2. Modules

Every module names the code it stands for; a step is `Clock`/`Tick` (all
processes of the modelled submodules at one edge) or `Reset`.

**Link level.** `LinkSymbols` has the widths, the selection between video and
island side, and the order of groups a sink accepts. `IslandSequencer` is
`counter_reg`. `IslandTiming` adds `active_reg` and the delay line and a video
generator that only promises minimum lengths of lines (`MinActive`) and of
blanking (`MinBlank`). `SyncGen` is video_syncgen without its colour bar;
`VideoTiming` adds the frame reader's outputs; `VideoSyncgen` is the whole
entity, `VideoTiming` with the colour bar; `ExtIslandTiming` composes
`SyncGen` with `IslandSequencer` through the control port, in HDMI and LITEHDMI
encode mode.

**Picture.** `ColorBar` is the bar state machine on the counters of `SyncGen`. A
state is a zone and a segment; a colour is a name or the level of a ramp.

**Packets.** `SampleQueue` is what users of the FIFO rely on, `ScFifo` the ring
that implements it. `AudioPacket` (capture and send sides over a `SampleQueue`),
`InfoPacket` and `DataIsland` are the three submodules; `PcmSource` is the
circuit the repository's README asks for at the PCM port. `AudioStream` puts the
audio generator between the source and a consumer that stalls only before the
first byte of a packet; `PacketPath` composes all of them and discharges that
assumption (`AudioNeverStalls`). `PacketBus` is the abstract specification: what
a sink is promised of the packets.

**Bits.** `EccBlock`: shift-out and BCH registers of the header and one
sub-packet. `InfoTable`: the contents of the infoframes and of the clock
regeneration packet as functions of the generics; `InfoIsland` sends them through
`EccBlock` to a sink that reads the bits. `TmdsCode` and `TmdsEncoder`: one channel. `Serializer`: four lanes
on `clk_x5`.

**Player.** `PcmFifo` is the peripheral: `fifo` holds the words, `unseen` the
words already played whose room the bus side does not know of yet, so that
`used` is what `wrusedw` tells. `PetitFat` is the file object that all callers
share, in words of four bytes, read sector by sector; a disk read fails at any
point, `MaxFaults` times. `WavPlayer` composes both with the program. `pc` is
where the main loop is, `isr` where the handler is; a step is one register
write, one sector, one test. The processor takes an enabled interrupt before the
next instruction, so the main loop only steps while `~ins_irq`, and nothing
interrupts the handler. `Playback` is the abstract specification: what a
listener hears.

**Frame reader.** `FrameReader` and `PixelFifo` are two parts of
peridot_vga, `PeridotVga` holds the third, the control registers, and puts them
together. A step is an edge of one of the
clocks: the control port's (`CsrClock`, with a register write), the bus clock
(`BusClock`, in which the memory may stall), the pixel clock (`Video`), and the
moment the read pointer reaches the bus side (`Catch`). A word is named by its
address. `unseen` counts the words already shown whose room the bus side does not
know of. Of video_syncgen, which `SyncGen` models clock by clock, only the order
is kept (`phase`): vsync rises, the scan enable is latched, vsync ends, a frame
is requested word by word or not at all. `VsyncSeen` says that vsync, its distance
to the picture and the FIFO reset are lines long and the synchronisers three
clocks. The initial states are those after a reset, in which the FIFO, which has
none, may hold words of no frame.

**Card.** `Sdif` is the port and the driver's accesses to it. Each of them writes
back what it has read, with READY as START: on a ready port it starts a dummy
byte, on a busy one it is ignored unless the port got ready in between.
`SdCard` is external: four kinds of card which start in native mode, understand
only CMD0 until they have seen it, may refuse a command or a block, may get
stuck while programming, and may be pulled out and exchanged (`MaxSwaps`).
`DiskIo` is the disk layer, one call at a time: `at` is the place in the call,
`sub` the place in `send_cmd`, `select` or `deselect`. `layer` says whether the
layer of FatFs or that of Petit FatFs is linked: the latter has no
`disk_status`, does not wait for the card, and only reads single sectors.

**Proofs.** `SyncGenProofs` (`SyncGen`, and on it `VideoTiming`, `ColorBar` and
`ExtIslandTiming`), `LinkProofs` (island timing and serializer),
`PacketPathProofs` (the ring, the audio generator that uses it and the whole
packet path), `InfoIslandProofs` (ECC, and the contents of the table),
`EncoderProofs` (TMDS), `WavPlayerProofs`, `DiskIoProofs` and `PeridotVgaProofs`
hold the theorems of section 4 about the modules they extend. Where one of them
is about several specifications, the names of one carry a prefix (`Ext...`,
`Stream...`).

**MC modules** (`MCVideoSyncgen`, `MCExtIslandTiming`, `MCInfoIsland`,
`MCTmdsEncoder`, `MCWavPlayer`) only define sets that a .cfg cannot write. The
other specifications are instantiated by their .cfg alone.

Data is abstract where properties do not look at it. Bytes of packets are tagged
(`<<byte, frame, samples>>`, `<<"Info", n>>`), so that a torn sample, a shifted
word or a wrong marker is visible; the contents of the table are a matter of
`InfoTable`, and the channel status, a constant of the design, is left out. Bit vectors in `TmdsCode` and
`EccBlock` are sets of positions. A pixel in the delay line is only known to be
one. Variables called observers record what has been seen (`dwell`, `pixels`,
`lines`, `sent`, `sum`, `packet`, `sentSb`, `sentHb`, `heard`, `cut`, `moved`,
`rightPlace`, `swapped`, `clean`); no action reads them to decide what the code does.
`TypeOK` gives the domains of the variables; where no run lists it, it is there
for the reader and for the proofs. Generics of one instance that a run varies (`encodeMode`, `BAR_MODE`,
`COLORSPACE`, `channel`) are variables that no action changes; the start
positions are a constant set. A register that the code does not reset is reset
in the model to a poison value (`Blank`, `{}`) which no legal packet contains,
so that any use of it would be noticed.

## 3. Runs

| Run | Question | Bounds, and why they are enough |
|---|---|---|
| `island_timing` | Do islands derived from `active_reg` keep off the video, in order and width, and do they leave? | `MinActive` 63 is the least that is right (62 fails): shorter lines fit between the two taps. `MinBlank` 14 leaves 4 control characters, preamble and guard band; blanking may be any longer, so also < 64 and exactly 64. Runs longer than the register look alike, hence `RunCap`. The register is modelled at full length. |
| `video_syncgen` | Does the generator lock from any start position, does a frame reader get whole frames line by line, and does the colour bar paint what the position asks for? | 93 x 15 raster with 61 clocks before and 4 behind the picture, the tightest blanking that has room for an island. 28 pixels give each bar at least 3, 12 lines one per twelfth. Starts at every place where a register of a line moves, in the first, an active and the last line; `ActiveLineAligned` is proved for all positions. Both bar modes, RGB and YCbCr. `EARLY_REQ` 2 separates request from active. |
| `ext_island_timing` | Does the packet area of video_syncgen keep the islands of hdmi_tx, and the null island that asks nobody, off the video? | The same tight line, and `V_BACKP = 0`, so that the picture starts right behind vsync, where the null island runs. |
| `sc_fifo` | Is the ring with a registered read port a queue? | Depth 4: the addresses wrap, meet empty and full, in all relative positions; 2 words. |
| `audio_stream` | Are the queued words whole samples in order at any rate and any stall? | `FsPeriod` 8, far below the real 130 and just above the 7 words of a sample. FIFO of 64 words instead of 256 (only the limit `Depth - 8` and the level 28 matter). 5 frames instead of 192: 4 and 5 have no common divisor, so the block begins at each place of a packet. |
| `packet_path` | Is the composition a packet bus? Does neither generator starve the other? | As above with FIFO 40: 28 words and room for one more sample, so the FIFO runs full while a packet waits. vsync, windows and pcm_fs at any time. |
| `info_island` | Is what an island carries a code word, and what a sink needs of the infoframes right? | All 80 single-bit packets, none, all ones: the code is linear. Each generic of the table through all its values; all seven sampling rates with four pixel clocks, one of them (25.175 MHz) with a rounded CTS. |
| `tmds_encoder` | Are the paths aligned and is the line balanced and decodable? | All control, guard and packet codes; pixel bytes of each relevant count of ones. `EveryPixelIsSafe` looks at all 256 bytes in each reachable state, and all of -4..4 are reached. |
| `serializer` | Does each word cross whole at any phase of clk? | All five phases; 4 word numbers tell a lost or repeated word. |
| `wav_player` | Do main loop and handler share state, FIFO and Petit FatFs safely, and does the music go on whatever reads fail? | Chunk of 5 in place of 256, sector of 3 words, FIFO of 12 with 5 kept free, so that a chunk spans sectors and the level passes the limit at each offset; songs that end with the first sector, on a chunk boundary, before their declared end, or with other data behind; entries that are no songs. 2 failing reads: one that stops a song and one in what follows. |
| `sd_disk` | Do both disk layers survive a card that fails or is exchanged at any time? | Calls of up to 3 sectors: a first, a middle and a last one. 2 polls in place of 10000: one that fails and goes on, one that gives up. 2 swaps: a card is exchanged for any other kind. |
| `peridot_vga` | Does a burst always find room, is the picture in its place, and does it get there again? | 2 lines of 3 words with a gap of one between them, so that a line is a full and a short burst and the lines are not consecutive; FIFO of 3, one more than a burst and half a frame. FIFO reset of 4 in place of 6: long enough that a reader that did not wait would arrive in it. 2 buffers. Both bus clocks, the memory and the display run at any rate. |

The properties, each stated in a comment at its definition:

- `NoOverlap`, `LinkProtocol`, `PixelAligned`, `PacketIsSent`, `IslandsKeepComing`: the link.
- `ActiveLineAligned`, `Locks`, `LinesAnnounced`, `WholeFrames`, `PictureAppears`: the picture.
- `ImplementsQueue`, `FifoContract`, `WholeSubframes`, `SampleIsAnnounced`,
  `AudioNeverStalls`, `WholePacket`, `ImplementsPacketBus`,
  `RequestIsAnswered`, `AudioIsSent`: the packets.
- `IslandIsCodeword`, `SinkAcceptsInfo`, `SinkDecodes`, `LineDisparityTracked`, `EveryPixelIsSafe`,
  `WordsInOrder`: the bits.
- `RoomForChunk`, `FatFsExclusive`, `WaitEndsWithTheSong`, `ImplementsPlayback`,
  `MusicGoesOn`: the player.
- `RoomForBurst`, `PictureInPlace`, `PictureRecovers`: the frame reader.
- `TransfersAreSelected`, `CardReleased`, `ClockFollowsCard` (but for a native card
  put in since `disk_initialize`, see "What disagrees with the repository"), `OkMeansMoved`,
  `CallsReturn`: the card.

How the parts rely on each other:

- `AudioPacket` uses `SampleQueue` for its FIFO. `ScFifo` implements it under
  `LegalUse`, and `FifoContract` shows the use is legal. `SampleQueue` lets the
  output be stale when the word read was written at the same edge; the model
  shows `NoWord` then, and `WholePacket` shows it never reaches a packet.
- `AudioStream` assumes a consumer that stalls only when `dataCounter` is 0 or 1;
  `AudioNeverStalls` shows it of the real one.
- `PetitFat` takes of a disk read that it fills the buffer or fails;
  `OkMeansMoved` and `CallsReturn` show it of the disk layer below.
- The samples that `WavPlayer` hears reach `pcm_fs`, `pcm_l` and `pcm_r` of
  `PcmSource` at the rate of the audio clock, whose period `FsPeriod` is assumed.
- `PacketPath` lets permission to transmit come at any time; `IslandTiming` and
  `ExtIslandTiming` let the last byte of a packet come at any time. Both sides
  share `IslandSequencer`.

### Fairness

`WF(Clock)` says that the clock runs on; `<>[][Clock]` says that resets cease,
which liveness needs of any hardware. No fairness is assumed of an external
input, with two exceptions. `IslandTiming` assumes that a
blanking of 64 clocks comes again and again (`[]<>WideBlank`), which
`src/README.md:138` demands of a mode with audio. `PacketPath` assumes that the
permission to transmit comes again and again while a packet waits
(`WF(WindowOpens)`), which is what `PacketIsSent` and
`IslandsKeepComing` show of the two island timings.
In `RequestIsAnswered` and `AudioIsSent` the alternative `restarted` is there
for the finitely many resets that may cut an answer short.

`WavPlayer` assumes that the processor runs on (`WF(Main)`, `WF(Isr)`) and that
both clocks do (`WF(Play)`, `WF(Catch)`). `DiskIo` assumes the same of the
processor and the port, and of a card that is programming that it comes to an end
or is over time (`WF(Card)`). Nobody has to call, or to touch the card.

`PeridotVga` assumes that its clocks run on, and `InTime` of their speeds, from
some time on: the start has reached the bus clock while vsync, several lines, still
lasts (`StartSeen`); and when the FIFO runs dry and when the next vsync rises, the
bus side has nothing left that it could do (`BusAtRest`), that is, the memory is
faster than the display. `BusAtRest` is stated with ENABLED and says nothing of
what the reader has done: one that is stuck is at rest too, and the picture stays
away. Without `InTime` a memory that is always late leaves the last word of each
frame to the next one, and the picture is never in place; `PictureInPlace` and
`RoomForBurst` need no such assumption.

### What disagrees with the repository

No run shows these; they were seen while modelling:

- With `BAR_MODE = SD`, `EARLY_REQ = 0` and no front porch
  (`H_SYNC + H_BACKP + H_ACTIVE = H_TOTAL`) the last band ends at `H_TOTAL`, a
  value `hcount` never has: the state machine of the bar stays in RIGHTBAND1
  (VS:536) and the screen is plain grey. The assertions of VS accept the mode;
  `PictureAppears` is checked in modes with a front porch.
- The comments at TX:297 and TX:1424 give 35 samples for a 256-word FIFO. A
  capture starts while `usedw < 256 - 8`; with 35 samples queued `usedw` is 245,
  so the FIFO takes a 36th.
- The comment at TX:1078 says that `byteencode` makes bit changes four or more;
  it makes them four or fewer, as `EveryPixelIsSafe` uses.
- `peridot_sdif_card_changed` (`peridot_sdif.c:102`, "has the state of the slot
  changed") tests and clears the select bit instead of the change bit CDALT.
  Since the card is never selected between calls (`CardReleased`), it always
  answers no: `disk_status` never notices that a card was exchanged. In `DiskIo`
  the first branch of `CardChanged` is never taken. `OkMeansMoved` holds all the
  same, because a new card understands nothing until it is initialised. It is
  clocked too fast, though: a card put in after a successful `disk_initialize`, or
  towards the end of one, is sent commands at the data clock until the next one,
  while it is still in native mode and wants the slow clock. The model reaches
  that state, for instance with CMD17 of the next `disk_read`, and
  `ClockFollowsCard` excepts it (`swapped`): it speaks of each card that is there
  while `disk_initialize` runs, of each idle card, and of the native card that
  has been there since `disk_initialize` cut the power. Petit FatFs, which does not ask
  at all, is in the same position.
- The write of `peridot_sdif_card_changed` starts a byte, and `CTRL_SYNC` selects
  the card right behind it (`peridot_sdif_ff_diskio.c:431`). If the processor gets
  there before the byte is over, the select is lost and the card is reported idle
  while it still programs. Every other selection has a dummy byte waited for in
  front of it; hence the exception in `TransfersAreSelected`.
- Nothing in VS keeps `FRAME_TOP` (VS:110, "Re-sync option") out of the picture.
  There `framestart` would come in the middle of a frame, and a reader that
  counts lines from it would miss some; `LinesAnnounced` and `WholeFrames` are
  proved under `FrameTopOutside`.
- Nothing in `peridot_vga.vhd` relates the depth of the pixel FIFO to the size of
  the picture. If a whole frame fits, the reader is at rest before the picture
  begins, and software that clears and sets the scan bit during sync starts it a
  second time: the frame is then followed by itself and `PictureInPlace` fails.
  `peridot_vga_hw.tcl` derives a depth of a few lines.
- The comment in `pcm_component.v:45` says that the interrupt means 256 words or
  more of room; the code asks for more than 256. The handler needs 256.

## 4. Proofs

TLAPS proves, for all values of the constants that meet the named assumptions:

| Theorem | Assumptions | Invariant |
|---|---|---|
| `LinkProofs!TypeCorrect`, `IslandsNeverOverlapVideo`, `PixelsStayAligned` | `RunAssumption`: lines of 63 clocks or more, some blanking | `TimingInv` |
| `LinkProofs!GroupsAreInOrder` (`LinkProtocol`) | the same, and `MinBlank >= 14`, room for the video preamble, guard band and four control characters | `TimingInv`, `LinkInv` |
| `LinkProofs!WordsStayInOrder` (of `Serializer`) | `WordsAssumption`: three words or more are told apart | `SerialInv` |
| `SyncGenProofs!ActiveLinesAreAligned` (of `VideoTiming`) | `GenericsAssumption` (the failure assertions of VS), `RoomForIsland` (its warning) | `LineInv` |
| `SyncGenProofs!StaysLocked`, `LockRemains`; `EntityTiming` (`VideoSyncgen` implements `VideoTiming`) | the same | `LineInv` |
| `SyncGenProofs!EachLineIsAnnounced`, `FramesAreWhole`, `FramesNotExceeded` | the same, and `FrameTopOutside` | `FrameInv` |
| `SyncGenProofs!BarsStayInStep`, `PictureIsRight`, `PictureRemains` (of `VideoSyncgen`) | as for `ActiveLinesAreAligned`, and `BarsFit`: 28 x 12 pixels or more, `EARLY_REQ` ends two clocks short of the line's blanking | `LineInv`; `BarsInStep` is kept, not reached |
| `SyncGenProofs!ExtIslandsNeverOverlapVideo`, `ExtGroupsAreInOrder`, `ExtTypes` (of `ExtIslandTiming`) | as for `ActiveLinesAreAligned` | `ExtInv`, `WidthSeen` |
| `PacketPathProofs!AddressesAgree`, `RingImplementsQueue` | `FifoAssumption`: the depth is positive | `RingInv` |
| `PacketPathProofs!FifoIsUsedInContract`, `SubframesStayWhole`, `CapturedAsAnnounced` (of `AudioStream`) | `AudioAssumption`: a depth, a block of at least one frame; `SourceAssumption`: eight clocks or more per sample; `NoWordAssumption`: the value of an unwritten word is not a word | `AudioInv` |
| `PacketPathProofs!AudioIsNotStalled`, `PacketsAreWhole`, `PathUsesFifoInContract` (of `PacketPath`) | the same | `PathInv` |
| `PacketPathProofs!PathImplementsPacketBus` (refinement of `PacketBus`) | the same | `PathInv`, `ReadAsOne` |
| `InfoIslandProofs!BlockTyped`, `IslandsAreCodewords` | `PacketsAssumption`: a packet is 56 and 24 bits | `BlocksInv` |
| `InfoIslandProofs!InfoAccepted` | the same, and `GenericsAssumption`: a clock of 10 to 900 MHz and the sampling frequencies TX:86 lists; the codes for mode and repetition are naturals (TX:81, TX:82) | `IslandIsCodeword`, `TypeOK` |
| `EncoderProofs!EncoderTyped`, `DisparityTracked`, `PixelsSafe`, `DecodedBySink` | `InputsAssumption`: the widths of the ports and the values of `mode` | `PipelineInv` |
| `WavPlayerProofs!PlayerTypes`, `NoWordIsLost`, `FatFsIsNotShared`, `EmptyMeansOver` | `PcmFifoAssumption`, `FatAssumption`, `PlayerAssumption`: a chunk fits into the room that the interrupt promises, header and first read make a sector | `IInv` |
| `WavPlayerProofs!PlaysWhatIsPromised` (refinement of `Playback`) | the same | `IInv`, `HeardInv` |
| `DiskIoProofs!DriverInvariant`, `TransfersReachTheCard`, `CardIsReleased`, `ClockSuitsTheCard`, `SuccessMeansMoved` | `DiskAssumption`: numbers of sectors, polls and swaps | `IInv` |
| `PeridotVgaProofs!TypesHold`, `BurstsFindRoom` | `ReaderAssumption`, `PixelFifoAssumption`, `VgaAssumption`: sizes are positive, the FIFO is larger than a burst | `IInv` |
| `PeridotVgaProofs!PictureIsInPlace` | the same, and `FIFODEPTH < FRAME` | `PictureInv` |

`NoOverlap` is not inductive: `allowPacket` looks at the two ends of
`active_reg` only and the sequencer looks at nothing once it has started.
`TimingInv` adds three facts: the length of the current run is visible in the
register (`RunSeen`); no line of video lies strictly inside the register
(`NoInnerRun`, here the 63 clocks are used); and while an island of age *n* is in
flight, the oldest `63 - n` samples are still blank (`WindowHeld`). Two blank
ends then mean 64 blank samples, which is the length of an island with the
preamble and guard band that precede the next line. `SameAge` gives
`PixelAligned`.

`LinkProtocol` speaks of the width of the group that ends, which the observer
`dwell` counts. `WidthSeen` ties it to what the hardware has: inside an island to
the counter, in front of a line to the tap of `active_reg` that the line's first
sample has reached. `NoInnerGap`, two lines are more than 14 samples apart, keeps a
preamble of one line away from the end of the other.

`SerialInv`: nothing aligns `start_reg` with clk, but both run through five places,
so there is one edge of clk between two loads, and whether it has been is told by
`phase >= start`: then `data_in_reg` is one word ahead of the word being shifted out,
else it still is that word (`InStep`). What has left is what stands in front of the
bits in `ser_reg` (`OutHolds`).

`LineInv` adds to `ActiveLineAligned` what the vertically blanked lines keep (the
registers rest, and `hblank` is low only where it should be); otherwise nothing
is known when the first active line begins. It is proved once in `SyncGenProofs`
for one edge and one reset of `SyncGen`, and used by both specifications that
contain it.

`StaysLocked` needs no more: a line that is in step ends with its registers at
rest (`LineEndRests`), and its end is the only place where the next one looks at
them. From this, `LockRemains`: if the registers agree with the counters again and
again, and the resets have ceased, `Locks` holds.

The colour bar starts out of step, from most start positions and always in its
colour, so no invariant says that it is right. `BarsInStep` gives its zone, segment,
lamp and colour as functions of `hcount` and `vcount`; the zone changes with
RIGHTBAND, before the line does. `BarsStayInStep` is one edge of the clock: no band
and no zone is empty (`BandsOrdered`, `ZonesInOrder`), so no end is missed, and the
lamp that a ramp shows has not wrapped (`LampInRange`). `PictureIsRight` turns
bands into pixels (`BarOfPosition`, `ZoneOfPosition`) and bounds what the truncated
step of a ramp loses (`RampIsNear`). `PictureRemains` joins them: one moment in step
after the last reset, and the picture is right for ever. Without `BarsFit` a bar
may have no pixel, and the state machine waits for a value of `hcount` that has
passed; with `EARLY_REQ = H_START - 1` the full-width bars would start their lamp at
position -1. No assertion of VS excludes either, but VS:54 gives `EARLY_REQ` as 0 to
16, and `RoomForIsland` makes the blanking longer than that.

`FrameInv` says what the observers `pixels` and `lines` hold at each place of the
raster. A start position may begin in the middle of a picture with `vblank` set,
so the counts cannot be right in every frame; they are in a frame that is read,
since `scan_ena` is latched in the first pixel of the screen only
(`VerticalSeen`), and `vblank` has been in step with the lines from there on.
Before that the counts may be wrong, but not too large (`FramesNotExceeded`).

`ExtInv` adds that an island in flight began before `PacketUntil` or in an
earlier line (`BegunInTime`), and, for LITEHDMI, that the null island's counter
is a function of `hcount`, since vsync only falls where a line begins
(`NullIslandInTime`). That the generics leave room for an island is only a
warning in VS and the key assumption here.

In `ExtIslandTiming` the same `WidthSeen` is told from `hcount`.

The ring (`ScFifo`) implements `SampleQueue` with the mapping `contents`, the words
between the two addresses. `RingInv` is what makes that a sequence: the level, kept
in a counter of its own, is the distance of the addresses modulo the depth. An edge
of the ring is then an edge of the queue, also the one that writes the word which
is read, where the queue leaves the output open and the RAM shows its old word.

`AudioInv` follows a sample through the audio generator. The three registers behind
`pcm_fs` show the age of its last rise (`FsSeen`), and a byte counter that is not 0
runs in step with that age (`InStep`), so the next rise finds it back at 0; here the
eight clocks of `SourceAssumption` are used. What is cut into bytes is one sample
(`OneSample`), the words in the FIFO follow each other up to the one written last
(`Cut`). One look at the level reserves the places of the words to come (`Room`),
another makes sure of the words of the packet that is sent (`Supply`); the first
gives "never written when full", the second "never read when empty". All but the
part about the source's registers is `AudioCore`, which holds for any consumer that
stalls only in front of a packet, and is used again in the packet path.

`PathInv` puts the three submodules in step, byte by byte. `AudioNeverStalls` alone
says nothing of how an audio packet gets the link. `LinkInv`: past its first byte the
arbiter is on the audio side and the assembler's sequencer at `STOP_COUNT`; a first byte
is taken in that state only, and the arbiter changes hands at last bytes only.
`InfoInv`: while a set is sent the link belongs to it, the registers show the byte
before `infoCounter`, and the sequencer is busy in front of a packet only. `CountInv`:
`datacount` is the number of bytes the sender that holds the link has got rid of. That is what
fixes the place of each byte in the buffer: `InfoBytes` and `AudioBytes` say that the
bytes below it are those of one table entry, or of four frames from some frame on
(`Numbered`), that the FIFO goes on where they stop (`NextDue`; `QueueInv` says which
word is due and that `q` shows it), and which markers are set so far. At the last
byte this becomes `LoadedInv`, and `LoadedInv` gives `WholePacket`. `FreshInv` and
`QuietInv` are about the time before the first set has gone out: the FIFO is empty,
and the three registers behind `pcm_fs` have seen the source, because a set takes
longer than three clocks. So `FsSeen`, which a reset breaks here, is back in time.

For `PacketBus` each buffer must be read as one packet only: `ReadAsOne`, the sets
of packets a buffer can be taken for have one member at most (an infoframe's first
byte tells which, an audio packet's first word names its frame). The step that
counts the last byte of a packet is then `LoadInfo` or `LoadAudio`, the one in which the
sequencer runs out `Send`, and all others stutter; `frameDue` stays because what
leaves the FIFO for the buffer is what it was read from (`FrameStaysDue`).

`IslandIsCodeword` compares two computations that meet nowhere: the registers step
through the data from its first bit on, one or two bits a clock, and `Remainder`
divides the whole block from its highest power down. `BlocksInv` says how far the
block is: while data passes, the register is the end of a `Trace` of `bch` over the
bits sent (`DataPart`), then the register is shifted out bit by bit (`CodePart`).
Two bits at once are two steps of the trace. For the division, `Rest` is what it has
left over at a power: the data bits still to come, and the trace's register moved to
that place; one step of the one is one step of the other (`RestStep`). That the
recursive function of `Remainder` is this `Rest` is no induction over data by a
theorem with an operator parameter: any two functions that take the same steps are
equal, since among the powers where they differ there would be a least one
(`LeastNumber`, from the well-foundedness of `<` on a set). The same argument gives
`MapThenSumSet` its value over at most ten terms (`SumIsTotal`), with which a byte is
the sum of its bits (`ByteOfDigits`) and so arrives as it was sent (`ByteArrives`), and
a checksum the sum of its bytes. The clock regeneration values are compared per
sampling frequency, since N is a table (`AcrValues`); only 44.1 kHz and its multiples
round.

`SinkDecodes` is about the second stage of the encoder. `PipelineInv` says of both
stages which input is in them (`Staged`), and that `cnt` is the disparity of the
line's words. That each word decodes is proved bit by bit for pixels: the words are
defined by a chain of which the prover only knows one step (`ChainBits`), so
`VideoWordDecodes` and `FewTransitions` argue over the transitions, which are the
pixel's bits or their complement. `WordMovesCnt` has the four cases of the encoder:
in each the counter takes the side that keeps it between -4 and 4, because the number
of ones is the sum of the bits. The 16, 4 and 3 fixed words are numbers below 1024 whose
binary digits determine their positions (`BitsAreUnique`).

`IInv` of the player has four parts beside the types. `MaskInv`: the interrupt is
enabled, or its handler runs, only while the main loop waits for the end of a song;
and something is left to play only while the interrupt is enabled or the handler
runs, so a masked interrupt never strands a song. `HandlerInv`: while the handler
reads or pushes, the room its words need is there. The audio side only takes words
away, so what the interrupt condition says at the entry (`InterruptMeansRoom`: less
than `DEPTH - AMOSTEMPTY` words, and not the full FIFO whose level reads as 0) still
holds a card read later. `MainInv`: what `play_wav` has achieved at each of its
places: the FIFO out of reset and empty before the first words are read, room for
them while they are written, and no file open but the song's. `SongInv`: a song is
only started after it was found in the directory and its header checked.
`DryMeansInterrupt`, that an empty FIFO raises the interrupt, is the lemma behind
"the FIFO is dry means the end". None of the three properties is inductive alone:
`RoomForChunk` needs that the handler never finds the main loop filling,
`FatFsExclusive` that masking holds until the song is opened.

That the player implements `Playback` needs to know where in a song it is.
`HeardInv` says that the FIFO holds the samples behind the last one heard
(`QueueInv`); that the position in the file, the words written and the words left
add up to the declared length while every read was in full (`StartInv` in
`play_wav`, `GoesOnInv` in the handler); that after a read that was not no word
follows (`CutInv`); and that a song nobody works on any more is complete, or was
cut (`EndInv`). A step of the audio side is then the next sample of the abstract
listener, and the first word of a song the beginning of the next one.

`IInv` of the disk layers says at which place of a call which helper runs
(`PlaceInv`) with which commands to send (`CommandInv`), how far the select bit has
followed it (`SelectInv`: a write to a busy port is ignored, so the port must be
ready whenever the bit is changed), what power and clock are (`PowerInv`), which
transfer the card is in (`TransferInv`), what it has seen since it was switched on
(`CardInv`; that no card is idle outside `disk_initialize` needs nothing of who put it
in, that none is native does), that `CardType` is its type unless it was exchanged (`TypeInv`), and how
many sectors have moved (`CountInv`). The parts need each other: that the card is
released rests on the driver ending each transfer, that on the addresses being
right for the type of card, and that on the card having been asked before.

`IInv` of the frame reader adds to the types and `RoomForBurst` that a burst is not
empty and does not go past its line (`BurstInv`), without which the counters would
leave their ranges, and how far the display is (`FrameInv`). `RoomForBurst` itself
is inductive: the test of READ_START puts it in place, a word that arrives takes
one of the places and one of the words still to come, and showing a word, learning
of it and the FIFO reset only give room (`QueueStep`).

`PictureInv` follows a frame from the rise of vertical sync on. The synchronisers of
the three clocks fill and empty in order (`SyncInv`); a start reaches the reader after
the buffer address and after the FIFO was emptied (`StartInv`); then each word in the
FIFO has its place in the frame (`WordsInv`), the counters and addresses of the reader
agree with the words it has delivered (`AimInv`), and it is started once: a start that
is still visible when the picture begins finds it busy (`OnceInv`), and before the
picture it cannot be done, because the FIFO is too small for a frame (`WaitInv`).

### Only model-checked

- Liveness (`PacketIsSent`, `IslandsKeepComing`, `Locks`, `PictureAppears`,
  `RequestIsAnswered`, `AudioIsSent`, `MusicGoesOn`, `CallsReturn`,
  `PictureRecovers`): beyond the prover.
- Of `Locks` and `PictureAppears` that is only the first moment in which the
  registers and the bar agree with the counters, from any start position; the rest
  is `LockRemains` and `PictureRemains`.

Every safety property of the runs is also a theorem.

## 5. Not modelled

- **DVI mode**: no state of its own.
- **LITEHDMI with `USE_EXTCONTROL = OFF`**: vsync comes through the delay line;
  only the combination with video_syncgen is covered.
- **`hdmi_tx_gw.vhd`**: the same submodules with a vendor serializer.
- **Contents**: channel status bits and colour values: constants computed at
  elaboration.
- **SPI bits, CRC, timer and interrupt of `peridot_sdif`**: a byte is one
  exchange. The change bit `cdalter_reg` is set and never read.
- **Petit FatFs below the file object**: following a path, a cluster chain or a
  FAT entry is one step that works or fails. `pf_lseek`, `pf_write` and the boot
  loader that copies the program from the card are left out.
- **FatFs** (`ff13c`, `ffunicode.c`), the Nios II HAL, `xprintf.c`: third-party or
  generated code that the player does not link or that keeps no state of its own.
  By lines it is most of the C in the repository (FatFs with its tables alone is
  half, and Petit FatFs and the HAL drivers are there twice), which is why
  the mapped share of the C sources stays small; the logic of this repository is
  in the VHDL and in the few files listed above.
- **Of `peridot_vga`**: the vsync interrupt, flag and counter of the registers,
  which no other part reads; a reset in the middle of a burst, which takes the
  memory controller with it; the conversion of pixels into colours
  (`peridot_vga_yvu2rgb.vhd`).
- **The HAL binding of FatFs** (`peridot_sdif_ff.c`): it keeps the number of its slot
  in `fd_flags`, where the HAL keeps the access mode (`alt_read.c:103`,
  `alt_write.c:113`). No program of the repository links it.
- **Sound and overlay demos, board tops.**

## 6. Plan

Done: the link and its timing, video_syncgen, packets, bits, the player, the
frame reader and the card, with the invariants of section 4.

Next, modelling: LITEHDMI with `USE_EXTCONTROL = OFF` as a third mode of the
island timing; the cluster chain of Petit FatFs.

Next, proofs: none of the present properties; the two models above bring their own.
