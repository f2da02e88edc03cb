---------------------------- MODULE WavPlayerProofs ---------------------------
(* The wavplayer program for every size of FIFO, sector and chunk, every     *)
(* directory and any number of disk failures.                                *)
EXTENDS WavPlayer, TLAPS, SequenceTheorems

-----------------------------------------------------------------------------
(* The inductive invariant: types and four parts.                           *)

\* The handler has room for the words it still has to write.
HandlerInv ==
    /\ isr = "read" => /\ n <= left /\ Len(buf) <= n
                       /\ used + n <= DEPTH /\ ~fiforst
    /\ isr = "push" => /\ n <= left /\ Len(buf) = n /\ pushed <= n
                       /\ used + (n - pushed) <= DEPTH /\ ~fiforst

\* The handler only runs while the main loop waits, and there is something left
\* to read only while it is about to run.
MaskInv ==
    /\ irqena \/ isr # "idle" => pc = "wait"
    /\ irqena => isr = "idle" /\ ~fiforst
    /\ pc # "wait" => left = 0
    /\ pc = "wait" /\ isr = "idle" /\ ~irqena => left = 0

\* What play_wav has achieved at each of its places.
MainInv ==
    /\ pc \in {"drain", "first", "fill", "arm"} => ~fiforst
    /\ pc = "first" => used = 0 /\ Len(buf) <= FIRST
    /\ pc = "fill"  => /\ Len(buf) = FIRST /\ pushed <= FIRST
                       /\ used + (FIRST - pushed) <= DEPTH
    /\ pc = "opening" => ~opened
    /\ pc \in {"header", "stop", "drain", "first", "fill", "arm", "wait"} /\ opened
          => file = song

\* Only a song that was found in the directory and checked is started.
SongInv ==
    /\ pc \in {"open", "opening", "header", "stop", "drain", "first", "fill", "arm"}
          => song \in 1..Len(Dir)
    /\ pc \in {"stop", "drain", "first", "fill", "arm"} => Dir[song].supported

IInv == TypeOK /\ HandlerInv /\ MaskInv /\ MainInv /\ SongInv

-----------------------------------------------------------------------------
(* Sizes.                                                                    *)
LEMMA Sizes ==
    /\ DEPTH \in Nat /\ AMOSTEMPTY \in Nat /\ 0 < AMOSTEMPTY /\ AMOSTEMPTY < DEPTH
    /\ CHUNK \in Nat /\ 0 < CHUNK /\ CHUNK <= AMOSTEMPTY
    /\ SECTOR \in Nat /\ HEADER \in Nat /\ FIRST \in Nat
    /\ 0 < SECTOR /\ HEADER <= SECTOR /\ FIRST <= SECTOR /\ FIRST < DEPTH
    /\ MaxFaults \in Nat /\ Len(Dir) \in Nat
  BY PcmFifoAssumption, FatAssumption, PlayerAssumption

LEMMA EmptySeqIsTyped == <<>> \in Seq(Samples) /\ Len(<<>>) = 0
  OBVIOUS

LEMMA FileSize == ASSUME TypeOK PROVE fsize \in Nat
  <1>1. CASE file = WALLPAPER
    BY <1>1 DEF fsize
  <1>2. CASE file # WALLPAPER
    <2>1. file \in 1..Len(Dir)
      BY <1>2, Sizes DEF TypeOK, FatTypeOK, Files, WALLPAPER
    <2>2. Dir[file] \in Entry
      BY <2>1, FatAssumption
    <2>3. Dir[file].present \in Nat
      BY <2>2 DEF Entry
    <2>. QED
      BY <1>2, <2>3, Sizes DEF fsize
  <1>. QED
    BY <1>1, <1>2

\* An interrupt means room for a chunk, and a dry FIFO means an interrupt.
LEMMA InterruptMeansRoom ==
    ASSUME PcmTypeOK(Samples), fifoirq
    PROVE  used + CHUNK <= DEPTH
  <1>1. used \in Nat /\ used < DEPTH
    BY Sizes DEF PcmTypeOK, fifoirq, full, used
  <1>2. used % DEPTH = used
    BY <1>1, Sizes
  <1>. QED
    BY <1>1, <1>2, Sizes DEF fifoirq, PCM_FIFO_FREE

LEMMA DryMeansInterrupt ==
    ASSUME used = 0
    PROVE  fifoirq
  BY Sizes DEF fifoirq, full, PCM_FIFO_FREE

\* A word written while there is room is queued.
LEMMA WordIsQueued ==
    ASSUME TypeOK, NEW word \in Samples, ~fiforst, used < DEPTH, WriteFifo(word)
    PROVE  /\ fifo' \in Seq(Samples) /\ unseen' \in Nat
           /\ used' = used + 1
  <1>1. fifo' = Append(fifo, word) /\ unseen' = unseen
    BY Sizes DEF WriteFifo, full
  <1>2. fifo \in Seq(Samples) /\ unseen \in Nat
    BY DEF TypeOK, PcmTypeOK
  <1>3. fifo' \in Seq(Samples) /\ Len(fifo') = Len(fifo) + 1
    BY <1>1, <1>2
  <1>. QED
    BY <1>1, <1>2, <1>3 DEF used

\* A pass of pf_read adds words, and never more than asked for.
LEMMA SectorIsRead ==
    ASSUME TypeOK, NEW k \in Nat, Len(buf) <= k, ReadGoesOn(k)
    PROVE  /\ buf' \in Seq(Samples) /\ Len(buf') <= k
           /\ fptr' \in Nat /\ faults' \in 0..MaxFaults
           /\ opened' \in BOOLEAN /\ (opened' => opened)
           /\ UNCHANGED <<file, dirPos>>
  <1>1. CASE ReadAborts(k)
    <2>1. /\ faults > 0 /\ faults' = faults - 1 /\ opened' = FALSE
          /\ UNCHANGED <<file, fptr, dirPos, buf>>
      BY <1>1 DEF ReadAborts, DiskFails
    <2>2. /\ buf \in Seq(Samples) /\ fptr \in Nat
          /\ faults \in 0..MaxFaults
      BY DEF TypeOK, FatTypeOK
    <2>3. faults' \in 0..MaxFaults
      BY <2>1, <2>2, Sizes
    <2>. QED
      BY <2>1, <2>2, <2>3
  <1>2. CASE ReadSector(k)
    <2>. DEFINE rcnt == Least(SECTOR - (fptr % SECTOR), Least(k - Len(buf), fsize - fptr))
    <2>1. fsize \in Nat /\ fptr \in Nat /\ Len(buf) \in Nat /\ buf \in Seq(Samples)
      BY FileSize DEF TypeOK, FatTypeOK
    <2>2. fptr % SECTOR \in 0..(SECTOR - 1)
      BY <2>1, Sizes
    <2>3. rcnt \in Nat /\ rcnt <= k - Len(buf)
      BY <1>2, <2>1, <2>2, Sizes DEF Least, ReadSector, Reading
    <2>4. buf' = buf \o WordsHere(rcnt) /\ fptr' = fptr + rcnt
      BY <1>2 DEF ReadSector
    <2>. HIDE DEF rcnt
    <2>5. WordsHere(rcnt) \in Seq(Samples) /\ Len(WordsHere(rcnt)) = rcnt
      BY <2>1, <2>3, Sizes DEF WordsHere, Samples, TypeOK, FatTypeOK
    <2>6. buf' \in Seq(Samples) /\ Len(buf') = Len(buf) + rcnt
      BY <2>1, <2>4, <2>5, ConcatProperties
    <2>. QED
      BY <1>2, <2>1, <2>3, <2>4, <2>6 DEF ReadSector, DiskWorks, TypeOK, FatTypeOK
  <1>. QED
    BY <1>1, <1>2 DEF ReadGoesOn

-----------------------------------------------------------------------------
(* The steps of the main loop.                                               *)

LEMMA PlayInitStep ==
    ASSUME IInv, isr = "idle", ~ins_irq, PlayInit
    PROVE  IInv'
  <1>1. PcmTypeOK(Samples)'
    <2>1. irqena' = FALSE /\ fiforst' = TRUE /\ mute' = TRUE /\ fifo' = <<>> /\ unseen' = 0
      BY DEF PlayInit
    <2>2. irqena' \in BOOLEAN /\ fiforst' \in BOOLEAN /\ mute' \in BOOLEAN
      BY <2>1
    <2>3. fifo' \in Seq(Samples) /\ unseen' \in Nat /\ used' <= DEPTH
      BY <2>1, Sizes, EmptySeqIsTyped DEF used
    <2>. QED
      BY <2>2, <2>3 DEF PcmTypeOK
  <1>2. FatTypeOK'
    BY Sizes, EmptySeqIsTyped DEF IInv, TypeOK, FatTypeOK, PlayInit, Goto, pcmVars, fatVars, isrVars, mainVars
  <1>3. TypeOK'
    BY <1>1, <1>2, Sizes DEF IInv, TypeOK, Samples, Labels, PlayInit, Goto, pcmVars, fatVars, isrVars, mainVars
  <1>4. HandlerInv'
    BY Sizes DEF IInv, HandlerInv, used, PlayInit, Goto, pcmVars, fatVars, isrVars, mainVars
  <1>5. MaskInv' /\ MainInv'
    BY Sizes DEF IInv, TypeOK, MaskInv, MainInv, used, PlayInit, Goto, pcmVars, fatVars, isrVars, mainVars
  <1>6. SongInv'
    BY Sizes DEF IInv, TypeOK, SongInv, PlayInit, Goto, pcmVars, fatVars, isrVars, mainVars
  <1>. QED
    BY <1>3, <1>4, <1>5, <1>6 DEF IInv

LEMMA MountCheckedStep ==
    ASSUME IInv, isr = "idle", ~ins_irq, MountChecked
    PROVE  IInv'
  <1>1. PcmTypeOK(Samples)'
    BY Sizes, EmptySeqIsTyped DEF IInv, TypeOK, PcmTypeOK, used, MountChecked, Goto, DiskWorks, DiskFails, pcmVars, fatVars, isrVars, mainVars
  <1>2. FatTypeOK'
    BY Sizes, EmptySeqIsTyped DEF IInv, TypeOK, FatTypeOK, MountChecked, Goto, DiskWorks, DiskFails, pcmVars, fatVars, isrVars, mainVars
  <1>3. TypeOK'
    BY <1>1, <1>2, Sizes DEF IInv, TypeOK, Samples, Labels, MountChecked, Goto, DiskWorks, DiskFails, pcmVars, fatVars, isrVars, mainVars
  <1>4. HandlerInv'
    BY Sizes DEF IInv, HandlerInv, used, MountChecked, Goto, DiskWorks, DiskFails, pcmVars, fatVars, isrVars, mainVars
  <1>5. MaskInv' /\ MainInv'
    BY Sizes DEF IInv, TypeOK, MaskInv, MainInv, used, MountChecked, Goto, DiskWorks, DiskFails, pcmVars, fatVars, isrVars, mainVars
  <1>6. SongInv'
    BY Sizes DEF IInv, TypeOK, SongInv, MountChecked, Goto, DiskWorks, DiskFails, pcmVars, fatVars, isrVars, mainVars
  <1>. QED
    BY <1>3, <1>4, <1>5, <1>6 DEF IInv

LEMMA LoadWallpaperStep ==
    ASSUME IInv, isr = "idle", ~ins_irq, LoadWallpaper
    PROVE  IInv'
  <1>1. PcmTypeOK(Samples)'
    BY Sizes, EmptySeqIsTyped DEF IInv, TypeOK, PcmTypeOK, used, LoadWallpaper, Goto, DiskWorks, DiskFails, OpenSucceeds, WALLPAPER, Files, pcmVars, fatVars, isrVars, mainVars
  <1>2. FatTypeOK'
    <2>1. WALLPAPER \in Files
      BY Sizes DEF WALLPAPER, Files
    <2>2. opened' \in BOOLEAN
      BY DEF LoadWallpaper, OpenSucceeds
    <2>3. file' \in Files /\ fptr' \in Nat
      BY <2>1 DEF IInv, TypeOK, FatTypeOK, LoadWallpaper, OpenSucceeds
    <2>4. faults' \in 0..MaxFaults /\ UNCHANGED <<dirPos, buf>>
      BY Sizes DEF IInv, TypeOK, FatTypeOK, LoadWallpaper, OpenSucceeds, DiskWorks, DiskFails
    <2>. QED
      BY <2>2, <2>3, <2>4 DEF IInv, TypeOK, FatTypeOK
  <1>3. TypeOK'
    BY <1>1, <1>2, Sizes DEF IInv, TypeOK, Samples, Labels, LoadWallpaper, Goto, DiskWorks, DiskFails, OpenSucceeds, WALLPAPER, Files, pcmVars, fatVars, isrVars, mainVars
  <1>4. HandlerInv'
    BY Sizes DEF IInv, HandlerInv, used, LoadWallpaper, Goto, DiskWorks, DiskFails, OpenSucceeds, WALLPAPER, Files, pcmVars, fatVars, isrVars, mainVars
  <1>5. MaskInv' /\ MainInv'
    BY Sizes DEF IInv, TypeOK, MaskInv, MainInv, used, LoadWallpaper, Goto, DiskWorks, DiskFails, OpenSucceeds, WALLPAPER, Files, pcmVars, fatVars, isrVars, mainVars
  <1>6. SongInv'
    BY Sizes DEF IInv, TypeOK, SongInv, LoadWallpaper, Goto, DiskWorks, DiskFails, OpenSucceeds, WALLPAPER, Files, pcmVars, fatVars, isrVars, mainVars
  <1>. QED
    BY <1>3, <1>4, <1>5, <1>6 DEF IInv

LEMMA SetVolumeStep ==
    ASSUME IInv, isr = "idle", ~ins_irq, SetVolume
    PROVE  IInv'
  <1>1. PcmTypeOK(Samples)'
    BY Sizes, EmptySeqIsTyped DEF IInv, TypeOK, PcmTypeOK, used, SetVolume, Goto, WriteVolume, pcmVars, fatVars, isrVars, mainVars
  <1>2. FatTypeOK'
    BY Sizes, EmptySeqIsTyped DEF IInv, TypeOK, FatTypeOK, SetVolume, Goto, WriteVolume, pcmVars, fatVars, isrVars, mainVars
  <1>3. TypeOK'
    BY <1>1, <1>2, Sizes DEF IInv, TypeOK, Samples, Labels, SetVolume, Goto, WriteVolume, pcmVars, fatVars, isrVars, mainVars
  <1>4. HandlerInv'
    BY Sizes DEF IInv, HandlerInv, used, SetVolume, Goto, WriteVolume, pcmVars, fatVars, isrVars, mainVars
  <1>5. MaskInv' /\ MainInv'
    BY Sizes DEF IInv, TypeOK, MaskInv, MainInv, used, SetVolume, Goto, WriteVolume, pcmVars, fatVars, isrVars, mainVars
  <1>6. SongInv'
    BY Sizes DEF IInv, TypeOK, SongInv, SetVolume, Goto, WriteVolume, pcmVars, fatVars, isrVars, mainVars
  <1>. QED
    BY <1>3, <1>4, <1>5, <1>6 DEF IInv

LEMMA ReadDirStep ==
    ASSUME IInv, isr = "idle", ~ins_irq, ReadDir
    PROVE  IInv'
  <1>1. PcmTypeOK(Samples)'
    BY Sizes, EmptySeqIsTyped DEF IInv, TypeOK, PcmTypeOK, used, ReadDir, Goto, DiskWorks, DiskFails, EndOfDir, Files, pcmVars, fatVars, isrVars, mainVars
  <1>2. FatTypeOK'
    BY Sizes, EmptySeqIsTyped DEF IInv, TypeOK, FatTypeOK, ReadDir, Goto, DiskWorks, DiskFails, EndOfDir, Files, pcmVars, fatVars, isrVars, mainVars
  <1>3. TypeOK'
    <2>1. pc' \in {"pick", "opendir", "open"}
          /\ (song' = song \/ (song' = dirPos /\ ~EndOfDir))
          /\ UNCHANGED <<isrVars, left, pushed, heard, cut>>
      BY DEF ReadDir, Goto
    <2>2. song' \in Files
      BY <2>1, Sizes DEF IInv, TypeOK, FatTypeOK, EndOfDir, Files
    <2>. QED
      BY <1>1, <1>2, <2>1, <2>2 DEF IInv, TypeOK, Labels, isrVars
  <1>4. HandlerInv'
    BY Sizes DEF IInv, HandlerInv, used, ReadDir, Goto, DiskWorks, DiskFails, EndOfDir, Files, pcmVars, fatVars, isrVars, mainVars
  <1>5. MaskInv' /\ MainInv'
    BY Sizes DEF IInv, TypeOK, MaskInv, MainInv, used, ReadDir, Goto, DiskWorks, DiskFails, EndOfDir, Files, pcmVars, fatVars, isrVars, mainVars
  <1>6. SongInv'
    <2>1. CASE pc' = "open"
      <3>1. song' = dirPos /\ ~EndOfDir
        BY <2>1 DEF ReadDir, Goto
      <3>. QED
        BY <2>1, <3>1, Sizes DEF IInv, TypeOK, FatTypeOK, SongInv, EndOfDir
    <2>2. CASE pc' # "open"
      BY <2>2 DEF SongInv, ReadDir, Goto
    <2>. QED
      BY <2>1, <2>2
  <1>. QED
    BY <1>3, <1>4, <1>5, <1>6 DEF IInv

LEMMA OpenWavDirStep ==
    ASSUME IInv, isr = "idle", ~ins_irq, OpenWavDir
    PROVE  IInv'
  <1>1. PcmTypeOK(Samples)'
    BY Sizes, EmptySeqIsTyped DEF IInv, TypeOK, PcmTypeOK, used, OpenWavDir, Goto, OpenDir, DiskWorks, DiskFails, pcmVars, fatVars, isrVars, mainVars
  <1>2. FatTypeOK'
    BY Sizes, EmptySeqIsTyped DEF IInv, TypeOK, FatTypeOK, OpenWavDir, Goto, OpenDir, DiskWorks, DiskFails, pcmVars, fatVars, isrVars, mainVars
  <1>3. TypeOK'
    BY <1>1, <1>2, Sizes DEF IInv, TypeOK, Samples, Labels, OpenWavDir, Goto, OpenDir, DiskWorks, DiskFails, pcmVars, fatVars, isrVars, mainVars
  <1>4. HandlerInv'
    BY Sizes DEF IInv, HandlerInv, used, OpenWavDir, Goto, OpenDir, DiskWorks, DiskFails, pcmVars, fatVars, isrVars, mainVars
  <1>5. MaskInv' /\ MainInv'
    BY Sizes DEF IInv, TypeOK, MaskInv, MainInv, used, OpenWavDir, Goto, OpenDir, DiskWorks, DiskFails, pcmVars, fatVars, isrVars, mainVars
  <1>6. SongInv'
    BY Sizes DEF IInv, TypeOK, SongInv, OpenWavDir, Goto, OpenDir, DiskWorks, DiskFails, pcmVars, fatVars, isrVars, mainVars
  <1>. QED
    BY <1>3, <1>4, <1>5, <1>6 DEF IInv

LEMMA OpenSongStep ==
    ASSUME IInv, isr = "idle", ~ins_irq, OpenSong
    PROVE  IInv'
  <1>1. PcmTypeOK(Samples)'
    BY Sizes, EmptySeqIsTyped DEF IInv, TypeOK, PcmTypeOK, used, OpenSong, Goto, OpenBegins, pcmVars, fatVars, isrVars, mainVars
  <1>2. FatTypeOK'
    BY Sizes, EmptySeqIsTyped DEF IInv, TypeOK, FatTypeOK, OpenSong, Goto, OpenBegins, pcmVars, fatVars, isrVars, mainVars
  <1>3. TypeOK'
    BY <1>1, <1>2, Sizes DEF IInv, TypeOK, Samples, Labels, OpenSong, Goto, OpenBegins, pcmVars, fatVars, isrVars, mainVars
  <1>4. HandlerInv'
    BY Sizes DEF IInv, HandlerInv, used, OpenSong, Goto, OpenBegins, pcmVars, fatVars, isrVars, mainVars
  <1>5. MaskInv' /\ MainInv'
    BY Sizes DEF IInv, TypeOK, MaskInv, MainInv, used, OpenSong, Goto, OpenBegins, pcmVars, fatVars, isrVars, mainVars
  <1>6. SongInv'
    BY Sizes DEF IInv, TypeOK, SongInv, OpenSong, Goto, OpenBegins, pcmVars, fatVars, isrVars, mainVars
  <1>. QED
    BY <1>3, <1>4, <1>5, <1>6 DEF IInv

LEMMA SongOpenedStep ==
    ASSUME IInv, isr = "idle", ~ins_irq, SongOpened
    PROVE  IInv'
  <1>1. PcmTypeOK(Samples)'
    BY Sizes, EmptySeqIsTyped DEF IInv, TypeOK, PcmTypeOK, used, SongOpened, Goto, OpenSucceeds, OpenFails, DiskWorks, DiskFails, pcmVars, fatVars, isrVars, mainVars
  <1>2. FatTypeOK'
    <2>1. /\ opened' \in {opened, TRUE} /\ file' \in {file, song}
          /\ fptr' \in {fptr, 0}
          /\ faults' = faults \/ (faults > 0 /\ faults' = faults - 1)
          /\ UNCHANGED <<dirPos, buf>>
      BY DEF SongOpened, OpenSucceeds, OpenFails, DiskWorks, DiskFails
    <2>2. opened' \in BOOLEAN
      BY <2>1 DEF IInv, TypeOK, FatTypeOK
    <2>3. file' \in Files /\ fptr' \in Nat /\ faults' \in 0..MaxFaults
      BY <2>1, Sizes DEF IInv, TypeOK, FatTypeOK
    <2>. QED
      BY <2>1, <2>2, <2>3 DEF IInv, TypeOK, FatTypeOK
  <1>3. TypeOK'
    BY <1>1, <1>2, Sizes DEF IInv, TypeOK, Samples, Labels, SongOpened, Goto, OpenSucceeds, OpenFails, DiskWorks, DiskFails, pcmVars, fatVars, isrVars, mainVars
  <1>4. HandlerInv'
    BY Sizes DEF IInv, HandlerInv, used, SongOpened, Goto, OpenSucceeds, OpenFails, DiskWorks, DiskFails, pcmVars, fatVars, isrVars, mainVars
  <1>5. MaskInv' /\ MainInv'
    BY Sizes DEF IInv, TypeOK, MaskInv, MainInv, used, SongOpened, Goto, OpenSucceeds, OpenFails, DiskWorks, DiskFails, pcmVars, fatVars, isrVars, mainVars
  <1>6. SongInv'
    BY Sizes DEF IInv, TypeOK, SongInv, SongOpened, Goto, OpenSucceeds, OpenFails, DiskWorks, DiskFails, pcmVars, fatVars, isrVars, mainVars
  <1>. QED
    BY <1>3, <1>4, <1>5, <1>6 DEF IInv

LEMMA CheckHeaderStep ==
    ASSUME IInv, isr = "idle", ~ins_irq, CheckHeader
    PROVE  IInv'
  <1>1. PcmTypeOK(Samples)'
    BY Sizes, EmptySeqIsTyped DEF IInv, TypeOK, PcmTypeOK, used, CheckHeader, Goto, DiskWorks, DiskFails, pcmVars, fatVars, isrVars, mainVars
  <1>2. FatTypeOK'
    <2>1. /\ opened' = opened \/ opened' = FALSE
          /\ fptr' = fptr \/ fptr' = HEADER
          /\ faults' = faults \/ (faults > 0 /\ faults' = faults - 1)
          /\ UNCHANGED <<file, dirPos, buf>>
      BY DEF CheckHeader, DiskWorks, DiskFails
    <2>2. opened' \in BOOLEAN
      BY <2>1 DEF IInv, TypeOK, FatTypeOK
    <2>3. fptr' \in Nat /\ faults' \in 0..MaxFaults
      BY <2>1, Sizes DEF IInv, TypeOK, FatTypeOK
    <2>. QED
      BY <2>1, <2>2, <2>3 DEF IInv, TypeOK, FatTypeOK
  <1>3. TypeOK'
    BY <1>1, <1>2, Sizes DEF IInv, TypeOK, Samples, Labels, CheckHeader, Goto, DiskWorks, DiskFails, pcmVars, fatVars, isrVars, mainVars
  <1>4. HandlerInv'
    BY Sizes DEF IInv, HandlerInv, used, CheckHeader, Goto, DiskWorks, DiskFails, pcmVars, fatVars, isrVars, mainVars
  <1>5. MaskInv' /\ MainInv'
    BY Sizes DEF IInv, TypeOK, MaskInv, MainInv, used, CheckHeader, Goto, DiskWorks, DiskFails, pcmVars, fatVars, isrVars, mainVars
  <1>6. SongInv'
    BY Sizes DEF IInv, TypeOK, SongInv, CheckHeader, Goto, DiskWorks, DiskFails, pcmVars, fatVars, isrVars, mainVars
  <1>. QED
    BY <1>3, <1>4, <1>5, <1>6 DEF IInv

LEMMA StopStep ==
    ASSUME IInv, isr = "idle", ~ins_irq, Stop
    PROVE  IInv'
  <1>1. PcmTypeOK(Samples)'
    BY Sizes, EmptySeqIsTyped DEF IInv, TypeOK, PcmTypeOK, used, Stop, Goto, WriteStatus, pcmVars, fatVars, isrVars, mainVars
  <1>2. FatTypeOK'
    BY Sizes, EmptySeqIsTyped DEF IInv, TypeOK, FatTypeOK, Stop, Goto, WriteStatus, pcmVars, fatVars, isrVars, mainVars
  <1>3. TypeOK'
    BY <1>1, <1>2, Sizes DEF IInv, TypeOK, Samples, Labels, Stop, Goto, WriteStatus, pcmVars, fatVars, isrVars, mainVars
  <1>4. HandlerInv'
    BY Sizes DEF IInv, HandlerInv, used, Stop, Goto, WriteStatus, pcmVars, fatVars, isrVars, mainVars
  <1>5. MaskInv' /\ MainInv'
    BY Sizes DEF IInv, TypeOK, MaskInv, MainInv, used, Stop, Goto, WriteStatus, pcmVars, fatVars, isrVars, mainVars
  <1>6. SongInv'
    BY Sizes DEF IInv, TypeOK, SongInv, Stop, Goto, WriteStatus, pcmVars, fatVars, isrVars, mainVars
  <1>. QED
    BY <1>3, <1>4, <1>5, <1>6 DEF IInv

LEMMA DrainedStep ==
    ASSUME IInv, isr = "idle", ~ins_irq, Drained
    PROVE  IInv'
  <1>1. PcmTypeOK(Samples)'
    BY Sizes, EmptySeqIsTyped DEF IInv, TypeOK, PcmTypeOK, used, Drained, Goto, ReadBegins, PLAY, Samples, pcmVars, fatVars, isrVars, mainVars
  <1>2. FatTypeOK'
    BY Sizes, EmptySeqIsTyped DEF IInv, TypeOK, FatTypeOK, Drained, Goto, ReadBegins, PLAY, Samples, pcmVars, fatVars, isrVars, mainVars
  <1>3. TypeOK'
    <2>1. heard' = <<song, 0>> /\ cut' = FALSE /\ pc' = "first"
          /\ UNCHANGED <<isrVars, left, pushed, song>>
      BY DEF Drained, Goto
    <2>2. heard' \in Samples
      BY <2>1, Sizes DEF IInv, TypeOK, Samples, Files
    <2>3. cut' \in BOOLEAN
      BY <2>1
    <2>. QED
      BY <1>1, <1>2, <2>1, <2>2, <2>3 DEF IInv, TypeOK, Labels, isrVars
  <1>4. HandlerInv'
    BY Sizes DEF IInv, HandlerInv, used, Drained, Goto, ReadBegins, PLAY, Samples, pcmVars, fatVars, isrVars, mainVars
  <1>5. MaskInv' /\ MainInv'
    BY Sizes DEF IInv, TypeOK, MaskInv, MainInv, used, Drained, Goto, ReadBegins, PLAY, Samples, pcmVars, fatVars, isrVars, mainVars
  <1>6. SongInv'
    BY Sizes DEF IInv, TypeOK, SongInv, Drained, Goto, ReadBegins, PLAY, Samples, pcmVars, fatVars, isrVars, mainVars
  <1>. QED
    BY <1>3, <1>4, <1>5, <1>6 DEF IInv

LEMMA ArmStep ==
    ASSUME IInv, isr = "idle", ~ins_irq, Arm
    PROVE  IInv'
  <1>1. PcmTypeOK(Samples)'
    BY Sizes, EmptySeqIsTyped DEF IInv, TypeOK, PcmTypeOK, used, Arm, Goto, WriteStatus, pcmVars, fatVars, isrVars, mainVars
  <1>2. FatTypeOK'
    BY Sizes, EmptySeqIsTyped DEF IInv, TypeOK, FatTypeOK, Arm, Goto, WriteStatus, pcmVars, fatVars, isrVars, mainVars
  <1>3. TypeOK'
    <2>1. left' = Dir[song].declared - FIRST /\ pc' = "wait"
          /\ UNCHANGED <<isrVars, song, pushed, heard, cut>>
      BY DEF Arm, Goto
    <2>2. song \in 1..Len(Dir) /\ Dir[song].supported
      BY DEF IInv, SongInv, Arm
    <2>3. Dir[song] \in Entry /\ Dir[song].declared >= FIRST
      BY <2>2, FatAssumption, PlayerAssumption
    <2>4. Dir[song].declared \in Nat
      BY <2>3 DEF Entry
    <2>. QED
      BY <1>1, <1>2, <2>1, <2>3, <2>4, Sizes DEF IInv, TypeOK, Labels, isrVars
  <1>4. HandlerInv'
    BY Sizes DEF IInv, HandlerInv, used, Arm, Goto, WriteStatus, pcmVars, fatVars, isrVars, mainVars
  <1>5. MaskInv' /\ MainInv'
    BY Sizes DEF IInv, TypeOK, MaskInv, MainInv, used, Arm, Goto, WriteStatus, pcmVars, fatVars, isrVars, mainVars
  <1>6. SongInv'
    BY Sizes DEF IInv, TypeOK, SongInv, Arm, Goto, WriteStatus, pcmVars, fatVars, isrVars, mainVars
  <1>. QED
    BY <1>3, <1>4, <1>5, <1>6 DEF IInv

LEMMA SongOverStep ==
    ASSUME IInv, isr = "idle", ~ins_irq, SongOver
    PROVE  IInv'
  <1>1. PcmTypeOK(Samples)'
    BY Sizes, EmptySeqIsTyped DEF IInv, TypeOK, PcmTypeOK, used, SongOver, Goto, PLAY, pcmVars, fatVars, isrVars, mainVars
  <1>2. FatTypeOK'
    BY Sizes, EmptySeqIsTyped DEF IInv, TypeOK, FatTypeOK, SongOver, Goto, PLAY, pcmVars, fatVars, isrVars, mainVars
  <1>3. TypeOK'
    BY <1>1, <1>2, Sizes DEF IInv, TypeOK, Samples, Labels, SongOver, Goto, PLAY, pcmVars, fatVars, isrVars, mainVars
  <1>4. HandlerInv'
    BY Sizes DEF IInv, HandlerInv, used, SongOver, Goto, PLAY, pcmVars, fatVars, isrVars, mainVars
  <1>5. MaskInv' /\ MainInv'
    <2>1. ~irqena
      BY DryMeansInterrupt DEF SongOver, PLAY, ins_irq
    <2>2. left = 0
      BY <2>1 DEF IInv, MaskInv, SongOver
    <2>. QED
      BY <2>1, <2>2 DEF IInv, MaskInv, MainInv, SongOver, Goto, used, pcmVars, fatVars, isrVars
  <1>6. SongInv'
    BY Sizes DEF IInv, TypeOK, SongInv, SongOver, Goto, PLAY, pcmVars, fatVars, isrVars, mainVars
  <1>. QED
    BY <1>3, <1>4, <1>5, <1>6 DEF IInv

LEMMA ReadFirstStep ==
    ASSUME IInv, isr = "idle", ~ins_irq, ReadFirst
    PROVE  IInv'
  <1>. pc = "first" /\ UNCHANGED <<pcmVars, isrVars, left, heard>>
    BY DEF ReadFirst
  <1>1. CASE ReadGoesOn(FIRST) /\ UNCHANGED <<mainVars, pushed, cut>>
    <2>1. /\ buf' \in Seq(Samples) /\ Len(buf') <= FIRST
          /\ fptr' \in Nat /\ faults' \in 0..MaxFaults
          /\ opened' \in BOOLEAN /\ (opened' => opened)
          /\ UNCHANGED <<file, dirPos>>
      BY <1>1, Sizes, SectorIsRead DEF IInv, MainInv
    <2>2. FatTypeOK'
      BY <2>1 DEF IInv, TypeOK, FatTypeOK
    <2>3. TypeOK'
      BY <1>1, <2>2 DEF IInv, TypeOK, PcmTypeOK, used, pcmVars, mainVars, isrVars
    <2>4. MaskInv' /\ MainInv' /\ HandlerInv'
      BY <1>1, <2>1 DEF IInv, MaskInv, MainInv, HandlerInv, used, pcmVars, mainVars, isrVars
    <2>5. SongInv'
      BY <1>1 DEF IInv, SongInv, mainVars
    <2>. QED
      BY <2>3, <2>4, <2>5 DEF IInv
  <1>2. CASE /\ pushed' = 0
             /\ cut' = (cut \/ ~ReadInFull(FIRST))
             /\ Goto(IF ReadInFull(FIRST) THEN "fill" ELSE "arm")
             /\ UNCHANGED fatVars
    <2>1. cut' \in BOOLEAN
      BY <1>2
    <2>2. TypeOK'
      BY <1>2, <2>1, Sizes
         DEF IInv, TypeOK, PcmTypeOK, FatTypeOK, used, pcmVars, fatVars, isrVars, Goto, Labels
    <2>3. MaskInv' /\ HandlerInv' /\ SongInv'
      BY <1>2 DEF IInv, MaskInv, HandlerInv, SongInv, pcmVars, fatVars, isrVars, Goto
    <2>4. MainInv'
      BY <1>2, Sizes DEF IInv, MainInv, ReadInFull, used, pcmVars, fatVars, isrVars, Goto
    <2>. QED
      BY <2>2, <2>3, <2>4 DEF IInv
  <1>. QED
    BY <1>1, <1>2 DEF ReadFirst

LEMMA FillFirstStep ==
    ASSUME IInv, isr = "idle", ~ins_irq, FillFirst
    PROVE  IInv'
  <1>. pc = "fill" /\ UNCHANGED <<fatVars, isrVars, left, heard, cut>>
    BY DEF FillFirst
  <1>1. CASE pushed < FIRST
    <2>1. WriteFifo(buf[pushed + 1]) /\ pushed' = pushed + 1 /\ UNCHANGED mainVars
      BY <1>1 DEF FillFirst
    <2>2. buf[pushed + 1] \in Samples
      BY <1>1, Sizes DEF IInv, TypeOK, FatTypeOK, MainInv
    <2>3. ~fiforst /\ used < DEPTH
      BY <1>1, Sizes DEF IInv, TypeOK, PcmTypeOK, MainInv, used
    <2>4. fifo' \in Seq(Samples) /\ unseen' \in Nat /\ used' = used + 1
      BY <2>1, <2>2, <2>3, WordIsQueued DEF IInv
    <2>5. UNCHANGED <<irqena, fiforst, mute>>
      BY <2>1 DEF WriteFifo
    <2>6. used \in Nat
      BY DEF IInv, TypeOK, PcmTypeOK, used
    <2>7. TypeOK'
      BY <1>1, <2>1, <2>3, <2>4, <2>5, <2>6, Sizes
         DEF IInv, TypeOK, PcmTypeOK, FatTypeOK, mainVars, fatVars, isrVars
    <2>8. MaskInv' /\ HandlerInv' /\ SongInv'
      BY <2>1, <2>5 DEF IInv, MaskInv, HandlerInv, SongInv, mainVars, fatVars, isrVars
    <2>9. MainInv'
      BY <1>1, <2>1, <2>4, <2>5, <2>6, Sizes
         DEF IInv, TypeOK, MainInv, mainVars, fatVars, isrVars
    <2>. QED
      BY <2>7, <2>8, <2>9 DEF IInv
  <1>2. CASE ~(pushed < FIRST)
    <2>1. Goto("arm") /\ UNCHANGED <<pcmVars, pushed>>
      BY <1>2 DEF FillFirst
    <2>2. TypeOK'
      BY <2>1 DEF IInv, TypeOK, PcmTypeOK, FatTypeOK, used, Goto, Labels, pcmVars, fatVars, isrVars
    <2>. QED
      BY <2>1, <2>2 DEF IInv, MaskInv, HandlerInv, SongInv, MainInv, used, Goto,
                        pcmVars, fatVars, isrVars
  <1>. QED
    BY <1>1, <1>2

-----------------------------------------------------------------------------
(* The steps of the interrupt handler.                                       *)

LEMMA IsrEnterStep ==
    ASSUME IInv, IsrEnter
    PROVE  IInv'
  <1>1. /\ isr = "idle" /\ irqena /\ isr' = "read" /\ n' = Least(left, CHUNK)
        /\ irqena' = FALSE /\ fiforst' = FALSE /\ buf' = <<>>
        /\ UNCHANGED <<opened, file, fptr, dirPos, faults, mute, fifo, unseen,
                       mainVars, left, pushed, heard, cut>>
    BY DEF IsrEnter, ins_irq, WriteStatus, ReadBegins
  <1>2. used + CHUNK <= DEPTH /\ used \in Nat
    BY InterruptMeansRoom DEF IInv, TypeOK, PcmTypeOK, IsrEnter, ins_irq, used
  <1>3. n' \in 0..CHUNK /\ n' <= left
    BY <1>1, Sizes DEF IInv, TypeOK, Least
  <1>4. PcmTypeOK(Samples)'
    BY <1>1 DEF IInv, TypeOK, PcmTypeOK, used
  <1>5. FatTypeOK'
    BY <1>1, EmptySeqIsTyped DEF IInv, TypeOK, FatTypeOK
  <1>6. eof' \in BOOLEAN
    BY DEF IsrEnter
  <1>7. TypeOK'
    BY <1>1, <1>3, <1>4, <1>5, <1>6 DEF IInv, TypeOK, IsrLabels, mainVars
  <1>8. HandlerInv'
    BY <1>1, <1>2, <1>3, Sizes DEF HandlerInv, used
  <1>9. MaskInv' /\ MainInv' /\ SongInv'
    BY <1>1 DEF IInv, MaskInv, MainInv, SongInv, used, mainVars
  <1>. QED
    BY <1>7, <1>8, <1>9 DEF IInv

LEMMA IsrReadStep ==
    ASSUME IInv, IsrRead
    PROVE  IInv'
  <1>. isr = "read" /\ pc = "wait" /\ UNCHANGED <<pcmVars, mainVars, left, heard>>
    BY DEF IsrRead, IInv, MaskInv
  <1>1. CASE ReadGoesOn(n) /\ UNCHANGED <<isrVars, pushed, cut>>
    <2>1. n \in Nat /\ Len(buf) <= n
      BY Sizes DEF IInv, TypeOK, HandlerInv
    <2>2. /\ buf' \in Seq(Samples) /\ Len(buf') <= n
          /\ fptr' \in Nat /\ faults' \in 0..MaxFaults
          /\ opened' \in BOOLEAN /\ (opened' => opened)
          /\ UNCHANGED <<file, dirPos>>
      BY <1>1, <2>1, SectorIsRead DEF IInv
    <2>3. FatTypeOK'
      BY <2>2 DEF IInv, TypeOK, FatTypeOK
    <2>4. TypeOK'
      BY <1>1, <2>3 DEF IInv, TypeOK, PcmTypeOK, used, pcmVars, mainVars, isrVars
    <2>. QED
      BY <1>1, <2>2, <2>4 DEF IInv, MaskInv, MainInv, HandlerInv, SongInv, used,
                              pcmVars, mainVars, isrVars
  <1>2. CASE /\ pushed' = 0
             /\ IF ReadInFull(n)
                THEN isr' = "push" /\ UNCHANGED <<eof, cut>>
                ELSE isr' = "next" /\ eof' = TRUE /\ cut' = TRUE
             /\ UNCHANGED <<fatVars, n>>
    <2>1. cut' \in BOOLEAN /\ eof' \in BOOLEAN /\ isr' \in {"push", "next"}
      BY <1>2 DEF IInv, TypeOK
    <2>2. TypeOK'
      BY <1>2, <2>1, Sizes DEF IInv, TypeOK, PcmTypeOK, FatTypeOK, used, IsrLabels,
                               pcmVars, fatVars, mainVars
    <2>3. HandlerInv'
      BY <1>2, <2>1, Sizes DEF IInv, TypeOK, HandlerInv, ReadInFull, used, pcmVars, fatVars
    <2>4. MaskInv' /\ MainInv' /\ SongInv'
      BY <1>2, <2>1 DEF IInv, MaskInv, MainInv, SongInv, used, pcmVars, fatVars, mainVars
    <2>. QED
      BY <2>2, <2>3, <2>4 DEF IInv
  <1>. QED
    BY <1>1, <1>2 DEF IsrRead

LEMMA IsrPushStep ==
    ASSUME IInv, IsrPush
    PROVE  IInv'
  <1>. isr = "push" /\ pc = "wait" /\ UNCHANGED <<fatVars, mainVars, heard, cut>>
    BY DEF IsrPush, IInv, MaskInv
  <1>1. CASE pushed < n
    <2>1. WriteFifo(buf[pushed + 1]) /\ pushed' = pushed + 1 /\ UNCHANGED <<isrVars, left>>
      BY <1>1 DEF IsrPush
    <2>2. buf[pushed + 1] \in Samples
      BY <1>1, Sizes DEF IInv, TypeOK, FatTypeOK, HandlerInv
    <2>3. ~fiforst /\ used < DEPTH /\ used \in Nat
      BY <1>1, Sizes DEF IInv, TypeOK, PcmTypeOK, HandlerInv, used
    <2>4. fifo' \in Seq(Samples) /\ unseen' \in Nat /\ used' = used + 1
      BY <2>1, <2>2, <2>3, WordIsQueued DEF IInv
    <2>5. UNCHANGED <<irqena, fiforst, mute>>
      BY <2>1 DEF WriteFifo
    <2>6. TypeOK'
      BY <1>1, <2>1, <2>3, <2>4, <2>5, Sizes
         DEF IInv, TypeOK, PcmTypeOK, FatTypeOK, mainVars, fatVars, isrVars
    <2>7. HandlerInv'
      BY <1>1, <2>1, <2>3, <2>4, <2>5, Sizes
         DEF IInv, TypeOK, HandlerInv, fatVars, isrVars
    <2>8. MaskInv' /\ MainInv' /\ SongInv'
      BY <2>1, <2>5 DEF IInv, MaskInv, MainInv, SongInv, mainVars, fatVars, isrVars
    <2>. QED
      BY <2>6, <2>7, <2>8 DEF IInv
  <1>2. CASE ~(pushed < n)
    <2>1. isr' = "next" /\ left' = left - n /\ UNCHANGED <<pcmVars, n, eof, pushed>>
      BY <1>2 DEF IsrPush
    <2>2. left' \in Nat
      BY <2>1 DEF IInv, TypeOK, HandlerInv
    <2>3. TypeOK'
      BY <2>1, <2>2 DEF IInv, TypeOK, PcmTypeOK, FatTypeOK, used, IsrLabels,
                        pcmVars, fatVars, mainVars
    <2>. QED
      BY <2>1, <2>3 DEF IInv, MaskInv, HandlerInv, SongInv, MainInv, used,
                        pcmVars, fatVars, mainVars
  <1>. QED
    BY <1>1, <1>2

LEMMA IsrReturnStep ==
    ASSUME IInv, IsrReturn
    PROVE  IInv'
  <1>. /\ isr = "next" /\ isr' = "idle" /\ pc = "wait" /\ ~irqena
       /\ UNCHANGED <<fatVars, mainVars, n, eof, pushed, heard, cut>>
    BY DEF IsrReturn, IInv, MaskInv
  <1>1. CASE eof
    <2>1. left' = 0 /\ UNCHANGED pcmVars
      BY <1>1 DEF IsrReturn
    <2>2. TypeOK'
      BY <2>1 DEF IInv, TypeOK, PcmTypeOK, FatTypeOK, used, IsrLabels, pcmVars, fatVars, mainVars
    <2>. QED
      BY <2>1, <2>2 DEF IInv, MaskInv, HandlerInv, SongInv, MainInv, used,
                        pcmVars, fatVars, mainVars
  <1>2. CASE ~eof
    <2>1. irqena' = TRUE /\ fiforst' = FALSE /\ UNCHANGED <<mute, fifo, unseen, left>>
      BY <1>2 DEF IsrReturn, WriteStatus
    <2>2. TypeOK'
      BY <2>1 DEF IInv, TypeOK, PcmTypeOK, FatTypeOK, used, IsrLabels, fatVars, mainVars
    <2>. QED
      BY <2>1, <2>2 DEF IInv, MaskInv, HandlerInv, SongInv, MainInv, used, fatVars, mainVars
  <1>. QED
    BY <1>1, <1>2

-----------------------------------------------------------------------------
(* The steps of the audio clock.                                             *)

LEMMA PlayStep ==
    ASSUME IInv, Play
    PROVE  IInv'
  <1>1. /\ fifo # <<>> /\ fifo' = Tail(fifo) /\ unseen' = unseen + 1
        /\ heard' = Head(fifo)
        /\ UNCHANGED <<irqena, fiforst, mute, fatVars, mainVars, isrVars, left, pushed, cut>>
    BY DEF Play, Consume
  <1>2. fifo \in Seq(Samples) /\ unseen \in Nat /\ used <= DEPTH
    BY DEF IInv, TypeOK, PcmTypeOK
  <1>3. /\ fifo' \in Seq(Samples) /\ Len(fifo') = Len(fifo) - 1
        /\ heard' \in Samples
    BY <1>1, <1>2, HeadTailProperties
  <1>4. used' = used /\ unseen' \in Nat
    BY <1>1, <1>2, <1>3 DEF used
  <1>5. TypeOK'
    BY <1>1, <1>2, <1>3, <1>4 DEF IInv, TypeOK, PcmTypeOK, FatTypeOK, fatVars, mainVars, isrVars
  <1>6. HandlerInv' /\ MaskInv' /\ MainInv' /\ SongInv'
    BY <1>1, <1>4 DEF IInv, HandlerInv, MaskInv, MainInv, SongInv, fatVars, mainVars, isrVars
  <1>. QED
    BY <1>5, <1>6 DEF IInv

LEMMA CatchStep ==
    ASSUME IInv, Catch
    PROVE  IInv'
  <1>1. /\ unseen > 0 /\ unseen' = unseen - 1
        /\ UNCHANGED <<irqena, fiforst, mute, fifo, fatVars, mainVars, isrVars, left, pushed,
                       heard, cut>>
    BY DEF Catch, Synchronize
  <1>2. fifo \in Seq(Samples) /\ unseen \in Nat /\ used <= DEPTH /\ used \in Nat
    BY DEF IInv, TypeOK, PcmTypeOK, used
  <1>3. used' = used - 1 /\ unseen' \in Nat
    BY <1>1, <1>2 DEF used
  <1>4. TypeOK'
    BY <1>1, <1>2, <1>3, Sizes
       DEF IInv, TypeOK, PcmTypeOK, FatTypeOK, fatVars, mainVars, isrVars
  <1>5. used # 0
    BY <1>1, <1>2 DEF used
  <1>6. HandlerInv' /\ MaskInv' /\ MainInv' /\ SongInv'
    BY <1>1, <1>2, <1>3, <1>5, Sizes
       DEF IInv, TypeOK, HandlerInv, MaskInv, MainInv, SongInv, fatVars, mainVars, isrVars
  <1>. QED
    BY <1>4, <1>6 DEF IInv

-----------------------------------------------------------------------------
LEMMA InitIsInv == Init => IInv
  <1>. SUFFICES ASSUME Init PROVE IInv
    OBVIOUS
  <1>1. /\ irqena = FALSE /\ fiforst = TRUE /\ mute = TRUE /\ opened = FALSE
        /\ eof = FALSE /\ cut = FALSE
    BY DEF Init, PcmInit, FatInit
  <1>2. /\ irqena \in BOOLEAN /\ fiforst \in BOOLEAN /\ mute \in BOOLEAN
        /\ opened \in BOOLEAN /\ eof \in BOOLEAN /\ cut \in BOOLEAN
    BY <1>1
  <1>3. /\ fifo = <<>> /\ unseen = 0 /\ file = 0 /\ fptr = 0 /\ dirPos = 0
        /\ buf = <<>> /\ faults = MaxFaults /\ pc = "reset" /\ song = 0
        /\ isr = "idle" /\ n = 0 /\ left = 0 /\ pushed = 0 /\ heard = <<0, 0>>
    BY DEF Init, PcmInit, FatInit, WALLPAPER
  <1>4. 0 \in Files /\ <<0, 0>> \in Samples
    BY Sizes DEF Files, Samples
  <1>5. PcmTypeOK(Samples)
    BY <1>2, <1>3, Sizes, EmptySeqIsTyped DEF PcmTypeOK, used
  <1>6. FatTypeOK
    BY <1>2, <1>3, <1>4, Sizes, EmptySeqIsTyped DEF FatTypeOK
  <1>7. TypeOK
    BY <1>2, <1>3, <1>4, <1>5, <1>6, Sizes DEF TypeOK, Labels, IsrLabels
  <1>. QED
    BY <1>1, <1>3, <1>7 DEF IInv, HandlerInv, MaskInv, MainInv, SongInv

LEMMA StepKeepsInv == IInv /\ [Next]_vars => IInv'
  <1>. SUFFICES ASSUME IInv, [Next]_vars PROVE IInv'
    OBVIOUS
  <1>1. CASE Main
    BY <1>1, PlayInitStep, MountCheckedStep, LoadWallpaperStep, SetVolumeStep, ReadDirStep,
       OpenWavDirStep, OpenSongStep, SongOpenedStep, CheckHeaderStep, StopStep, DrainedStep,
       ReadFirstStep, FillFirstStep, ArmStep, SongOverStep DEF Main
  <1>2. CASE Isr
    BY <1>2, IsrEnterStep, IsrReadStep, IsrPushStep, IsrReturnStep DEF Isr
  <1>3. CASE Play \/ Catch
    BY <1>3, PlayStep, CatchStep
  <1>4. CASE Halted \/ UNCHANGED vars
    <2>1. UNCHANGED <<irqena, fiforst, mute, fifo, unseen, opened, file, fptr, dirPos, buf,
                      faults, pc, song, isr, n, eof, left, pushed, heard, cut>>
      BY <1>4 DEF Halted, vars, pcmVars, fatVars, mainVars, isrVars
    <2>2. PcmTypeOK(Samples)' /\ FatTypeOK'
      BY <2>1 DEF IInv, TypeOK, PcmTypeOK, FatTypeOK, used
    <2>. QED
      BY <2>1, <2>2 DEF IInv, TypeOK, HandlerInv, MaskInv, MainInv, SongInv, used
  <1>. QED
    BY <1>1, <1>2, <1>3, <1>4 DEF Next

(* IInv is an invariant of the wavplayer program.                            *)
THEOREM PlayerInvariant == Spec => []IInv
  BY InitIsInv, StepKeepsInv, PTL DEF Spec

(* The registers, the file object and the state of both threads keep their   *)
(* types and bounds; above all the FIFO is never overfilled.                 *)
THEOREM PlayerTypes == Spec => []TypeOK
  <1>1. IInv => TypeOK
    BY DEF IInv
  <1>. QED
    BY <1>1, PlayerInvariant, PTL

(* No word is ever written to a full FIFO or to one in reset, for every FIFO *)
(* whose interrupt threshold leaves room for a chunk.                        *)
THEOREM NoWordIsLost == Spec => []RoomForChunk
  <1>1. IInv => RoomForChunk
    BY DEF IInv, HandlerInv, MainInv, RoomForChunk
  <1>. QED
    BY <1>1, PlayerInvariant, PTL

(* The handler and the main loop are never in Petit FatFs together, and the  *)
(* handler reads no other file than the song that was started.               *)
THEOREM FatFsIsNotShared == Spec => []FatFsExclusive
  <1>1. IInv => FatFsExclusive
    BY DEF IInv, MaskInv, MainInv, FatFsExclusive
  <1>. QED
    BY <1>1, PlayerInvariant, PTL

(* An empty FIFO is the end of the song, however late the card was.          *)
THEOREM EmptyMeansOver == Spec => WaitEndsWithTheSong
  <1>1. IInv /\ [Next]_vars =>
           [pc = "wait" /\ pc' = "pick" => left = 0 /\ ~irqena /\ fifo = <<>>]_vars
    <2>. SUFFICES ASSUME IInv, Next, pc = "wait", pc' = "pick"
                  PROVE  left = 0 /\ ~irqena /\ fifo = <<>>
      OBVIOUS
    <2>1. SongOver /\ isr = "idle" /\ ~ins_irq
      BY DEF Next, Main, Halted, vars, mainVars, Goto, Isr, IsrEnter, IsrRead, IsrPush,
             IsrReturn, Play, Catch, PlayInit, MountChecked, LoadWallpaper, SetVolume, ReadDir,
             OpenWavDir, OpenSong, SongOpened, CheckHeader, Stop, Drained, ReadFirst,
             FillFirst, Arm
    <2>2. used = 0
      BY <2>1 DEF SongOver, PLAY
    <2>3. ~irqena
      BY <2>1, <2>2, DryMeansInterrupt DEF ins_irq
    <2>4. left = 0
      BY <2>1, <2>3 DEF IInv, MaskInv
    <2>5. Len(fifo) = 0
      BY <2>2 DEF IInv, TypeOK, PcmTypeOK, used
    <2>6. fifo = <<>>
      BY <2>5, EmptySeq DEF IInv, TypeOK, PcmTypeOK
    <2>. QED
      BY <2>3, <2>4, <2>6
  <1>. QED
    BY <1>1, PlayerInvariant, PTL DEF Spec, WaitEndsWithTheSong

-----------------------------------------------------------------------------
(* What is heard.  The words that have left the card but not the FIFO are the*)
(* samples that follow the one heard last, and nothing else is on its way.   *)

\* Samples of the song that is heard, up to the newest one in the FIFO.
Written == heard[2] + Len(fifo)

Declared(e) == Dir[e].declared

\* The handler has words to fetch, or is at it.
Active == pc = "wait" /\ (irqena \/ isr # "idle")

\* The words of buf are the samples from the k-th on.
Continues(k) == \A i \in 1..Len(buf) : buf[i] = <<song, k + i>>

\* No read will bring another word.
Exhausted == ~opened \/ fptr >= fsize

\* The FIFO holds the samples behind the last one heard, of no other song and
\* none that was not promised.
QueueInv ==
    /\ heard[1] = 0 => heard[2] = 0 /\ fifo = <<>>
    /\ heard[1] # 0 => Written <= Declared(heard[1])
    /\ \A i \in 1..Len(fifo) : fifo[i] = <<heard[1], heard[2] + i>>
    /\ pc = "reset" => heard[1] = 0

\* When nobody works on the song any more, all of it is written or it was cut.
EndInv ==
    ~Active /\ pc \notin {"first", "fill", "arm"} =>
        cut \/ heard[1] = 0 \/ Written = Declared(heard[1])

\* Where play_wav is in the song that it starts.
StartInv ==
    /\ Active \/ pc \in {"first", "fill", "arm"} => heard[1] = song /\ song # 0
    /\ pc \in {"first", "fill"} => ~cut
    /\ pc \in {"stop", "drain"} /\ opened => fptr = HEADER
    /\ pc = "first" => /\ Written = 0 /\ Continues(0)
                       /\ opened => fptr = HEADER + Len(buf)
    /\ pc = "fill"  => /\ Written = pushed /\ Continues(0)
                       /\ opened /\ fptr = HEADER + FIRST
    /\ pc = "arm" /\ ~cut => Written = FIRST /\ opened /\ fptr = HEADER + FIRST
    /\ pc = "arm" /\ cut => Exhausted

\* Where the handler is in the song, as long as every read was in full ...
GoesOnInv ==
    Active /\ ~cut =>
        /\ isr # "push" => Written + left = Declared(song)
        /\ isr = "push" => Written - pushed + left = Declared(song)
        /\ isr # "read" => opened
        /\ isr \in {"idle", "next"} => fptr = HEADER + Written
        /\ isr = "read" => /\ opened => fptr = HEADER + Written + Len(buf)
                           /\ Continues(Written)
        /\ isr = "push" => /\ fptr = HEADER + Written - pushed + n
                           /\ Continues(Written - pushed)
        /\ isr \in {"read", "push"} /\ eof => n = left
        /\ isr = "next" /\ eof => left = 0

\* ... and after one that was not: no word follows.
CutInv ==
    Active /\ cut =>
        /\ Exhausted
        /\ isr = "read" => buf = <<>>
        /\ isr = "push" => n = 0

HeardInv == QueueInv /\ EndInv /\ StartInv /\ GoesOnInv /\ CutInv

-----------------------------------------------------------------------------
LEMMA HeardIsTyped ==
    ASSUME TypeOK
    PROVE  /\ heard[1] \in Files /\ heard[2] \in Int /\ heard = <<heard[1], heard[2]>>
           /\ fifo \in Seq(Samples) /\ Len(fifo) \in Nat /\ Written \in Int
           /\ buf \in Seq(Samples) /\ Len(buf) \in Nat
  <1>1. heard \in Files \X Int
    BY DEF TypeOK, Samples
  <1>2. heard[1] \in Files /\ heard[2] \in Int /\ heard = <<heard[1], heard[2]>>
    BY <1>1
  <1>3. fifo \in Seq(Samples) /\ buf \in Seq(Samples)
    BY DEF TypeOK, PcmTypeOK, FatTypeOK
  <1>. QED
    BY <1>2, <1>3 DEF Written

LEMMA DeclaredIsNat ==
    ASSUME NEW e \in Files, e # 0
    PROVE  e \in 1..Len(Dir) /\ Declared(e) \in Nat
  <1>1. e \in 1..Len(Dir)
    BY Sizes DEF Files
  <1>2. Dir[e] \in Entry
    BY <1>1, FatAssumption
  <1>. QED
    BY <1>1, <1>2 DEF Entry, Declared

\* A read that ends short has met the end of the file or an error.
LEMMA ShortReadExhausts ==
    ASSUME TypeOK, NEW k \in Nat, Len(buf) <= k, ~Reading(k), ~ReadInFull(k)
    PROVE  Exhausted
  <1>1. fsize \in Nat /\ fptr \in Nat /\ Len(buf) \in Nat
    BY FileSize DEF TypeOK, FatTypeOK
  <1>. QED
    BY <1>1 DEF Reading, ReadInFull, Exhausted

\* A pass of pf_read goes on where the one before stopped.
LEMMA SectorContinues ==
    ASSUME TypeOK, NEW k \in Nat, Len(buf) <= k, ReadGoesOn(k), UNCHANGED song,
           NEW c \in Int, Continues(c),
           opened => file = song /\ fptr = HEADER + c + Len(buf)
    PROVE  /\ \A i \in 1..Len(buf') : buf'[i] = <<song', c + i>>
           /\ opened' => fptr' = HEADER + c + Len(buf')
  <1>1. CASE ReadAborts(k)
    <2>1. opened' = FALSE /\ buf' = buf
      BY <1>1 DEF ReadAborts
    <2>. QED
      BY <2>1 DEF Continues
  <1>2. CASE ReadSector(k)
    <2>. DEFINE rcnt == Least(SECTOR - (fptr % SECTOR), Least(k - Len(buf), fsize - fptr))
    <2>1. fsize \in Nat /\ fptr \in Nat /\ Len(buf) \in Nat /\ buf \in Seq(Samples)
      BY FileSize DEF TypeOK, FatTypeOK
    <2>2. fptr % SECTOR \in 0..(SECTOR - 1)
      BY <2>1, Sizes
    <2>3. rcnt \in Nat
      BY <1>2, <2>1, <2>2, Sizes DEF Least, ReadSector, Reading
    <2>4. buf' = buf \o WordsHere(rcnt) /\ fptr' = fptr + rcnt
      BY <1>2 DEF ReadSector
    <2>. HIDE DEF rcnt
    <2>5. opened /\ file = song /\ fptr = HEADER + c + Len(buf)
      BY <1>2 DEF ReadSector, Reading
    <2>6. WordsHere(rcnt) = [i \in 1..rcnt |-> <<song, c + Len(buf) + i>>]
      BY <2>1, <2>5, Sizes DEF WordsHere
    <2>7. WordsHere(rcnt) \in Seq(Samples) /\ Len(WordsHere(rcnt)) = rcnt
      BY <2>1, <2>3, Sizes DEF WordsHere, Samples, TypeOK, FatTypeOK
    <2>. DEFINE w == WordsHere(rcnt)
    <2>. HIDE DEF w
    <2>8. /\ Len(buf') = Len(buf) + rcnt
          /\ \A i \in 1..(Len(buf) + rcnt) :
                buf'[i] = IF i <= Len(buf) THEN buf[i] ELSE w[i - Len(buf)]
      <3>1. w \in Seq(Samples) /\ Len(w) = rcnt /\ buf' = buf \o w
        BY <2>4, <2>7 DEF w
      <3>2. Len(buf \o w) = Len(buf) + Len(w)
        BY <2>1, <3>1, ConcatProperties
      <3>3. \A i \in 1..(Len(buf) + Len(w)) :
               (buf \o w)[i] = IF i <= Len(buf) THEN buf[i] ELSE w[i - Len(buf)]
        BY <2>1, <3>1, ConcatProperties
      <3>. QED
        BY <3>1, <3>2, <3>3
    <2>9. ASSUME NEW i \in 1..Len(buf')
          PROVE  buf'[i] = <<song', c + i>>
      <3>1. CASE i <= Len(buf)
        <4>1. buf'[i] = buf[i] /\ i \in 1..Len(buf)
          BY <2>1, <2>8, <3>1
        <4>. QED
          BY <4>1 DEF Continues
      <3>2. CASE i > Len(buf)
        <4>1. buf'[i] = WordsHere(rcnt)[i - Len(buf)]
          BY <2>1, <2>8, <3>2 DEF w
        <4>2. i - Len(buf) \in 1..rcnt /\ c + Len(buf) + (i - Len(buf)) = c + i
          BY <2>1, <2>3, <2>8, <3>2
        <4>. QED
          BY <2>6, <4>1, <4>2
      <3>. QED
        BY <2>1, <2>8, <3>1, <3>2
    <2>10. fptr' = HEADER + c + Len(buf')
      BY <2>1, <2>3, <2>4, <2>5, <2>8, Sizes
    <2>. QED
      BY <2>9, <2>10
  <1>. QED
    BY <1>1, <1>2 DEF ReadGoesOn

\* The next sample of the song that is heard, written while there is room.
LEMMA SampleFollows ==
    ASSUME TypeOK, QueueInv, ~fiforst, used < DEPTH, UNCHANGED heard,
           heard[1] # 0, Written < Declared(heard[1]), pc' # "reset",
           WriteFifo(<<heard[1], Written + 1>>)
    PROVE  QueueInv' /\ Written' = Written + 1
  <1>1. fifo' = Append(fifo, <<heard[1], Written + 1>>)
    BY Sizes DEF WriteFifo, full
  <1>2. /\ heard[1] \in Files /\ heard[2] \in Int /\ fifo \in Seq(Samples)
        /\ Len(fifo) \in Nat /\ Written \in Int /\ Declared(heard[1]) \in Nat
    BY HeardIsTyped, DeclaredIsNat
  <1>3. <<heard[1], Written + 1>> \in Samples
    BY <1>2 DEF Samples
  <1>4. Len(fifo') = Len(fifo) + 1 /\ fifo'[Len(fifo) + 1] = <<heard[1], Written + 1>>
        /\ \A i \in 1..Len(fifo) : fifo'[i] = fifo[i]
    BY <1>1, <1>2, <1>3, AppendProperties
  <1>5. Written' = Written + 1
    BY <1>2, <1>4 DEF Written
  <1>6. ASSUME NEW i \in 1..Len(fifo')
        PROVE  fifo'[i] = <<heard'[1], heard'[2] + i>>
    <2>1. CASE i \in 1..Len(fifo)
      BY <1>4, <2>1 DEF QueueInv
    <2>2. CASE i = Len(fifo) + 1
      BY <1>2, <1>4, <2>2 DEF Written
    <2>. QED
      BY <1>2, <1>4, <2>1, <2>2
  <1>7. Written' <= Declared(heard'[1])
    BY <1>2, <1>5
  <1>. QED
    BY <1>5, <1>6, <1>7 DEF QueueInv

\* Steps that fetch nothing: the main loop between two songs.
LEMMA QuietStep ==
    ASSUME HeardInv, UNCHANGED <<heard, cut, fifo>>, ~Active, ~Active',
           pc \notin {"first", "fill", "arm"},
           pc' \notin {"reset", "first", "fill", "arm"},
           pc' \in {"stop", "drain"} /\ opened' => fptr' = HEADER
    PROVE  HeardInv'
  <1>1. Written' = Written
    BY DEF Written
  <1>2. QueueInv'
    BY <1>1 DEF HeardInv, QueueInv
  <1>3. EndInv'
    BY <1>1 DEF HeardInv, EndInv
  <1>4. StartInv' /\ GoesOnInv' /\ CutInv'
    BY DEF StartInv, GoesOnInv, CutInv
  <1>. QED
    BY <1>2, <1>3, <1>4 DEF HeardInv

\* Steps of the audio clock, which leave the program where it is.
LEMMA ListeningStep ==
    ASSUME HeardInv, QueueInv', Written' = Written, heard'[1] = heard[1],
           UNCHANGED <<irqena, opened, file, fptr, buf, pc, song, isr, n, eof,
                       left, pushed, cut>>
    PROVE  HeardInv'
  <1>1. (Active' <=> Active) /\ (Exhausted' <=> Exhausted)
    BY DEF Active, Exhausted, fsize
  <1>2. EndInv'
    BY <1>1 DEF HeardInv, EndInv
  <1>3. StartInv'
    BY <1>1 DEF HeardInv, StartInv, Continues
  <1>4. GoesOnInv'
    BY <1>1 DEF HeardInv, GoesOnInv, Continues
  <1>5. CutInv'
    BY <1>1 DEF HeardInv, CutInv
  <1>. QED
    BY <1>2, <1>3, <1>4, <1>5 DEF HeardInv

LEMMA BetweenSongsHeard ==
    ASSUME IInv, HeardInv, isr = "idle", ~ins_irq,
           \/ PlayInit \/ MountChecked \/ LoadWallpaper \/ SetVolume
           \/ ReadDir \/ OpenWavDir \/ OpenSong \/ SongOpened \/ CheckHeader
           \/ Stop \/ SongOver
    PROVE  HeardInv'
  <1>1. UNCHANGED <<heard, cut, isrVars>>
    BY DEF PlayInit, MountChecked, LoadWallpaper, SetVolume, ReadDir, OpenWavDir, OpenSong,
           SongOpened, CheckHeader, Stop, SongOver
  <1>2. fifo' = fifo
    <2>1. CASE PlayInit
      BY <2>1 DEF PlayInit, HeardInv, QueueInv
    <2>2. CASE ~PlayInit
      BY <2>2 DEF MountChecked, LoadWallpaper, SetVolume, ReadDir, OpenWavDir, OpenSong,
                  SongOpened, CheckHeader, Stop, SongOver, WriteVolume, WriteStatus, pcmVars
    <2>. QED
      BY <2>1, <2>2
  <1>3. ~Active
    <2>1. CASE SongOver
      BY <2>1, DryMeansInterrupt DEF SongOver, PLAY, ins_irq, Active
    <2>2. CASE ~SongOver
      BY <2>2 DEF Active, PlayInit, MountChecked, LoadWallpaper, SetVolume, ReadDir,
                  OpenWavDir, OpenSong, SongOpened, CheckHeader, Stop
    <2>. QED
      BY <2>1, <2>2
  <1>4. pc \notin {"first", "fill", "arm"} /\ pc' \notin {"reset", "first", "fill", "arm"}
    BY DEF PlayInit, MountChecked, LoadWallpaper, SetVolume, ReadDir, OpenWavDir, OpenSong,
           SongOpened, CheckHeader, Stop, SongOver, Goto
  <1>5. ~Active'
    <2>1. CASE pc' = "wait"
      <3>1. SongOpened \/ CheckHeader
        BY <2>1 DEF PlayInit, MountChecked, LoadWallpaper, SetVolume, ReadDir, OpenWavDir,
                    OpenSong, Stop, SongOver, Goto
      <3>2. pc # "wait" /\ UNCHANGED pcmVars
        BY <3>1 DEF SongOpened, CheckHeader
      <3>. QED
        BY <1>1, <3>2 DEF IInv, MaskInv, Active, pcmVars, isrVars
    <2>2. CASE pc' # "wait"
      BY <2>2 DEF Active
    <2>. QED
      BY <2>1, <2>2
  <1>6. pc' \in {"stop", "drain"} /\ opened' => fptr' = HEADER
    <2>. SUFFICES ASSUME pc' \in {"stop", "drain"}, opened'
                  PROVE  fptr' = HEADER
      OBVIOUS
    <2>1. CheckHeader \/ Stop
      BY DEF PlayInit, MountChecked, LoadWallpaper, SetVolume, ReadDir, OpenWavDir,
             OpenSong, SongOpened, SongOver, Goto
    <2>2. CASE CheckHeader
      BY <2>2 DEF CheckHeader, Goto
    <2>3. CASE Stop
      BY <2>3 DEF Stop, HeardInv, StartInv, fatVars
    <2>. QED
      BY <2>1, <2>2, <2>3
  <1>. QED
    BY <1>1, <1>2, <1>3, <1>4, <1>5, <1>6, QuietStep

\* The FIFO has run dry, so the song before is over and the next one starts.
LEMMA DrainedHeard ==
    ASSUME IInv, HeardInv, isr = "idle", Drained
    PROVE  /\ HeardInv'
           /\ cut \/ heard[1] = 0 \/ heard[2] = Declared(heard[1])
  <1>1. /\ pc = "drain" /\ pc' = "first" /\ song' = song /\ heard' = <<song, 0>>
        /\ cut' = FALSE /\ buf' = <<>>
        /\ UNCHANGED <<opened, file, fptr, fifo, irqena, isr>>
    BY DEF Drained, Goto, ReadBegins, pcmVars, isrVars
  <1>2. TypeOK
    BY DEF IInv
  <1>3. Len(fifo) = 0 /\ fifo = <<>>
    <2>1. Len(fifo) = 0
      BY <1>2, HeardIsTyped DEF Drained, PLAY, used, TypeOK, PcmTypeOK
    <2>. QED
      BY <1>2, <2>1, HeardIsTyped, EmptySeq
  <1>4. song \in Files /\ song # 0 /\ Declared(song) \in Nat
    BY <1>1, <1>2, DeclaredIsNat DEF IInv, SongInv, TypeOK
  <1>5. heard'[1] = song /\ heard'[2] = 0 /\ Written' = 0 /\ Len(fifo') = 0
    BY <1>1, <1>3 DEF Written
  <1>6. QueueInv'
    BY <1>1, <1>4, <1>5 DEF QueueInv
  <1>7. ~Active' /\ EndInv' /\ GoesOnInv' /\ CutInv'
    BY <1>1 DEF Active, EndInv, GoesOnInv, CutInv
  <1>8. StartInv'
    <2>1. Len(buf') = 0 /\ Continues(0)'
      BY <1>1 DEF Continues
    <2>2. opened' => fptr' = HEADER + Len(buf')
      BY <1>1, <2>1, Sizes DEF HeardInv, StartInv
    <2>3. ~cut'
      BY <1>1
    <2>. QED
      BY <1>1, <1>4, <1>5, <1>7, <2>1, <2>2, <2>3 DEF StartInv
  <1>9. cut \/ heard[1] = 0 \/ heard[2] = Declared(heard[1])
    <2>1. Written = heard[2]
      BY <1>2, <1>3, HeardIsTyped DEF Written
    <2>. QED
      BY <1>1, <2>1 DEF HeardInv, EndInv, Active
  <1>. QED
    BY <1>6, <1>7, <1>8, <1>9 DEF HeardInv

LEMMA ReadFirstHeard ==
    ASSUME IInv, HeardInv, isr = "idle", ReadFirst
    PROVE  HeardInv' /\ UNCHANGED heard /\ cut' \in {cut, TRUE}
  <1>. /\ pc = "first" /\ UNCHANGED <<pcmVars, isrVars, left, heard, song>>
       /\ ~Active /\ Written = 0 /\ Written' = Written /\ ~cut
    BY DEF ReadFirst, Goto, mainVars, HeardInv, StartInv, Active, Written, pcmVars
  <1>1. TypeOK /\ Len(buf) <= FIRST
    BY DEF IInv, MainInv
  <1>2. CASE ReadGoesOn(FIRST) /\ UNCHANGED <<mainVars, pushed, cut>>
    <2>1. pc' = "first" /\ ~Active' /\ cut' = cut
      BY <1>2 DEF Active, mainVars
    <2>2. opened => file = song /\ fptr = HEADER + 0 + Len(buf)
      BY Sizes DEF IInv, MainInv, HeardInv, StartInv
    <2>3. /\ \A i \in 1..Len(buf') : buf'[i] = <<song', 0 + i>>
          /\ opened' => fptr' = HEADER + 0 + Len(buf')
      BY <1>1, <1>2, <2>2, SectorContinues, Sizes DEF HeardInv, StartInv
    <2>4. Continues(0)'
      BY <2>3 DEF Continues
    <2>5. opened' => fptr' = HEADER + Len(buf')
      BY <2>3, Sizes
    <2>6. QueueInv'
      BY <2>1 DEF HeardInv, QueueInv, pcmVars
    <2>7. StartInv'
      BY <2>1, <2>4, <2>5 DEF HeardInv, StartInv
    <2>8. EndInv' /\ GoesOnInv' /\ CutInv'
      BY <2>1 DEF EndInv, GoesOnInv, CutInv
    <2>. QED
      BY <2>1, <2>6, <2>7, <2>8 DEF HeardInv
  <1>3. CASE /\ ~Reading(FIRST)
             /\ pushed' = 0
             /\ cut' = (cut \/ ~ReadInFull(FIRST))
             /\ Goto(IF ReadInFull(FIRST) THEN "fill" ELSE "arm")
             /\ UNCHANGED fatVars
    <2>1. UNCHANGED <<opened, file, fptr, buf, fifo>> /\ (Exhausted' <=> Exhausted)
      BY <1>3 DEF fatVars, pcmVars, Exhausted, fsize
    <2>2. pc' \in {"fill", "arm"} /\ ~Active'
      BY <1>3 DEF Goto, Active
    <2>3. QueueInv'
      BY <2>1, <2>2 DEF HeardInv, QueueInv
    <2>4. EndInv' /\ GoesOnInv' /\ CutInv'
      BY <2>2 DEF EndInv, GoesOnInv, CutInv
    <2>5. CASE ReadInFull(FIRST)
      <3>1. pc' = "fill" /\ ~cut' /\ cut' = cut
        BY <1>3, <2>5 DEF Goto, IInv, TypeOK
      <3>2. opened' /\ fptr' = HEADER + FIRST /\ Written' = pushed'
        BY <1>3, <2>1, <2>5, Sizes DEF ReadInFull, HeardInv, StartInv
      <3>3. Continues(0)'
        BY <2>1 DEF HeardInv, StartInv, Continues
      <3>4. StartInv'
        BY <2>2, <3>1, <3>2, <3>3 DEF HeardInv, StartInv
      <3>. QED
        BY <2>3, <2>4, <3>1, <3>4 DEF HeardInv
    <2>6. CASE ~ReadInFull(FIRST)
      <3>1. pc' = "arm" /\ cut' = TRUE
        BY <1>3, <2>6 DEF Goto
      <3>2. Exhausted
        BY <1>1, <1>3, <2>6, ShortReadExhausts, Sizes
      <3>3. StartInv'
        BY <2>1, <2>2, <3>1, <3>2 DEF HeardInv, StartInv
      <3>. QED
        BY <2>3, <2>4, <3>1, <3>3 DEF HeardInv
    <2>. QED
      BY <2>5, <2>6
  <1>. QED
    BY <1>2, <1>3 DEF ReadFirst

LEMMA FillFirstHeard ==
    ASSUME IInv, HeardInv, isr = "idle", FillFirst
    PROVE  HeardInv' /\ UNCHANGED <<heard, cut>>
  <1>. /\ pc = "fill" /\ UNCHANGED <<fatVars, isrVars, left, heard, cut>>
       /\ pc' \in {"fill", "arm"} /\ song' = song /\ ~Active /\ ~Active' /\ ~cut
    BY DEF FillFirst, Goto, mainVars, HeardInv, StartInv, Active
  <1>1. TypeOK /\ Len(buf) = FIRST /\ pushed \in Nat /\ pushed <= FIRST
    BY Sizes DEF IInv, TypeOK, MainInv
  <1>2. /\ heard[1] = song /\ song # 0 /\ Written = pushed /\ Continues(0)
        /\ opened /\ fptr = HEADER + FIRST /\ QueueInv
    BY DEF HeardInv, StartInv
  <1>3. EndInv' /\ GoesOnInv' /\ CutInv'
    BY DEF EndInv, GoesOnInv, CutInv
  <1>4. UNCHANGED <<opened, file, fptr, buf>>
    BY DEF fatVars
  <1>5. CASE pushed < FIRST
    <2>1. /\ WriteFifo(buf[pushed + 1]) /\ pushed' = pushed + 1
          /\ pc' = "fill"
      BY <1>5 DEF FillFirst, mainVars
    <2>2. buf[pushed + 1] = <<heard[1], Written + 1>>
      BY <1>1, <1>2, <1>5, Sizes DEF Continues
    <2>3. ~fiforst /\ used < DEPTH
      BY <1>1, <1>5, Sizes DEF IInv, TypeOK, PcmTypeOK, MainInv, used
    <2>4. Written < Declared(heard[1])
      <3>1. FIRST <= Declared(song) /\ Declared(song) \in Nat
        BY <1>2, DeclaredIsNat, PlayerAssumption DEF IInv, TypeOK, SongInv, Declared
      <3>. QED
        BY <1>1, <1>2, <1>5, <3>1, Sizes
    <2>5. QueueInv' /\ Written' = Written + 1
      BY <1>1, <1>2, <2>1, <2>2, <2>3, <2>4, SampleFollows
    <2>6. StartInv'
      BY <1>1, <1>2, <1>4, <2>1, <2>5 DEF StartInv, Continues
    <2>. QED
      BY <1>3, <2>5, <2>6 DEF HeardInv
  <1>6. CASE ~(pushed < FIRST)
    <2>1. pc' = "arm" /\ UNCHANGED <<fifo, pushed>>
      BY <1>6 DEF FillFirst, Goto, pcmVars
    <2>2. Written' = Written /\ Written = FIRST
      BY <1>1, <1>2, <1>6, <2>1, Sizes DEF Written
    <2>3. QueueInv'
      BY <1>2, <2>1, <2>2 DEF QueueInv
    <2>4. StartInv'
      BY <1>1, <1>2, <1>4, <2>1, <2>2 DEF StartInv
    <2>. QED
      BY <1>3, <2>3, <2>4 DEF HeardInv
  <1>. QED
    BY <1>5, <1>6

LEMMA ArmHeard ==
    ASSUME IInv, HeardInv, isr = "idle", Arm
    PROVE  HeardInv' /\ UNCHANGED <<heard, cut>>
  <1>1. /\ pc = "arm" /\ pc' = "wait" /\ irqena' = TRUE /\ isr' = isr
        /\ left' = Declared(song) - FIRST
        /\ UNCHANGED <<opened, file, fptr, buf, fifo, song, heard, cut>>
    BY DEF Arm, Goto, WriteStatus, Declared, fatVars, isrVars
  <1>2. Active' /\ Written' = Written /\ (Exhausted' <=> Exhausted)
    BY <1>1 DEF Active, Written, Exhausted, fsize
  <1>3. heard[1] = song /\ song # 0
    BY <1>1 DEF HeardInv, StartInv
  <1>4. QueueInv' /\ EndInv'
    BY <1>1, <1>2 DEF HeardInv, QueueInv, EndInv
  <1>5. StartInv'
    BY <1>1, <1>3 DEF StartInv
  <1>6. GoesOnInv'
    <2>. SUFFICES ASSUME ~cut PROVE GoesOnInv'
      BY <1>1 DEF GoesOnInv
    <2>1. Written = FIRST /\ opened /\ fptr = HEADER + FIRST
      BY <1>1 DEF HeardInv, StartInv
    <2>2. Declared(song) \in Nat
      BY <1>3, DeclaredIsNat DEF IInv, TypeOK
    <2>3. Written' + left' = Declared(song')
      BY <1>1, <1>2, <2>1, <2>2, Sizes
    <2>. QED
      BY <1>1, <1>2, <2>1, <2>3 DEF GoesOnInv
  <1>7. CutInv'
    BY <1>1, <1>2 DEF HeardInv, StartInv, CutInv
  <1>. QED
    BY <1>1, <1>4, <1>5, <1>6, <1>7 DEF HeardInv

LEMMA IsrEnterHeard ==
    ASSUME IInv, HeardInv, IsrEnter
    PROVE  HeardInv' /\ UNCHANGED <<heard, cut>>
  <1>1. /\ isr = "idle" /\ irqena /\ isr' = "read" /\ n' = Least(left, CHUNK)
        /\ buf' = <<>> /\ eof' = (left <= CHUNK)
        /\ UNCHANGED <<opened, file, fptr, fifo, pc, song, left, pushed, heard, cut>>
    BY DEF IsrEnter, ins_irq, WriteStatus, ReadBegins, mainVars
  <1>2. pc = "wait" /\ Active /\ Active'
    BY <1>1 DEF IInv, MaskInv, Active
  <1>3. Written' = Written /\ (Exhausted' <=> Exhausted) /\ Len(buf') = 0
    BY <1>1 DEF Written, Exhausted, fsize
  <1>4. QueueInv' /\ EndInv' /\ StartInv'
    BY <1>1, <1>2, <1>3 DEF HeardInv, QueueInv, EndInv, StartInv
  <1>5. CutInv'
    BY <1>1, <1>2, <1>3 DEF HeardInv, CutInv
  <1>6. GoesOnInv'
    <2>. SUFFICES ASSUME ~cut PROVE GoesOnInv'
      BY <1>1 DEF GoesOnInv
    <2>1. opened /\ fptr = HEADER + Written /\ Written + left = Declared(song)
      BY <1>1, <1>2 DEF HeardInv, GoesOnInv
    <2>2. Written \in Int
      BY HeardIsTyped DEF IInv
    <2>3. fptr' = HEADER + Written' + Len(buf')
      BY <1>1, <1>3, <2>1, <2>2, Sizes
    <2>4. Continues(Written)'
      BY <1>3 DEF Continues
    <2>5. eof' => n' = left'
      <3>1. left \in Nat
        BY DEF IInv, TypeOK
      <3>2. left <= CHUNK => Least(left, CHUNK) = left
        BY <3>1, Sizes DEF Least
      <3>3. eof' => left <= CHUNK
        BY <1>1
      <3>. QED
        BY <1>1, <3>2, <3>3
    <2>6. Written' + left' = Declared(song')
      BY <1>1, <1>3, <2>1
    <2>. QED
      BY <1>1, <2>3, <2>4, <2>5, <2>6 DEF GoesOnInv
  <1>. QED
    BY <1>1, <1>4, <1>5, <1>6 DEF HeardInv

LEMMA IsrReadHeard ==
    ASSUME IInv, HeardInv, IsrRead
    PROVE  HeardInv' /\ UNCHANGED heard /\ cut' \in {cut, TRUE}
  <1>. /\ isr = "read" /\ pc = "wait" /\ pc' = pc /\ Active
       /\ UNCHANGED <<pcmVars, left, heard, song>> /\ Written' = Written
    BY DEF IsrRead, IInv, MaskInv, Active, mainVars, Written, pcmVars
  <1>1. TypeOK /\ n \in Nat /\ Len(buf) <= n /\ Len(buf) \in Nat /\ Written \in Int
    BY HeardIsTyped, Sizes DEF IInv, TypeOK, HandlerInv
  <1>2. QueueInv'
    BY DEF HeardInv, QueueInv, pcmVars
  <1>3. CASE ReadGoesOn(n) /\ UNCHANGED <<isrVars, pushed, cut>>
    <2>1. ~cut
      <3>1. Reading(n)
        BY <1>3 DEF ReadGoesOn, ReadSector, ReadAborts
      <3>2. fptr \in Nat /\ fsize \in Nat
        BY <1>1, FileSize DEF TypeOK, FatTypeOK
      <3>. QED
        BY <3>1, <3>2 DEF HeardInv, CutInv, Exhausted, Reading
    <2>2. Active' /\ UNCHANGED <<isr, n, eof, pushed, cut>> /\ ~cut'
      BY <1>3, <2>1 DEF Active, isrVars
    <2>3. /\ opened => file = song /\ fptr = HEADER + Written + Len(buf)
          /\ Continues(Written) /\ Written + left = Declared(song) /\ (eof => n = left)
      BY <2>1 DEF IInv, MainInv, HeardInv, GoesOnInv
    <2>4. PICK c \in Int : c = Written
      BY <1>1
    <2>5. /\ \A i \in 1..Len(buf') : buf'[i] = <<song', c + i>>
          /\ opened' => fptr' = HEADER + c + Len(buf')
      <3>1. Continues(c) /\ (opened => file = song /\ fptr = HEADER + c + Len(buf))
        BY <2>3, <2>4
      <3>. QED
        BY <1>1, <1>3, <3>1, SectorContinues
    <2>6. Continues(Written)' /\ (opened' => fptr' = HEADER + Written' + Len(buf'))
      BY <2>4, <2>5 DEF Continues
    <2>7. GoesOnInv'
      BY <2>2, <2>3, <2>6 DEF GoesOnInv
    <2>8. EndInv' /\ StartInv' /\ CutInv'
      BY <2>2 DEF HeardInv, EndInv, StartInv, CutInv
    <2>. QED
      BY <1>2, <2>2, <2>7, <2>8 DEF HeardInv
  <1>4. CASE /\ ~Reading(n)
             /\ pushed' = 0
             /\ IF ReadInFull(n)
                THEN isr' = "push" /\ UNCHANGED <<eof, cut>>
                ELSE isr' = "next" /\ eof' = TRUE /\ cut' = TRUE
             /\ UNCHANGED <<fatVars, n>>
    <2>1. UNCHANGED <<opened, file, fptr, buf, n>> /\ (Exhausted' <=> Exhausted)
      BY <1>4 DEF fatVars, Exhausted, fsize
    <2>2. Active' /\ isr' \in {"push", "next"}
      BY <1>4 DEF Active
    <2>3. EndInv' /\ StartInv'
      BY <2>2 DEF HeardInv, EndInv, StartInv
    <2>4. CASE ReadInFull(n)
      <3>1. isr' = "push" /\ pushed' = 0 /\ UNCHANGED <<eof, cut>> /\ opened /\ Len(buf) = n
        BY <1>4, <2>4 DEF ReadInFull
      <3>2. GoesOnInv'
        <4>. SUFFICES ASSUME ~cut PROVE GoesOnInv'
          BY <3>1 DEF GoesOnInv
        <4>1. /\ fptr = HEADER + Written + Len(buf) /\ Continues(Written)
              /\ Written + left = Declared(song) /\ (eof => n = left)
          BY <3>1 DEF HeardInv, GoesOnInv
        <4>2. fptr' = HEADER + Written' - pushed' + n'
          BY <1>1, <2>1, <3>1, <4>1, Sizes
        <4>3. Written' - pushed' = Written
          BY <1>1, <3>1
        <4>4. Continues(Written - pushed)'
          BY <2>1, <4>1, <4>3 DEF Continues
        <4>5. Written' - pushed' + left' = Declared(song')
          BY <4>1, <4>3
        <4>. QED
          BY <2>1, <3>1, <4>1, <4>2, <4>4, <4>5 DEF GoesOnInv
      <3>3. CutInv'
        BY <1>1, <2>1, <3>1 DEF HeardInv, CutInv
      <3>. QED
        BY <1>2, <2>3, <3>1, <3>2, <3>3 DEF HeardInv
    <2>5. CASE ~ReadInFull(n)
      <3>1. isr' = "next" /\ cut' = TRUE
        BY <1>4, <2>5
      <3>2. Exhausted
        BY <1>1, <1>4, <2>5, ShortReadExhausts
      <3>3. GoesOnInv' /\ CutInv'
        BY <2>1, <3>1, <3>2 DEF GoesOnInv, CutInv
      <3>. QED
        BY <1>2, <2>3, <3>1, <3>3 DEF HeardInv
    <2>. QED
      BY <2>4, <2>5
  <1>. QED
    BY <1>3, <1>4 DEF IsrRead

LEMMA IsrPushHeard ==
    ASSUME IInv, HeardInv, IsrPush
    PROVE  HeardInv' /\ UNCHANGED <<heard, cut>>
  <1>. /\ isr = "push" /\ pc = "wait" /\ pc' = pc /\ Active
       /\ UNCHANGED <<fatVars, song, heard, cut>>
    BY DEF IsrPush, IInv, MaskInv, Active, mainVars
  <1>1. /\ TypeOK /\ n \in Nat /\ left \in Nat /\ pushed \in Nat /\ Len(buf) = n
        /\ pushed <= n /\ n <= left /\ Written \in Int
    BY HeardIsTyped, Sizes DEF IInv, TypeOK, HandlerInv
  <1>2. heard[1] = song /\ song # 0 /\ QueueInv /\ Declared(song) \in Nat
    BY <1>1, DeclaredIsNat DEF HeardInv, StartInv, TypeOK
  <1>3. UNCHANGED <<opened, file, fptr, buf>> /\ (Exhausted' <=> Exhausted)
    BY DEF fatVars, Exhausted, fsize
  <1>4. CASE pushed < n
    <2>1. /\ WriteFifo(buf[pushed + 1]) /\ pushed' = pushed + 1
          /\ UNCHANGED <<isr, n, eof, left>> /\ Active'
      BY <1>4 DEF IsrPush, isrVars, Active
    <2>2. ~cut
      BY <1>1, <1>4 DEF HeardInv, CutInv
    <2>3. /\ Written - pushed + left = Declared(song) /\ opened
          /\ fptr = HEADER + Written - pushed + n
          /\ Continues(Written - pushed) /\ (eof => n = left)
      BY <2>2 DEF HeardInv, GoesOnInv
    <2>4. buf[pushed + 1] = <<heard[1], Written + 1>>
      <3>1. pushed + 1 \in 1..Len(buf) /\ (Written - pushed) + (pushed + 1) = Written + 1
        BY <1>1, <1>4
      <3>. QED
        BY <1>2, <2>3, <3>1 DEF Continues
    <2>5. ~fiforst /\ used < DEPTH
      BY <1>1, <1>4, Sizes DEF IInv, TypeOK, PcmTypeOK, HandlerInv, used
    <2>6. Written < Declared(heard[1])
      BY <1>1, <1>2, <1>4, <2>3
    <2>7. QueueInv' /\ Written' = Written + 1
      BY <1>1, <1>2, <2>1, <2>4, <2>5, <2>6, SampleFollows
    <2>8. Written' - pushed' = Written - pushed
      BY <1>1, <2>1, <2>7
    <2>9. GoesOnInv'
      <3>1. Continues(Written - pushed)'
        BY <1>3, <2>3, <2>8 DEF Continues
      <3>2. fptr' = HEADER + Written' - pushed' + n'
        BY <1>1, <1>3, <2>1, <2>3, <2>7, Sizes
      <3>3. Written' - pushed' + left' = Declared(song')
        BY <2>1, <2>3, <2>8
      <3>. QED
        BY <1>3, <2>1, <2>3, <3>1, <3>2, <3>3 DEF GoesOnInv
    <2>10. EndInv' /\ StartInv' /\ CutInv'
      BY <1>2, <2>1, <2>2 DEF EndInv, StartInv, CutInv
    <2>. QED
      BY <2>7, <2>9, <2>10 DEF HeardInv
  <1>5. CASE ~(pushed < n)
    <2>1. isr' = "next" /\ left' = left - n /\ UNCHANGED <<fifo, n, eof, pushed>> /\ Active'
      BY <1>5 DEF IsrPush, pcmVars, Active
    <2>2. Written' = Written /\ pushed = n
      BY <1>1, <1>5, <2>1 DEF Written
    <2>3. QueueInv'
      BY <1>2, <2>1, <2>2 DEF QueueInv
    <2>4. EndInv' /\ StartInv' /\ CutInv'
      BY <1>2, <1>3, <2>1 DEF HeardInv, EndInv, StartInv, CutInv
    <2>5. GoesOnInv'
      <3>. SUFFICES ASSUME ~cut PROVE GoesOnInv'
        BY DEF GoesOnInv
      <3>1. /\ Written - pushed + left = Declared(song) /\ opened
            /\ fptr = HEADER + Written - pushed + n /\ (eof => n = left)
        BY DEF HeardInv, GoesOnInv
      <3>2. Written' + left' = Declared(song')
        BY <1>1, <2>1, <2>2, <3>1
      <3>3. fptr' = HEADER + Written'
        BY <1>1, <1>3, <2>2, <3>1, Sizes
      <3>4. eof' => left' = 0
        BY <1>1, <2>1, <3>1
      <3>. QED
        BY <1>3, <2>1, <3>1, <3>2, <3>3, <3>4 DEF GoesOnInv
    <2>. QED
      BY <2>3, <2>4, <2>5 DEF HeardInv
  <1>. QED
    BY <1>4, <1>5

LEMMA IsrReturnHeard ==
    ASSUME IInv, HeardInv, IsrReturn
    PROVE  HeardInv' /\ UNCHANGED <<heard, cut>>
  <1>. /\ isr = "next" /\ isr' = "idle" /\ pc = "wait" /\ ~irqena /\ Active
       /\ UNCHANGED <<fatVars, pc, song, n, eof, pushed, heard, cut>>
    BY DEF IsrReturn, IInv, MaskInv, Active, mainVars
  <1>1. heard[1] = song /\ song # 0 /\ UNCHANGED <<opened, file, fptr, buf>>
        /\ (Exhausted' <=> Exhausted)
    BY DEF HeardInv, StartInv, fatVars, Exhausted, fsize
  <1>2. UNCHANGED fifo
    BY DEF IsrReturn, WriteStatus, pcmVars
  <1>3. Written' = Written /\ Written \in Int
    BY <1>2, HeardIsTyped DEF Written, IInv
  <1>4. QueueInv' /\ StartInv'
    BY <1>1, <1>2, <1>3 DEF HeardInv, QueueInv, StartInv
  <1>5. CASE eof
    <2>1. ~Active'
      BY <1>5 DEF IsrReturn, Active, pcmVars
    <2>2. cut \/ Written = Declared(song)
      <3>1. ~cut => Written + left = Declared(song) /\ left = 0
        BY <1>5 DEF HeardInv, GoesOnInv
      <3>. QED
        BY <1>3, <3>1
    <2>3. EndInv' /\ GoesOnInv' /\ CutInv'
      BY <1>1, <1>3, <2>1, <2>2 DEF EndInv, GoesOnInv, CutInv
    <2>. QED
      BY <1>4, <2>3 DEF HeardInv
  <1>6. CASE ~eof
    <2>1. Active' /\ left' = left
      BY <1>6 DEF IsrReturn, WriteStatus, Active
    <2>2. EndInv' /\ CutInv'
      BY <1>1, <2>1 DEF HeardInv, EndInv, CutInv
    <2>3. GoesOnInv'
      BY <1>1, <1>3, <2>1 DEF HeardInv, GoesOnInv
    <2>. QED
      BY <1>4, <2>2, <2>3 DEF HeardInv
  <1>. QED
    BY <1>5, <1>6

\* The word played is the sample behind the one heard last.
LEMMA PlayHeard ==
    ASSUME IInv, HeardInv, Play
    PROVE  /\ HeardInv' /\ UNCHANGED cut
           /\ heard[1] # 0 /\ heard[2] < Declared(heard[1])
           /\ heard' = <<heard[1], heard[2] + 1>>
  <1>1. /\ fifo # <<>> /\ fifo' = Tail(fifo) /\ heard' = Head(fifo)
        /\ UNCHANGED <<irqena, opened, file, fptr, buf, pc, song, isr, n, eof,
                       left, pushed, cut>>
    BY DEF Play, Consume, fatVars, mainVars, isrVars
  <1>2. /\ fifo \in Seq(Samples) /\ Len(fifo) \in Nat /\ heard[1] \in Files
        /\ heard[2] \in Int
    BY HeardIsTyped DEF IInv
  <1>3. /\ Len(fifo) > 0 /\ Head(fifo) = fifo[1] /\ Len(fifo') = Len(fifo) - 1
        /\ \A i \in 1..Len(fifo') : fifo'[i] = fifo[i + 1]
    BY <1>1, <1>2, HeadTailProperties
  <1>4. heard' = <<heard[1], heard[2] + 1>>
    BY <1>1, <1>2, <1>3 DEF HeardInv, QueueInv
  <1>5. heard'[1] = heard[1] /\ heard'[2] = heard[2] + 1 /\ heard[1] # 0
    BY <1>1, <1>4 DEF HeardInv, QueueInv
  <1>6. Written' = Written /\ Written \in Int /\ heard[2] < Written
    BY <1>2, <1>3, <1>5 DEF Written
  <1>7. Declared(heard[1]) \in Nat
    BY <1>2, <1>5, DeclaredIsNat
  <1>8. heard[2] < Declared(heard[1])
    BY <1>2, <1>5, <1>6, <1>7 DEF HeardInv, QueueInv
  <1>9. QueueInv'
    <2>1. ASSUME NEW i \in 1..Len(fifo')
          PROVE  fifo'[i] = <<heard'[1], heard'[2] + i>>
      <3>1. i + 1 \in 1..Len(fifo) /\ heard[2] + (i + 1) = heard'[2] + i
        BY <1>2, <1>3, <1>5
      <3>. QED
        BY <1>3, <1>5, <3>1 DEF HeardInv, QueueInv
    <2>. QED
      BY <1>1, <1>5, <1>6, <2>1 DEF HeardInv, QueueInv
  <1>. QED
    BY <1>1, <1>4, <1>5, <1>6, <1>8, <1>9, ListeningStep

LEMMA CatchHeard ==
    ASSUME HeardInv, Catch \/ Halted \/ UNCHANGED vars
    PROVE  HeardInv' /\ UNCHANGED <<heard, cut>>
  <1>1. UNCHANGED <<fifo, heard, irqena, opened, file, fptr, buf, pc, song, isr, n, eof,
                    left, pushed, cut>>
    BY DEF Catch, Synchronize, Halted, vars, pcmVars, fatVars, mainVars, isrVars
  <1>2. QueueInv' /\ Written' = Written
    BY <1>1 DEF HeardInv, QueueInv, Written
  <1>. QED
    BY <1>1, <1>2, ListeningStep

-----------------------------------------------------------------------------
LEMMA InitIsHeard == Init => HeardInv
  <1>. SUFFICES ASSUME Init PROVE HeardInv
    OBVIOUS
  <1>1. heard = <<0, 0>> /\ fifo = <<>> /\ pc = "reset" /\ isr = "idle"
    BY DEF Init, PcmInit
  <1>2. heard[1] = 0 /\ heard[2] = 0 /\ Len(fifo) = 0 /\ ~Active
    BY <1>1 DEF Active
  <1>3. QueueInv
    BY <1>1, <1>2 DEF QueueInv
  <1>. QED
    BY <1>1, <1>2, <1>3 DEF HeardInv, EndInv, StartInv, GoesOnInv, CutInv

\* Every step is one a listener was promised, or is not heard.
LEMMA StepIsHeard ==
    ASSUME IInv, HeardInv, [Next]_vars
    PROVE  HeardInv' /\ [Listener!Next]_<<heard, cut>>
  <1>1. CASE Main /\ Drained
    <2>1. HeardInv' /\ (cut \/ heard[1] = 0 \/ heard[2] = Declared(heard[1]))
      BY <1>1, DrainedHeard DEF Main
    <2>2. song \in 1..Len(Dir) /\ heard' = <<song, 0>> /\ cut' = FALSE
      BY <1>1 DEF Drained, IInv, SongInv
    <2>3. Listener!Finished \/ cut
      <3>1. CASE heard[1] # 0
        <4>1. heard[1] \in 1..Len(Dir)
          BY <3>1, HeardIsTyped, DeclaredIsNat DEF IInv
        <4>. QED
          BY <2>1, <3>1, <4>1 DEF Listener!Finished, Declared
      <3>2. CASE heard[1] = 0
        BY <3>2 DEF Listener!Finished, Listener!NoSong
      <3>. QED
        BY <3>1, <3>2
    <2>4. Listener!Start(song)
      BY <2>2, <2>3 DEF Listener!Start
    <2>. QED
      BY <2>1, <2>2, <2>4 DEF Listener!Next
  <1>2. CASE (Main /\ ReadFirst) \/ IsrRead
    <2>1. HeardInv' /\ UNCHANGED heard /\ cut' \in {cut, TRUE}
      BY <1>2, ReadFirstHeard, IsrReadHeard DEF Main
    <2>. QED
      BY <2>1 DEF Listener!Next, Listener!Cut
  <1>3. CASE Play
    <2>1. /\ HeardInv' /\ UNCHANGED cut
          /\ heard[1] # 0 /\ heard[2] < Declared(heard[1])
          /\ heard' = <<heard[1], heard[2] + 1>>
      BY <1>3, PlayHeard
    <2>2. heard[1] \in 1..Len(Dir) /\ Declared(heard[1]) \in Nat /\ heard[2] \in Int
      BY <2>1, HeardIsTyped, DeclaredIsNat DEF IInv
    <2>3. ~Listener!Finished
      BY <2>1, <2>2 DEF Listener!Finished, Listener!NoSong, Declared
    <2>. QED
      BY <2>1, <2>3 DEF Listener!Next, Listener!Hear
  <1>4. CASE IsrEnter \/ IsrPush \/ IsrReturn \/ Catch \/ Halted \/ UNCHANGED vars
    BY <1>4, IsrEnterHeard, IsrPushHeard, IsrReturnHeard, CatchHeard
  <1>5. CASE Main /\ (FillFirst \/ Arm)
    BY <1>5, FillFirstHeard, ArmHeard DEF Main
  <1>6. CASE Main /\ \/ PlayInit \/ MountChecked \/ LoadWallpaper \/ SetVolume
                     \/ ReadDir \/ OpenWavDir \/ OpenSong \/ SongOpened \/ CheckHeader
                     \/ Stop \/ SongOver
    <2>1. HeardInv'
      BY <1>6, BetweenSongsHeard DEF Main
    <2>2. UNCHANGED <<heard, cut>>
      BY <1>6 DEF PlayInit, MountChecked, LoadWallpaper, SetVolume, ReadDir, OpenWavDir,
                  OpenSong, SongOpened, CheckHeader, Stop, SongOver
    <2>. QED
      BY <2>1, <2>2
  <1>. QED
    BY <1>1, <1>2, <1>3, <1>4, <1>5, <1>6 DEF Next, Main, Isr

(* The two threads, the card and the audio clock together play what Playback *)
(* promises: the songs one after the other, every sample once and in order,  *)
(* each song in full unless its file could not be read.                      *)
THEOREM PlaysWhatIsPromised == Spec => ImplementsPlayback
  <1>1. Init => HeardInv /\ Listener!Init
    BY InitIsHeard DEF Init, Listener!Init, Listener!NoSong
  <1>2. IInv /\ HeardInv /\ [Next]_vars => HeardInv' /\ [Listener!Next]_<<heard, cut>>
    BY StepIsHeard
  <1>. QED
    BY <1>1, <1>2, PlayerInvariant, PTL DEF Spec, ImplementsPlayback, Listener!Spec

=============================================================================
