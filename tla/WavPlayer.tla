------------------------------- MODULE WavPlayer ------------------------------
(* The wavplayer program: the main loop, which opens one song after the other*)
(* and waits until the FIFO has run dry, and the interrupt handler, which    *)
(* reads the rest of the song from the card.  Both call Petit FatFs, whose   *)
(* file object is shared, and both write the registers of the peripheral;    *)
(* the audio clock empties the FIFO meanwhile.                               *)
(*                                                                           *)
(* The processor takes an enabled interrupt before the next instruction, so  *)
(* the main loop only steps while no interrupt is pending, and the handler is*)
(* not interrupted.                                                          *)
EXTENDS PcmFifo, PetitFat

CONSTANTS CHUNK,        \* words the handler asks for: 256
          FIRST         \* words of the first read: 468 / 4

ASSUME PlayerAssumption ==
    /\ CHUNK \in Nat /\ 0 < CHUNK /\ CHUNK <= AMOSTEMPTY
    /\ FIRST \in Nat /\ HEADER + FIRST = SECTOR /\ FIRST < DEPTH
    /\ \A e \in 1..Len(Dir) : Dir[e].supported => Dir[e].declared >= FIRST

VARIABLES pc,           \* where the main loop is
          isr,          \* where the interrupt handler is
          left,         \* g_wavleft
          n, eof,       \* locals of the handler
          pushed,       \* words of buf already written to the FIFO
          song,         \* the entry whose name is in playfile
          heard, cut    \* what a listener has heard (observers)

mainVars == <<pc, song>>
isrVars  == <<isr, n, eof>>
vars == <<pcmVars, fatVars, mainVars, isrVars, left, pushed, heard, cut>>

Init ==
    /\ PcmInit /\ FatInit
    /\ pc = "reset" /\ song = 0
    /\ isr = "idle" /\ n = 0 /\ eof = FALSE
    /\ left = 0 /\ pushed = 0
    /\ heard = <<0, 0>> /\ cut = FALSE

Goto(label) == pc' = label /\ UNCHANGED song

-----------------------------------------------------------------------------
(* play_init: mute, mask, hold the FIFO in reset.                            *)
PlayInit ==
    /\ pc = "reset" /\ Goto("mount")
    /\ irqena' = FALSE /\ fiforst' = TRUE /\ mute' = TRUE
    /\ fifo' = <<>> /\ unseen' = 0
    /\ left' = 0
    /\ UNCHANGED <<fatVars, isrVars, pushed, heard, cut>>

(* The result of pf_mount is looked at, then loadbmp opens the bitmap and    *)
(* reads it: a failed row ends the picture, but not the program.             *)
MountChecked ==
    /\ pc = "mount"
    /\ \/ DiskWorks /\ Goto("wallpaper")
       \/ DiskFails /\ Goto("halted")
    /\ UNCHANGED <<opened, file, fptr, dirPos, buf>>
    /\ UNCHANGED <<pcmVars, isrVars, left, pushed, heard, cut>>

LoadWallpaper ==
    /\ pc = "wallpaper"
    /\ \/ OpenSucceeds(WALLPAPER) /\ Goto("volume")
       \/ /\ DiskFails /\ opened' = FALSE
          /\ Goto("volume") \/ Goto("halted")
          /\ UNCHANGED <<file, fptr, dirPos, buf>>
    /\ UNCHANGED <<pcmVars, isrVars, left, pushed, heard, cut>>

SetVolume ==
    /\ pc = "volume" /\ Goto("pick")
    /\ WriteVolume(FALSE)
    /\ UNCHANGED <<fatVars, isrVars, left, pushed, heard, cut>>

-----------------------------------------------------------------------------
(* get_wavfilename: one pf_readdir.  Dot entries, directories and other files*)
(* are passed over; the end and an error both mean a new pf_opendir.         *)
IsSong(e) == Dir[e].kind = "wav"

ReadDir ==
    /\ pc = "pick"
    /\ \/ /\ EndOfDir /\ dirPos' = 0 /\ DiskWorks
          /\ Goto("opendir")
       \/ /\ dirPos # 0 /\ DiskFails /\ dirPos' = 0
          /\ Goto("opendir")
       \/ /\ ~EndOfDir /\ DiskWorks /\ dirPos' = dirPos + 1
          /\ IF IsSong(dirPos) THEN pc' = "open" /\ song' = dirPos
                               ELSE Goto("pick")
    /\ UNCHANGED <<opened, file, fptr, buf>>
    /\ UNCHANGED <<pcmVars, isrVars, left, pushed, heard, cut>>

OpenWavDir ==
    /\ pc = "opendir"
    /\ OpenDir
    /\ Goto(IF dirPos' = 0 THEN "halted" ELSE "pick")
    /\ UNCHANGED <<opened, file, fptr, buf>>
    /\ UNCHANGED <<pcmVars, isrVars, left, pushed, heard, cut>>

-----------------------------------------------------------------------------
(* play_wav.  Its result is not looked at: after an error the main loop waits*)
(* for the end of a song that was not started.                               *)
OpenSong ==
    /\ pc = "open" /\ Goto("opening")
    /\ OpenBegins
    /\ UNCHANGED <<pcmVars, isrVars, left, pushed, heard, cut>>

SongOpened ==
    /\ pc = "opening"
    /\ \/ OpenSucceeds(song) /\ Goto("header")
       \/ OpenFails /\ Goto("wait")
    /\ UNCHANGED <<pcmVars, isrVars, left, pushed, heard, cut>>

CheckHeader ==
    /\ pc = "header"
    /\ \/ /\ DiskWorks /\ fptr' = HEADER /\ UNCHANGED opened
          /\ Goto(IF Dir[song].supported THEN "stop" ELSE "wait")
       \/ /\ DiskFails /\ opened' = FALSE /\ UNCHANGED fptr
          /\ Goto("wait")
    /\ UNCHANGED <<file, dirPos, buf>>
    /\ UNCHANGED <<pcmVars, isrVars, left, pushed, heard, cut>>

(* play_stop: mask, forget the rest of the song, wait until the FIFO has run *)
(* dry.  The write also releases the FIFO from reset.                        *)
StopFault ==                                  \* lets the handler in at once
    /\ pc = "stop" /\ Goto("drain")
    /\ WriteStatus(TRUE, FALSE)
    /\ left' = 0
    /\ UNCHANGED <<fatVars, isrVars, pushed, heard, cut>>

Stop ==
    /\ pc = "stop" /\ Goto("drain")
    /\ WriteStatus(FALSE, FALSE)
    /\ left' = 0
    /\ UNCHANGED <<fatVars, isrVars, pushed, heard, cut>>

Drained ==
    /\ pc = "drain" /\ ~PLAY /\ Goto("first")
    /\ ReadBegins
    /\ heard' = <<song, 0>> /\ cut' = FALSE
    /\ UNCHANGED <<pcmVars, isrVars, left, pushed>>

(* The rest of the first sector, so that the handler reads whole sectors.    *)
ReadFirst ==
    /\ pc = "first"
    /\ \/ ReadGoesOn(FIRST) /\ UNCHANGED <<mainVars, pushed, cut>>
       \/ /\ ~Reading(FIRST)
          /\ pushed' = 0
          /\ cut' = (cut \/ ~ReadInFull(FIRST))
          /\ Goto(IF ReadInFull(FIRST) THEN "fill" ELSE "arm")
          /\ UNCHANGED fatVars
    /\ UNCHANGED <<pcmVars, isrVars, left, heard>>

FillFirst ==
    /\ pc = "fill"
    /\ IF pushed < FIRST
       THEN /\ WriteFifo(buf[pushed + 1]) /\ pushed' = pushed + 1
            /\ UNCHANGED mainVars
       ELSE /\ Goto("arm")
            /\ UNCHANGED <<pcmVars, pushed>>
    /\ UNCHANGED <<fatVars, isrVars, left, heard, cut>>

Arm ==
    /\ pc = "arm" /\ Goto("wait")
    /\ left' = Dir[song].declared - FIRST
    /\ WriteStatus(TRUE, FALSE)
    /\ UNCHANGED <<fatVars, isrVars, pushed, heard, cut>>

(* while( play_status() )                                                    *)
SongOver ==
    /\ pc = "wait" /\ ~PLAY /\ Goto("pick")
    /\ UNCHANGED <<pcmVars, fatVars, isrVars, left, pushed, heard, cut>>

Main ==
    /\ isr = "idle" /\ ~ins_irq
    /\ \/ PlayInit \/ MountChecked \/ LoadWallpaper \/ SetVolume
       \/ ReadDir \/ OpenWavDir
       \/ OpenSong \/ SongOpened \/ CheckHeader
       \/ Stop \/ Drained \/ ReadFirst \/ FillFirst \/ Arm
       \/ SongOver

\* The program has given up: while(1).
Halted == pc = "halted" /\ UNCHANGED vars

-----------------------------------------------------------------------------
(* isr_handle_pcmfifofill.                                                   *)
IsrEnterFault ==                              \* asks for CHUNK words always
    /\ isr = "idle" /\ ins_irq
    /\ isr' = "read"
    /\ WriteStatus(FALSE, FALSE)
    /\ eof' = (left <= CHUNK)
    /\ n' = CHUNK
    /\ ReadBegins
    /\ UNCHANGED <<mainVars, left, pushed, heard, cut>>

IsrEnter ==
    /\ isr = "idle" /\ ins_irq
    /\ isr' = "read"
    /\ WriteStatus(FALSE, FALSE)
    /\ eof' = (left <= CHUNK)
    /\ n' = Least(left, CHUNK)
    /\ ReadBegins
    /\ UNCHANGED <<mainVars, left, pushed, heard, cut>>

IsrRead ==
    /\ isr = "read"
    /\ \/ ReadGoesOn(n) /\ UNCHANGED <<isrVars, pushed, cut>>
       \/ /\ ~Reading(n)
          /\ pushed' = 0
          /\ IF ReadInFull(n)
             THEN isr' = "push" /\ UNCHANGED <<eof, cut>>
             ELSE isr' = "next" /\ eof' = TRUE /\ cut' = TRUE
          /\ UNCHANGED <<fatVars, n>>
    /\ UNCHANGED <<pcmVars, mainVars, left, heard>>

IsrPush ==
    /\ isr = "push"
    /\ IF pushed < n
       THEN /\ WriteFifo(buf[pushed + 1]) /\ pushed' = pushed + 1
            /\ UNCHANGED <<isrVars, left>>
       ELSE /\ isr' = "next" /\ left' = left - n
            /\ UNCHANGED <<pcmVars, n, eof, pushed>>
    /\ UNCHANGED <<fatVars, mainVars, heard, cut>>

IsrReturnFault ==                             \* always ready for the next
    /\ isr = "next"
    /\ isr' = "idle"
    /\ left' = IF eof THEN 0 ELSE left
    /\ WriteStatus(TRUE, FALSE)
    /\ UNCHANGED <<fatVars, mainVars, n, eof, pushed, heard, cut>>

IsrReturn ==
    /\ isr = "next"
    /\ isr' = "idle"
    /\ IF eof THEN left' = 0 /\ UNCHANGED pcmVars
              ELSE WriteStatus(TRUE, FALSE) /\ UNCHANGED left
    /\ UNCHANGED <<fatVars, mainVars, n, eof, pushed, heard, cut>>

Isr == IsrEnter \/ IsrRead \/ IsrPush \/ IsrReturn

-----------------------------------------------------------------------------
(* The audio clock.                                                          *)
Play ==
    /\ Consume
    /\ heard' = Head(fifo)
    /\ UNCHANGED <<fatVars, mainVars, isrVars, left, pushed, cut>>

Catch ==
    /\ Synchronize
    /\ UNCHANGED <<fatVars, mainVars, isrVars, left, pushed, heard, cut>>

Next == Main \/ Halted \/ Isr \/ Play \/ Catch

Spec == Init /\ [][Next]_vars

(* The processor and both clocks run on.                                     *)
FairSpec == Spec /\ WF_vars(Main) /\ WF_vars(Isr) /\ WF_vars(Play) /\ WF_vars(Catch)

-----------------------------------------------------------------------------
Labels    == {"reset", "mount", "wallpaper", "volume", "pick", "opendir",
              "open", "opening", "header", "stop", "drain", "first", "fill",
              "arm", "wait", "halted"}
IsrLabels == {"idle", "read", "push", "next"}

TypeOK ==
    /\ PcmTypeOK(Samples) /\ FatTypeOK
    /\ pc \in Labels /\ song \in Files
    /\ isr \in IsrLabels /\ n \in 0..CHUNK /\ eof \in BOOLEAN
    /\ left \in Nat /\ pushed \in 0..SECTOR + CHUNK
    /\ heard \in Samples /\ cut \in BOOLEAN

(* Nobody looks at the level while writing: the room for all the words of a  *)
(* chunk is known from the interrupt condition at the entry of the handler,  *)
(* a whole card read earlier.  No word written is lost.                      *)
RoomForChunk ==
    /\ isr = "push" => ~fiforst /\ used + (n - pushed) <= DEPTH
    /\ pc = "fill"  => ~fiforst /\ used + (FIRST - pushed) <= DEPTH

(* Petit FatFs is not reentrant and nothing locks it: the handler reads only *)
(* while the main loop does nothing but look at the status, and from the song*)
(* that play_wav opened.                                                     *)
FatFsExclusive ==
    irqena \/ isr # "idle" => pc = "wait" /\ (opened => file = song)

(* The main loop takes an empty FIFO for the end of the song, although a late*)
(* card empties it as well.  It is not misled: when it goes on, the handler  *)
(* has nothing left to read and will not run again.                          *)
WaitEndsWithTheSong ==
    [][pc = "wait" /\ pc' = "pick" =>
          left = 0 /\ ~irqena /\ fifo = <<>>]_vars

(* What is heard is what was promised, whatever the card does.               *)
Listener == INSTANCE Playback
    WITH Songs <- 1..Len(Dir), Length <- [e \in 1..Len(Dir) |-> Dir[e].declared]
ImplementsPlayback == Listener!Spec

(* Once the card has stopped failing, either the program has given up at the *)
(* directory, or there is always another song.                               *)
MusicGoesOn == <>(pc = "halted") \/ []<>(pc = "fill")

=============================================================================
