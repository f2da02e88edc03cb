------------------------------- MODULE PetitFat -------------------------------
(* The part of Petit FatFs that the wavplayer uses.  There is one file       *)
(* object, FatFs, shared by all callers: pf_open replaces the file under     *)
(* everybody, and a failed sector read closes it.  A file is counted in      *)
(* words of four bytes.                                                      *)
EXTENDS Integers, Sequences

CONSTANTS SECTOR,       \* words in a sector
          HEADER,       \* words before the samples of a WAV file
          Dir,          \* the entries of the directory
          MaxFaults     \* bound on the sector reads that fail

Entry == [kind      : {"wav", "other", "dir", "dot"},
          supported : BOOLEAN,    \* the header passes the checks of play_wav
          declared  : Nat,        \* samples the header promises
          present   : Nat]        \* samples the file really holds

ASSUME FatAssumption ==
    /\ SECTOR \in Nat /\ HEADER \in Nat /\ HEADER < SECTOR
    /\ Dir \in Seq(Entry)
    /\ MaxFaults \in Nat

VARIABLES opened,       \* FatFs->flag: FA_OPENED
          file,         \* which entry is open
          fptr,         \* FatFs->fptr
          dirPos,       \* the DIR object: next entry, or 0 once it has ended
          buf,          \* the words read by the current pf_read
          faults        \* sector reads that may still fail

fatVars == <<opened, file, fptr, dirPos, buf, faults>>

WALLPAPER == 0          \* the bitmap, the only file that is not in Dir
Files     == 0..Len(Dir)

FatInit ==
    /\ opened = FALSE
    /\ file = WALLPAPER
    /\ fptr = 0
    /\ dirPos = 0
    /\ buf = <<>>
    /\ faults = MaxFaults

-----------------------------------------------------------------------------
Least(a, b) == IF a < b THEN a ELSE b

fsize == IF file = WALLPAPER THEN 0 ELSE HEADER + Dir[file].present

\* The data words from the file pointer on: sample k of a file is <<file, k>>.
Samples == Files \X Int
WordsHere(count) == [i \in 1..count |-> <<file, fptr - HEADER + i>>]

DiskFails == faults > 0 /\ faults' = faults - 1
DiskWorks == UNCHANGED faults

-----------------------------------------------------------------------------
(* pf_open: the old file is closed before the path is followed.              *)
OpenBegins ==
    /\ opened' = FALSE
    /\ UNCHANGED <<file, fptr, dirPos, buf, faults>>

OpenSucceeds(entry) ==
    /\ opened' = TRUE
    /\ file' = entry
    /\ fptr' = 0
    /\ DiskWorks
    /\ UNCHANGED <<dirPos, buf>>

OpenFails == DiskFails /\ UNCHANGED <<opened, file, fptr, dirPos, buf>>

(* pf_read of n words, entered with nothing read: each pass takes what one   *)
(* sector holds, and ABORT closes the file when the disk fails.              *)
ReadBegins == buf' = <<>> /\ UNCHANGED <<opened, file, fptr, dirPos, faults>>

Reading(n) == opened /\ Len(buf) < n /\ fptr < fsize

ReadSector(n) ==
    /\ Reading(n)
    /\ DiskWorks
    /\ LET rcnt == Least(SECTOR - (fptr % SECTOR),
                         Least(n - Len(buf), fsize - fptr))
       IN  /\ buf' = buf \o WordsHere(rcnt)
           /\ fptr' = fptr + rcnt
    /\ UNCHANGED <<opened, file, dirPos>>

ReadAborts(n) ==
    /\ Reading(n)
    /\ DiskFails
    /\ opened' = FALSE
    /\ UNCHANGED <<file, fptr, dirPos, buf>>

ReadGoesOn(n) == ReadSector(n) \/ ReadAborts(n)

\* res == FR_OK and readsize as asked, once ~Reading(n).
ReadInFull(n) == opened /\ Len(buf) = n

-----------------------------------------------------------------------------
(* pf_opendir, and pf_readdir: at the end, after an error and before the     *)
(* first pf_opendir the DIR object has no sector, and yields the empty name. *)
OpenDir ==
    \/ DiskWorks /\ dirPos' = 1
    \/ DiskFails /\ UNCHANGED dirPos

EndOfDir == dirPos = 0 \/ dirPos > Len(Dir)

-----------------------------------------------------------------------------
FatTypeOK ==
    /\ opened \in BOOLEAN /\ file \in Files /\ fptr \in Nat
    /\ dirPos \in 0..(Len(Dir) + 1) /\ faults \in 0..MaxFaults
    /\ buf \in Seq(Samples)

=============================================================================
