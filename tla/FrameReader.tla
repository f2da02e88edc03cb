------------------------------ MODULE FrameReader ------------------------------
(* peridot_vga_avm: reads a frame from memory, line by line and burst by     *)
(* burst, after each rise of framestart, as fast as the pixel FIFO has room. *)
(* A word of memory is named by its address, counted in words.               *)
EXTENDS Integers

CONSTANTS LINENUMBER,  \* lines
          TRANSCYCLE,  \* words of a line
          LINEWORDNUM, \* words from one line to the next in memory
          BURSTUNIT    \* longest burst: 2**BURSTCOUNT_WIDTH

ASSUME ReaderAssumption ==
    /\ {LINENUMBER, TRANSCYCLE, LINEWORDNUM, BURSTUNIT} \subseteq Nat \ {0}

VARIABLES fsSync,      \* cdb_fstart_reg, <<(0), (1), (2)>>
          avmState,    \* avm_state
          datacounter, transcounter, linecounter,
          lineaddr,    \* lineaddr_reg
          addr,        \* addr_reg
          memAddr      \* the word the memory returns next, 0 for none (the bus agent)

readerVars == <<fsSync, avmState, datacounter, transcounter, linecounter,
                lineaddr, addr, memAddr>>

BusStates == {"IDLE", "LINE_INIT", "READ_SETUP", "READ_START", "READ_ISSUE",
              "READ_DATA", "LINE_LOOP"}

\* The reset; the counters and addresses without one are set before use.
ReaderInit ==
    /\ fsSync = <<FALSE, FALSE, FALSE>>
    /\ avmState = "IDLE"
    /\ datacounter = 0 /\ transcounter = 0 /\ linecounter = 0
    /\ lineaddr = 0 /\ addr = 0 /\ memAddr = 0

framebegin == fsSync[2] /\ ~fsSync[3]

-----------------------------------------------------------------------------
(* The states of the bus master, one edge of csi_m1_clk each.                *)
Idle(framebuff_top) ==
    /\ avmState = "IDLE"
    /\ IF framebegin
       THEN /\ avmState' = "LINE_INIT"
            /\ lineaddr' = framebuff_top
            /\ linecounter' = LINENUMBER - 1
       ELSE UNCHANGED <<avmState, lineaddr, linecounter>>
    /\ UNCHANGED <<datacounter, transcounter, addr, memAddr>>

LineInitFault(fifo_ready) ==                      \* not held back by the reset
    /\ avmState = "LINE_INIT"
    /\ avmState' = "READ_SETUP"
    /\ transcounter' = TRANSCYCLE
    /\ addr' = lineaddr
    /\ lineaddr' = lineaddr + LINEWORDNUM
    /\ UNCHANGED <<datacounter, linecounter, memAddr>>

LineInit(fifo_ready) ==
    /\ avmState = "LINE_INIT"
    /\ IF fifo_ready
       THEN /\ avmState' = "READ_SETUP"
            /\ transcounter' = TRANSCYCLE
            /\ addr' = lineaddr
            /\ lineaddr' = lineaddr + LINEWORDNUM
       ELSE UNCHANGED <<avmState, transcounter, addr, lineaddr>>
    /\ UNCHANGED <<datacounter, linecounter, memAddr>>

ReadSetup ==
    /\ avmState = "READ_SETUP"
    /\ avmState' = "READ_START"
    /\ datacounter' = IF transcounter > BURSTUNIT THEN BURSTUNIT ELSE transcounter
    /\ UNCHANGED <<transcounter, linecounter, lineaddr, addr, memAddr>>

ReadStartFault(readdata_freedw) ==                \* room for one word more
    /\ avmState = "READ_START"
    /\ avmState' = IF readdata_freedw > datacounter THEN "READ_ISSUE" ELSE avmState
    /\ UNCHANGED <<datacounter, transcounter, linecounter, lineaddr, addr, memAddr>>

ReadStart(readdata_freedw) ==
    /\ avmState = "READ_START"
    /\ avmState' = IF readdata_freedw >= datacounter THEN "READ_ISSUE" ELSE avmState
    /\ UNCHANGED <<datacounter, transcounter, linecounter, lineaddr, addr, memAddr>>

\* The memory takes the request, address and burst length.
ReadIssue(stall) ==
    /\ avmState = "READ_ISSUE"
    /\ IF stall THEN UNCHANGED <<avmState, memAddr>>
                ELSE avmState' = "READ_DATA" /\ memAddr' = addr
    /\ UNCHANGED <<datacounter, transcounter, linecounter, lineaddr, addr>>

readdata_valid(stall) == avmState = "READ_DATA" /\ ~stall

ReadData(stall) ==
    /\ avmState = "READ_DATA"
    /\ IF stall
       THEN UNCHANGED <<avmState, datacounter, transcounter, memAddr>>
       ELSE /\ avmState' = IF datacounter = 1 THEN "LINE_LOOP" ELSE avmState
            /\ datacounter' = datacounter - 1
            /\ transcounter' = transcounter - 1
            /\ memAddr' = IF datacounter = 1 THEN 0 ELSE memAddr + 1
    /\ UNCHANGED <<linecounter, lineaddr, addr>>

LineLoop ==
    /\ avmState = "LINE_LOOP"
    /\ IF transcounter # 0
       THEN avmState' = "READ_SETUP" /\ UNCHANGED linecounter
       ELSE IF linecounter # 0
       THEN avmState' = "LINE_INIT" /\ linecounter' = linecounter - 1
       ELSE avmState' = "IDLE" /\ UNCHANGED linecounter
    /\ addr' = addr + BURSTUNIT
    /\ UNCHANGED <<datacounter, transcounter, lineaddr, memAddr>>

ReaderEdge(start, framebuff_top, fifo_ready, readdata_freedw, stall) ==
    /\ fsSync' = <<start, fsSync[1], fsSync[2]>>
    /\ \/ Idle(framebuff_top)
       \/ LineInit(fifo_ready)
       \/ ReadSetup
       \/ ReadStart(readdata_freedw)
       \/ ReadIssue(stall)
       \/ ReadData(stall)
       \/ LineLoop

-----------------------------------------------------------------------------
ReaderTypeOK ==
    /\ fsSync \in BOOLEAN \X BOOLEAN \X BOOLEAN
    /\ avmState \in BusStates
    /\ datacounter \in 0..BURSTUNIT
    /\ transcounter \in 0..TRANSCYCLE
    /\ linecounter \in 0..(LINENUMBER - 1)
    /\ lineaddr \in Nat /\ addr \in Nat /\ memAddr \in Nat

=============================================================================
