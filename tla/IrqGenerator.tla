---------------------------- MODULE IrqGenerator ----------------------------
(***************************************************************************)
(* example_tb/core/cv32e40p_random_interrupt_generator.sv with the two     *)
(* registers of mm_ram.sv that command it: reg.mode (RND_STALL_REG_10) and *)
(* reg.lines (RND_STALL_REG_14).  One step is one clock edge.  The         *)
(* processes run at the edge and see the registers before it; a process    *)
(* that waits for a mode goes on as soon as irq_mode_q has changed, after  *)
(* the edge.  irq_lines_q and the processes run in either order, so it     *)
(* takes the lines from before or from after theirs.                       *)
(* The mode PC_TRIG, which no test selects, is left out.                   *)
(***************************************************************************)
EXTENDS IntController

CONSTANTS
  IRQ_MIN_ID, IRQ_MAX_ID,   (* the lines of random words (mm_ram.sv) *)
  Lines,                    (* the lines a run uses *)
  MinCycles, MaxCycles      (* the bounds of the random delay *)

ASSUME GeneratorAssumption ==
  /\ Lines \subseteq IRQ_MASK
  /\ MinCycles \in Nat /\ MaxCycles \in Nat /\ MinCycles <= MaxCycles

VARIABLES reg, irq_mode_q, irq_lines_q,
          irq_sd_lines, sd_process, irq_rnd_lines, rnd_process

generatorVars == << irq_mode_q, irq_lines_q,
                    irq_sd_lines, sd_process, irq_rnd_lines, rnd_process >>

STANDARD == 1
RANDOM == 2
SOFTWARE_DEFINED == 4

RandomWords ==
  SUBSET {id \in Lines : IRQ_MIN_ID <= id /\ id <= IRQ_MAX_ID} \ {{}}

GeneratorInit ==
  /\ irq_mode_q = 0 /\ irq_lines_q = {}
  /\ irq_sd_lines = {} /\ sd_process = "wait_mode"
  /\ irq_rnd_lines = {} /\ rnd_process = [at |-> "clock"]

(* The process samples in every clock that starts with a line requested,   *)
(* and in the one after: it reads the register before the write is seen.   *)
SdProcess ==
  LET loop(lines) == IF lines # {} THEN "sample" ELSE "clock"
      entered == IF irq_mode_q' = SOFTWARE_DEFINED THEN loop(reg'.lines)
                 ELSE "wait_mode"
  IN /\ irq_sd_lines' = IF sd_process = "sample" THEN reg.lines \cap Lines
                        ELSE irq_sd_lines
     /\ sd_process' =
          IF sd_process = "sample"
             \/ (sd_process = "clock" /\ irq_mode_q = SOFTWARE_DEFINED)
          THEN loop(reg.lines)
          ELSE entered

(* A random word is drawn in mode RANDOM, raised after the delay and held  *)
(* until the mode is STANDARD.                                             *)
Draw ==
  /\ rnd_process.at \in {"clock", "wait_mode"}
  /\ IF RANDOM \in {irq_mode_q, irq_mode_q'}
     THEN \E word \in RandomWords, n \in MinCycles .. MaxCycles :
            rnd_process' = [at |-> "delay", n |-> n, word |-> word]
     ELSE rnd_process' = [at |-> "wait_mode"]
  /\ UNCHANGED irq_rnd_lines

Delay ==
  /\ rnd_process.at = "delay" /\ rnd_process.n > 0
  /\ rnd_process' = [rnd_process EXCEPT !.n = @ - 1]
  /\ UNCHANGED irq_rnd_lines

Raising == rnd_process.at = "delay" /\ rnd_process.n = 0

Raise ==
  /\ Raising
  /\ IF STANDARD \in {irq_mode_q, irq_mode_q'}
     THEN irq_rnd_lines' = {} /\ rnd_process' = [at |-> "clock"]
     ELSE /\ irq_rnd_lines' = rnd_process.word
          /\ rnd_process' = [at |-> "wait_standard"]

HoldUntilStandard ==
  /\ rnd_process.at = "wait_standard"
  /\ IF irq_mode_q' = STANDARD
     THEN irq_rnd_lines' = {} /\ rnd_process' = [at |-> "clock"]
     ELSE UNCHANGED << irq_rnd_lines, rnd_process >>

irq_lines_n ==
  CASE irq_mode_q = RANDOM ->
         {irq_rnd_lines} \cup IF Raising THEN {rnd_process.word} ELSE {}
    [] irq_mode_q = SOFTWARE_DEFINED -> {irq_sd_lines, irq_sd_lines'}
    [] OTHER -> {{}}

GeneratorClock ==
  /\ irq_mode_q' = reg.mode
  /\ SdProcess
  /\ Draw \/ Delay \/ Raise \/ HoldUntilStandard
  /\ irq_lines_q' \in irq_lines_n
==============================================================================
