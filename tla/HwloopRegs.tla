----------------------------- MODULE HwloopRegs -----------------------------
(***************************************************************************)
(* rtl/cv32e40p_hwloop_regs.sv: start address, end address and count of    *)
(* the two hardware loops.  The counter has COUNT values and wraps.        *)
(***************************************************************************)
EXTENDS Isa

CONSTANT COUNT    \* 2^32 in the code

ASSUME CountAssumption == COUNT \in Nat \ {0}

VARIABLES hwlp_start_q, hwlp_end_q, hwlp_counter_q

hwlpRegs == << hwlp_start_q, hwlp_end_q, hwlp_counter_q >>

HwlpInit ==
  /\ hwlp_start_q = [k \in Loops |-> 0]
  /\ hwlp_end_q = [k \in Loops |-> 0]
  /\ hwlp_counter_q = [k \in Loops |-> 0]

hwlp_counter_without_wrap(k) == hwlp_counter_q[k] + COUNT - 1
hwlp_counter_n(k) == (hwlp_counter_q[k] + COUNT - 1) % COUNT

Written(reg, k, we, data) == [reg EXCEPT ![k] = IF we THEN data ELSE @]

(* One clock edge: we is the loop instruction at pc that writes, or None;  *)
(* dec is the set of loops to be decremented if valid.                     *)
HwlpClock(we, pc, dec, valid) ==
  /\ IF we = None
       THEN UNCHANGED << hwlp_start_q, hwlp_end_q >>
       ELSE /\ hwlp_start_q' =
                 Written(hwlp_start_q, we.k, we.start # None, Plus(pc, we.start))
            /\ hwlp_end_q' =
                 Written(hwlp_end_q, we.k, we.end # None, Plus(pc, we.end))
  /\ hwlp_counter_q' =
       [k \in Loops |->
          IF we # None /\ we.k = k /\ we.count # None THEN we.count
          ELSE IF k \in dec /\ valid THEN hwlp_counter_n(k)
          ELSE hwlp_counter_q[k]]
==============================================================================
