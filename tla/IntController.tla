---------------------------- MODULE IntController ----------------------------
(***************************************************************************)
(* rtl/cv32e40p_int_controller.sv: the interrupt lines are registered,     *)
(* masked with mie and encoded by priority.  A set of lines stands for the *)
(* word with these bits; PULP_SECURE = 0.                                  *)
(***************************************************************************)
EXTENDS Naturals, Sequences

VARIABLE irq_q

(* The lines the core implements (cv32e40p_pkg.sv).                        *)
IRQ_MASK == {3, 7, 11} \cup 16 .. 31

(* The order of the encoder, highest priority first.                       *)
Priority ==
  [i \in 1 .. 20 |-> 32 - i] \o << 11, 3, 7, 10, 2, 6, 9, 1, 5, 8, 0, 4 >>

IntInit == irq_q = {}

IntClock(irq_i) == irq_q' = irq_i \cap IRQ_MASK

irq_local_qual(mie) == irq_q \cap mie

irq_wu_ctrl_o(irq_i, mie) == irq_i \cap mie # {}

irq_req_ctrl_o(mie, m_ie) == irq_local_qual(mie) # {} /\ m_ie

irq_id_ctrl_o(mie) ==
  Priority[CHOOSE i \in 1 .. 32 :
             /\ Priority[i] \in irq_local_qual(mie)
             /\ \A j \in 1 .. i - 1 : Priority[j] \notin irq_local_qual(mie)]
==============================================================================
