---------------------------- MODULE ObiInterface -----------------------------
(***************************************************************************)
(* rtl/cv32e40p_obi_interface.sv: adapter between a requester (its trans_  *)
(* signals) and the address phase of an OBI bus (obi_req_o, obi_gnt_i,     *)
(* obi_addr_o).                                                            *)
(* The response phase is wired through and has no state.  The payload      *)
(* (address, write data, byte enables) is one value.                       *)
(*                                                                         *)
(* The adapter is used by the fetch unit with TRANS_STABLE = 0 and by the  *)
(* load-store unit with TRANS_STABLE = 1.                                  *)
(***************************************************************************)
CONSTANTS
  TRANS_STABLE,   \* the requester keeps a waiting request unchanged
  Payload,        \* the values of the address phase signals
  ResetPayload    \* all of them 0

VARIABLES
  state_q,        \* "TRANSPARENT" or "REGISTERED"
  obi_addr_q      \* the address phase signals held for a waiting request

obiVars == << state_q, obi_addr_q >>

ObiInit ==
  /\ state_q = "TRANSPARENT"
  /\ obi_addr_q = ResetPayload

(* The outputs, from the registers and the request of this cycle. *)
obi_req_o(trans_valid) == state_q = "REGISTERED" \/ trans_valid

(* Faulty variant: the register is not used.                               *)
AddressPassedOn(trans_addr) == trans_addr

obi_addr_o(trans_addr) ==
  IF state_q = "REGISTERED" THEN obi_addr_q ELSE trans_addr

trans_ready_o(gnt) ==
  IF TRANS_STABLE THEN gnt ELSE state_q = "TRANSPARENT"

(* A request that is not granted at once is kept, because the requester    *)
(* may change its mind in the next cycle.                                  *)
Register(trans_valid, trans_addr, gnt) ==
  /\ ~TRANS_STABLE
  /\ state_q = "TRANSPARENT" /\ trans_valid /\ ~gnt
  /\ state_q' = "REGISTERED"
  /\ obi_addr_q' = trans_addr

Release(gnt) ==
  /\ state_q = "REGISTERED" /\ gnt
  /\ state_q' = "TRANSPARENT"
  /\ UNCHANGED obi_addr_q

Keep(trans_valid, gnt) ==
  /\ \/ TRANS_STABLE
     \/ state_q = "TRANSPARENT" /\ (trans_valid => gnt)
     \/ state_q = "REGISTERED" /\ ~gnt
  /\ UNCHANGED obiVars

(* One clock edge. *)
ObiClock(trans_valid, trans_addr, gnt) ==
  \/ Register(trans_valid, trans_addr, gnt)
  \/ Release(gnt)
  \/ Keep(trans_valid, gnt)

ObiTypeOK ==
  /\ state_q \in {"TRANSPARENT", "REGISTERED"}
  /\ obi_addr_q \in Payload
==============================================================================
