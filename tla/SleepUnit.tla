------------------------------ MODULE SleepUnit ------------------------------
(***************************************************************************)
(* rtl/cv32e40p_sleep_unit.sv for PULP_CLUSTER = 0: the clock of the core  *)
(* is gated off until fetch is enabled, and when nothing is busy and there *)
(* is no reason to wake.  Its own registers are on the free clock.         *)
(***************************************************************************)
VARIABLES core_busy_q, fetch_enable_q

sleepRegs == << core_busy_q, fetch_enable_q >>

SleepInit == core_busy_q = FALSE /\ fetch_enable_q = FALSE

clock_en_when_busy(wake_from_sleep) == fetch_enable_q /\ core_busy_q
clock_en(wake_from_sleep) ==
  fetch_enable_q /\ (wake_from_sleep \/ core_busy_q)

busy_without_fetch(if_busy, ctrl_busy, lsu_busy) == ctrl_busy \/ lsu_busy
core_busy_d(if_busy, ctrl_busy, lsu_busy) == if_busy \/ ctrl_busy \/ lsu_busy

SleepClock(fetch_enable_i, if_busy, ctrl_busy, lsu_busy) ==
  /\ core_busy_q' = core_busy_d(if_busy, ctrl_busy, lsu_busy)
  /\ fetch_enable_q' = (fetch_enable_i \/ fetch_enable_q)
==============================================================================
