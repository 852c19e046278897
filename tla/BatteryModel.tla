---------------------------- MODULE BatteryModel ----------------------------
(***************************************************************************)
(* The simulated battery of a robot (battery_model.hpp).  The code keeps   *)
(* the state of charge as a percentage in a double; here it is a natural   *)
(* number of charge units and the three rates are units per unit of time,  *)
(* which keeps every comparison and the clamping the code does.            *)
(***************************************************************************)
EXTENDS Integers

CONSTANTS MaxSoc,          \* a full battery (100 %)
          LowThreshold,    \* LOW_THRESHOLD: below it the robot must charge
          FullThreshold,   \* FULL_THRESHOLD: at it charging stops
          DrainIdle, DrainMoving, ChargeRate

ASSUME BatteryAssumption ==
  /\ MaxSoc \in Nat /\ LowThreshold \in Nat /\ FullThreshold \in Nat
  /\ LowThreshold < FullThreshold /\ FullThreshold <= MaxSoc
  /\ DrainIdle \in Nat /\ DrainMoving \in Nat /\ ChargeRate \in Nat \ {0}

Soc == 0..MaxSoc

(* Mutant of Clamp: no upper end. *)
Clamp_Below(v) == IF v < 0 THEN 0 ELSE v

Clamp(v) == IF v < 0 THEN 0 ELSE IF v > MaxSoc THEN MaxSoc ELSE v

(* update(dt, is_moving, is_charging): charging wins over moving. *)
Update(soc, dt, moving, charging) ==
  Clamp(IF charging THEN soc + ChargeRate * dt
        ELSE IF moving THEN soc - DrainMoving * dt
        ELSE soc - DrainIdle * dt)

IsLow(soc)  == soc < LowThreshold

(* Mutant of IsFull: strict. *)
IsFull_Strict(soc) == soc > FullThreshold

IsFull(soc) == soc >= FullThreshold
=============================================================================
