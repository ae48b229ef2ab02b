----------------------------- MODULE SlotStock -----------------------------
(***************************************************************************)
(* The Redis counter "slot:{id}:stock" and what the three Lua scripts of   *)
(* RedisService do to it.  A script runs to its end before another starts, *)
(* so each is a function from the old value of the key to the new one.     *)
(***************************************************************************)
EXTENDS Integers

CONSTANT NoKey      \* the key is absent: GET answers nil

ASSUME NoKeyAssumption == NoKey \notin Int

Stock == Int \cup {NoKey}

\* decrement-stock.lua: a missing key and a value of 0 or less both refuse.
CanDecrement(s) == s # NoKey /\ s > 0
Decremented(s) == s - 1

\* increment-stock.lua without its clamp, or clamping one below the capacity.
IncrementedUnclamped(s, max) == IF s = NoKey THEN 1 ELSE s + 1
IncrementedShort(s, max) ==
    LET current == IF s = NoKey THEN 0 ELSE s
    IN  IF current < max - 1 THEN current + 1 ELSE s

\* increment-stock.lua: a missing key counts as 0, and the script gives a unit
\* back only below the capacity the caller passes.
Incremented(s, max) ==
    LET current == IF s = NoKey THEN 0 ELSE s
    IN  IF current < max THEN current + 1 ELSE s

\* init-stock.lua: an unconditional SET of the seats the caller thinks are free.
Initialised(max, count) == max - count
=============================================================================
