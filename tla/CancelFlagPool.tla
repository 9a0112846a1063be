--------------------------- MODULE CancelFlagPool ---------------------------
(***************************************************************************)
(* The per-task cancel flags of the plugin worker pool (cancel-flag.ts): a *)
(* growable shared array of one flag per slot, a stack of free slots and   *)
(* the slots in use.  The pool is a value; the worker pool keeps it and    *)
(* passes it through these operations.                                     *)
(***************************************************************************)
EXTENDS Integers, Sequences

CONSTANTS
    InitialSlots,   \* INITIAL_SLOTS
    MaxCapacity     \* MAX_CAPACITY

ASSUME CapacityAssumption ==
    /\ InitialSlots \in Nat \ {0}
    /\ MaxCapacity \in Nat \ {0}

\* acquire's answer when every slot is taken and the array cannot grow.
NoSlot == -1

\* The stack segment for slots from .. to-1, lowest slot on top.
Minted(from, to) == [k \in 1 .. (to - from) |-> to - k]

NewPool ==
    LET capacity == IF InitialSlots < MaxCapacity THEN InitialSlots ELSE MaxCapacity
    IN  [capacity |-> capacity, free |-> Minted(0, capacity), inUse |-> {}, flag |-> {}]

\* grow: double the array, up to MaxCapacity.
Grow(pool) ==
    LET next == IF 2 * pool.capacity < MaxCapacity THEN 2 * pool.capacity ELSE MaxCapacity
    IN  IF pool.capacity >= MaxCapacity THEN pool
        ELSE [pool EXCEPT !.capacity = next,
                          !.free = @ \o Minted(pool.capacity, next)]

\* The slot acquire hands out, and the pool it leaves.
Available(pool) == IF pool.free = << >> THEN Grow(pool) ELSE pool

AcquiredSlot(pool) ==
    LET free == Available(pool).free
    IN  IF free = << >> THEN NoSlot ELSE free[Len(free)]

Acquire(pool) ==
    LET after == Available(pool)
        idx   == AcquiredSlot(pool)
    IN  IF idx = NoSlot THEN after
        ELSE [after EXCEPT !.free  = SubSeq(@, 1, Len(@) - 1),
                           !.inUse = @ \union {idx},
                           !.flag  = @ \ {idx}]

\* Idempotent on slots that are free already.
Release(pool, idx) ==
    IF idx < 0 \/ idx >= pool.capacity \/ idx \notin pool.inUse THEN pool
    ELSE [pool EXCEPT !.inUse = @ \ {idx},
                      !.flag  = @ \ {idx},
                      !.free  = Append(@, idx)]

\* Raise the flag the worker polls.
Cancel(pool, idx) ==
    IF idx < 0 \/ idx >= pool.capacity THEN pool
    ELSE [pool EXCEPT !.flag = @ \union {idx}]
=============================================================================
