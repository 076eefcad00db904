---------------------------- MODULE HighWaterMark ----------------------------
(***************************************************************************)
(* What a RuntimeProfile::HighWaterMarkCounter promises its callers: a     *)
(* current value that Update, TryUpdate and Set change in one atomic step  *)
(* each, and a value() that is the highest current value there has been.   *)
(* Arithmetic is that of a W-bit two's-complement integer, as the          *)
(* AtomicInt<int64_t> fields have.  last is the operation the last step    *)
(* was, so that a TryUpdate cannot pass for an Update.                     *)
(***************************************************************************)
EXTENDS Integers

CONSTANTS W, Deltas, SetValues, Limits

VARIABLES cur, hi, last

MinIntW == -(2^(W-1))
MaxIntW == 2^(W-1) - 1

(* x reduced to the W-bit range. *)
WrapInt(x) == ((x - MinIntW) % 2^W) + MinIntW

Higher(a, b) == IF a > b THEN a ELSE b

Op(kind, arg, max) == [op |-> kind, arg |-> arg, max |-> max]

Init == cur = 0 /\ hi = 0 /\ last = Op("none", 0, 0)

Sum(d) == /\ cur' = WrapInt(cur + d)
          /\ hi' = Higher(hi, cur')

Add(d) == Sum(d) /\ last' = Op("update", d, 0)

Store(v) == /\ cur' = v
            /\ hi' = Higher(hi, v)
            /\ last' = Op("set", v, 0)

(* A TryUpdate that succeeds: current_value() + delta does not exceed     *)
(* max, as integers.  One that fails changes nothing.                      *)
TryAdd(d, m) == /\ cur + d <= m
                /\ Sum(d)
                /\ last' = Op("try", d, m)

Next == \/ \E d \in Deltas : Add(d)
        \/ \E v \in SetValues : Store(v)
        \/ \E d \in Deltas, m \in Limits : TryAdd(d, m)

Spec == Init /\ [][Next]_<<cur, hi, last>>

=============================================================================
