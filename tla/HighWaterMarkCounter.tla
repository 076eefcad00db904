------------------------- MODULE HighWaterMarkCounter -------------------------
(***************************************************************************)
(* RuntimeProfile::HighWaterMarkCounter (be/src/util/runtime-profile.h),   *)
(* used by several threads at once, and the ScopedCounter that updates a   *)
(* counter on entry to a scope and back on exit.                           *)
(*                                                                         *)
(* Each access to one of the two AtomicInt<int64_t> fields is one step:    *)
(* current_value_ (current) and value_, the high-water mark (hwm).  An     *)
(* Update is the UpdateAndFetch on current_value_ and then, in a later     *)
(* step, the UpdateMax on value_; between them the thread is at "max"      *)
(* with the value in pending[t].  TryUpdate reads current_value_, tests    *)
(* the limit, and tries its compare-and-swap in a later step; a failed     *)
(* swap goes round the loop again.  UpdateMax is a compare-and-swap loop   *)
(* inside AtomicInt and is linearizable, so it is one step here.           *)
(***************************************************************************)
EXTENDS Integers

CONSTANTS
    Threads,    \* threads using the counter
    W,          \* bit width of the AtomicInt fields (64 in the code)
    Deltas,     \* deltas passed to Update and TryUpdate
    SetValues,  \* values passed to Set
    Limits,     \* max passed to TryUpdate
    ScopedVals, \* val of a ScopedCounter
    MaxOps      \* bound on the operations each thread starts

VARIABLES
    current,    \* current_value_
    hwm,        \* value_
    pc,         \* per thread: where it is inside an operation
    pending,    \* per thread: the value its UpdateMax will publish
    try,        \* per thread: delta, max and the value read by TryUpdate
    scoped,     \* per thread: val of its live ScopedCounter, 0 if none
    ops,        \* per thread: operations started
    peak,       \* history: the highest value current_value_ has held
    linearized  \* history: the operation whose step last changed current_value_

vars == <<current, hwm, pc, pending, try, scoped, ops, peak, linearized>>

MinIntW == -(2^(W-1))
MaxIntW == 2^(W-1) - 1
IntW == MinIntW..MaxIntW

Pcs == {"idle", "max", "cas", "read", "in_scope"}

TypeOK ==
    /\ current \in IntW
    /\ hwm \in IntW
    /\ pc \in [Threads -> Pcs]
    /\ pending \in [Threads -> IntW]
    /\ try \in [Threads -> [delta : Deltas \cup {0}, max : Limits \cup {0},
                            old : IntW]]
    /\ scoped \in [Threads -> ScopedVals \cup {0}]
    /\ ops \in [Threads -> 0..MaxOps]
    /\ peak \in IntW
    /\ linearized \in [op : {"none", "update", "set", "try"}, arg : Int, max : Int]

Init ==
    /\ current = 0
    /\ hwm = 0
    /\ pc = [t \in Threads |-> "idle"]
    /\ pending = [t \in Threads |-> 0]
    /\ try = [t \in Threads |-> [delta |-> 0, max |-> 0, old |-> 0]]
    /\ scoped = [t \in Threads |-> 0]
    /\ ops = [t \in Threads |-> 0]
    /\ peak = 0
    /\ linearized = [op |-> "none", arg |-> 0, max |-> 0]

-----------------------------------------------------------------------------
(* Signed addition on AtomicInt<int64_t>: two's-complement wrap-around.    *)
Wrap(x) == ((x - MinIntW) % 2^W) + MinIntW

HigherOf(a, b) == IF a > b THEN a ELSE b

(* Thread t writes v to current_value_ and is then at "max" to publish it. *)
StoreCurrent(t, v) ==
    /\ current' = v
    /\ peak' = HigherOf(peak, v)
    /\ pending' = [pending EXCEPT ![t] = v]
    /\ pc' = [pc EXCEPT ![t] = "max"]

Start(t) == /\ pc[t] = "idle"
            /\ ops[t] < MaxOps
            /\ ops' = [ops EXCEPT ![t] = @ + 1]

(* HighWaterMarkCounter::Update, first step: UpdateAndFetch(delta). *)
UpdateFetch(t, d) == /\ StoreCurrent(t, Wrap(current + d))
                     /\ linearized' = [op |-> "update", arg |-> d, max |-> 0]

Update(t, d) ==
    /\ Start(t)
    /\ UpdateFetch(t, d)
    /\ UNCHANGED <<hwm, try, scoped>>

(* HighWaterMarkCounter::Set, first step: current_value_ = v. *)
Set(t, v) ==
    /\ Start(t)
    /\ StoreCurrent(t, v)
    /\ linearized' = [op |-> "set", arg |-> v, max |-> 0]
    /\ UNCHANGED <<hwm, try, scoped>>

(* Mutant: value_ = new_val instead of UpdateMax. *)
UpdateMax_Store(t) ==
    /\ pc[t] = "max"
    /\ hwm' = pending[t]
    /\ pc' = [pc EXCEPT ![t] = IF scoped[t] # 0 THEN "in_scope" ELSE "idle"]

(* The second step of Update, Set and a successful TryUpdate:              *)
(* value_.UpdateMax(new_val).  A thread that entered a ScopedCounter is    *)
(* then inside its scope.                                                  *)
UpdateMax(t) ==
    /\ pc[t] = "max"
    /\ hwm' = HigherOf(hwm, pending[t])
    /\ pc' = [pc EXCEPT ![t] = IF scoped[t] # 0 THEN "in_scope" ELSE "idle"]

PublishMax(t) ==
    /\ UpdateMax(t)
    /\ UNCHANGED <<current, pending, try, scoped, ops, peak, linearized>>

(* TryUpdate, top of the loop: old_val = current_value_; new_val =        *)
(* old_val + delta; if new_val > max return false, else go on to the swap. *)
TryRead(t, d, m) ==
    /\ try' = [try EXCEPT ![t] = [delta |-> d, max |-> m, old |-> current]]
    /\ pc' = [pc EXCEPT ![t] = IF Wrap(current + d) > m THEN "idle" ELSE "cas"]

TryUpdate(t, d, m) ==
    /\ Start(t)
    /\ TryRead(t, d, m)
    /\ UNCHANGED <<current, hwm, pending, scoped, peak, linearized>>

(* Mutant: old_val read once, before the loop; a retry reuses it. *)
TryRetry_NoReread(t) ==
    /\ pc[t] = "read"
    /\ pc' = [pc EXCEPT ![t] = "cas"]
    /\ UNCHANGED <<current, hwm, pending, try, scoped, ops, peak, linearized>>

(* The loop goes round: old_val = current_value_ is read again. *)
TryRetry(t) ==
    /\ pc[t] = "read"
    /\ TryRead(t, try[t].delta, try[t].max)
    /\ UNCHANGED <<current, hwm, pending, scoped, ops, peak, linearized>>

(* The step at which a TryUpdate takes effect. *)
TryLinearized(t) == [op |-> "try", arg |-> try[t].delta, max |-> try[t].max]

(* Mutant: the swap stores new_val without comparing. *)
TrySwap_NoCompare(t) ==
    /\ pc[t] = "cas"
    /\ StoreCurrent(t, Wrap(try[t].old + try[t].delta))
    /\ linearized' = TryLinearized(t)
    /\ UNCHANGED <<hwm, try, scoped, ops>>

(* current_value_.Swap(old_val, new_val): compare-and-swap.  On success    *)
(* the thread goes on to UpdateMax; on failure it goes round the loop.     *)
TrySwap(t) ==
    /\ pc[t] = "cas"
    /\ IF current = try[t].old
         THEN /\ StoreCurrent(t, Wrap(try[t].old + try[t].delta))
              /\ linearized' = TryLinearized(t)
         ELSE /\ pc' = [pc EXCEPT ![t] = "read"]
              /\ UNCHANGED <<current, pending, peak, linearized>>
    /\ UNCHANGED <<hwm, try, scoped, ops>>

(* ScopedCounter constructor: counter_->Update(-1L * val_). *)
ScopedEnter(t, v) ==
    /\ Start(t)
    /\ UpdateFetch(t, -v)
    /\ scoped' = [scoped EXCEPT ![t] = v]
    /\ UNCHANGED <<hwm, try>>

(* ScopedCounter destructor: counter_->Update(val_). *)
ScopedExit(t) ==
    /\ pc[t] = "in_scope"
    /\ UpdateFetch(t, scoped[t])
    /\ scoped' = [scoped EXCEPT ![t] = 0]
    /\ UNCHANGED <<hwm, try, ops>>

Next ==
    \E t \in Threads :
        \/ \E d \in Deltas : Update(t, d)
        \/ \E v \in SetValues : Set(t, v)
        \/ \E d \in Deltas, m \in Limits : TryUpdate(t, d, m)
        \/ \E v \in ScopedVals : ScopedEnter(t, v)
        \/ PublishMax(t)
        \/ TrySwap(t)
        \/ TryRetry(t)
        \/ ScopedExit(t)

(* A thread inside an operation keeps being scheduled until it returns;   *)
(* starting an operation and leaving a ScopedCounter's scope are up to the *)
(* caller and not assumed.                                                 *)
Spec == Init /\ [][Next]_vars
        /\ \A t \in Threads : WF_vars(PublishMax(t) \/ TrySwap(t) \/ TryRetry(t))

-----------------------------------------------------------------------------
(* value() as it will be once every thread at "max" has done its UpdateMax. *)
PublishedHwm ==
    LET due == {pending[t] : t \in {u \in Threads : pc[u] = "max"}}
    IN  IF \E v \in due : v > hwm THEN CHOOSE v \in due : \A x \in due : v >= x
                                  ELSE hwm

(* A ScopedCounter is an Update by -val and later by val. *)
HWM == INSTANCE HighWaterMark
         WITH cur <- current, hi <- PublishedHwm, last <- linearized,
              Deltas <- Deltas \cup ScopedVals \cup {-v : v \in ScopedVals}

(* The counter implements its promise: with value() taken as the mark the  *)
(* pending UpdateMax calls will publish, every Update, Set, TryUpdate and  *)
(* ScopedCounter step of the concurrent threads is one atomic step of the  *)
(* abstract counter or none, so no update is lost and no mark is missed.   *)
ImplementsHighWaterMark == HWM!Spec

(* value() never reports a value current_value_ has not held, and when no  *)
(* thread is between its two steps it is exactly the highest one it held.  *)
HwmIsPeakWhenQuiescent ==
    /\ hwm <= peak
    /\ (\A t \in Threads : pc[t] # "max") => hwm = peak

(* Every Update, Set, TryUpdate and ScopedCounter step a thread has begun  *)
(* returns: TryUpdate's compare-and-swap loop is lock-free, and once the   *)
(* other threads' bounded operations are done its re-read of               *)
(* current_value_ lets the swap succeed or the limit test return false.    *)
OperationsComplete ==
    \A t \in Threads : pc[t] \in {"max", "cas", "read"} ~> pc[t] \in {"idle", "in_scope"}

=============================================================================
