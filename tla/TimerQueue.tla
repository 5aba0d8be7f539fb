----------------------------- MODULE TimerQueue -----------------------------
(***************************************************************************)
(* asio.sleep below Lua: the heap of timers, the timerfd the epoll reactor *)
(* arms for the first of them, and the two clocks.  A deadline_timer       *)
(* expires by the system clock, which may be set; the timerfd runs on the  *)
(* monotonic clock, and is armed for the time that seemed left.            *)
(*                                                                         *)
(* Each sleep has a timer of its own, named by its light thread.  The heap *)
(* is counted from 1, so heap_index 0 is the source's "not in the heap".   *)
(* Times and durations are counted in the unit of the clocks, of which     *)
(* Milli make a millisecond.                                               *)
(***************************************************************************)
EXTENDS Integers, SequencesExt

CONSTANTS Threads,      \* light threads
          Durations,    \* arguments of asio.sleep
          Milli,        \* how often a clock ticks in a millisecond
          MaxWait,      \* longest time the timerfd is armed for (5 minutes)
          ClockSteps,   \* by how much the system clock may be set
          MaxSteps,     \* bound: how often it is set
          LastStart,    \* bound: no sleep starts later
          MaxTime       \* bound: when the clock stops

ASSUME TimerAssumption ==
    /\ Durations \subseteq Int /\ Milli \in Nat \ {0} /\ MaxWait \in Nat \ {0}
    /\ ClockSteps \subseteq Int /\ MaxSteps \in Nat
    /\ LastStart \in Nat /\ MaxTime \in Nat

VARIABLES mono,        \* monotonic clock
          offset,      \* system clock minus monotonic clock
          steps,       \* how often the system clock was set
          queue,       \* [heap |-> heap_, index |-> each timer's heap_index_]
          timer_fd,    \* when the timerfd expires, -1 if it was never armed
          seen,        \* offset when it was armed
          checking,    \* epoll_reactor::run is between its two uses of the queue
          op_queue,    \* expired sleeps, their handlers not yet run
          at,          \* light threads: "run" or "sleep"
          due          \* when the time each sleep was asked for is over, by mono

clockVars == <<mono, offset, steps>>
vars == <<clockVars, queue, timer_fd, seen, checking, op_queue, at, due>>

Now == mono + offset

----------------------------------------------------------------------------
(* The heap.                                                               *)
Entries == [time : Int, timer : Threads]
Queues == [heap : Seq(Entries), index : [Threads -> Nat]]

swap_heap(q, i, j) ==
    [heap |-> [q.heap EXCEPT ![i] = q.heap[j], ![j] = q.heap[i]],
     index |-> [q.index EXCEPT ![q.heap[j].timer] = i, ![q.heap[i].timer] = j]]

(* An entry of the heap that may have to move.                             *)
Places == {x \in Queues \X Nat : x[2] \in 1..Len(x[1].heap)}

up_heap[x \in Places] ==
    LET q == x[1]
        i == x[2]
    IN  IF i > 1 /\ q.heap[i].time < q.heap[i \div 2].time
        THEN up_heap[<<swap_heap(q, i, i \div 2), i \div 2>>]
        ELSE q

min_child(h, i) ==
    IF 2 * i = Len(h) \/ h[2 * i].time < h[2 * i + 1].time THEN 2 * i ELSE 2 * i + 1

down_heap[x \in Places] ==
    LET q == x[1]
        i == x[2]
        child == min_child(q.heap, i)
    IN  IF 2 * i > Len(q.heap) \/ q.heap[i].time < q.heap[child].time THEN q
        ELSE down_heap[<<swap_heap(q, i, child), child>>]

enqueue_timer(q, time, t) ==
    LET n == Len(q.heap) + 1
    IN  up_heap[<<[heap |-> Append(q.heap, [time |-> time, timer |-> t]),
                   index |-> [q.index EXCEPT ![t] = n]], n>>]

(* Wrong variant: the entry that takes the place stays there.              *)
remove_timer_NoSift(q, t) ==
    LET last == Len(q.heap)
        moved == swap_heap(q, q.index[t], last)
    IN  [heap |-> SubSeq(moved.heap, 1, last - 1), index |-> [moved.index EXCEPT ![t] = 0]]

(* The last entry takes the timer's place and moves to where it belongs.   *)
remove_timer(q, t) ==
    LET i == q.index[t]
        last == Len(q.heap)
        moved == swap_heap(q, i, last)
        cut == [heap |-> SubSeq(moved.heap, 1, last - 1),
                index |-> [moved.index EXCEPT ![t] = 0]]
    IN  IF i = last THEN cut
        ELSE IF i > 1 /\ cut.heap[i].time < cut.heap[i \div 2].time THEN up_heap[<<cut, i>>]
        ELSE down_heap[<<cut, i>>]

(* Wrong variants: a timer is due one tick before its time, or only after. *)
IsDue_Rounded(time, now) == time <= now + 1
IsDue_Strict(time, now) == time < now

IsDue(time, now) == ~(now < time)

(* Every timer knows its place in the heap, or that it is not there.       *)
Timers(q) == {q.heap[i].timer : i \in 1..Len(q.heap)}
Placed(q) ==
    /\ \A i \in 1..Len(q.heap) : q.index[q.heap[i].timer] = i
    /\ \A t \in Threads \ Timers(q) : q.index[t] = 0

(* Takes timers off while the first is due.                                *)
get_ready_timers(q0, now) ==
    LET take[x \in {y \in Queues \X Seq(Threads) : Placed(y[1])}] ==
          LET q == x[1]
              ops == x[2]
          IN  IF q.heap = <<>> \/ ~IsDue(q.heap[1].time, now) THEN [queue |-> q, ops |-> ops]
              ELSE take[<<remove_timer(q, q.heap[1].timer), Append(ops, q.heap[1].timer)>>]
    IN  take[<<q0, <<>>>>]

(* Wrong variant: a sleep longer than MaxWait is waited for in one go.     *)
wait_duration_Whole(q) ==
    IF q.heap = <<>> THEN MaxWait ELSE Max({0, q.heap[1].time - Now})

wait_duration(q) ==
    IF q.heap = <<>> THEN MaxWait
    ELSE Min({MaxWait, Max({0, q.heap[1].time - Now})})

(* Wrong variant: an expiration in zero time, which disarms the timerfd.   *)
update_timeout_Disarms(q) ==
    /\ timer_fd' = IF wait_duration(q) = 0 THEN -1 ELSE mono + wait_duration(q)
    /\ seen' = offset

(* timerfd_settime: relative, or at once if a timer is due.                *)
update_timeout(q) ==
    /\ timer_fd' = IF wait_duration(q) = 0 THEN 0 ELSE mono + wait_duration(q)
    /\ seen' = offset

----------------------------------------------------------------------------
(* Wrong variant: the timerfd is armed when the first timer comes.         *)
IsEarliest_Only(q, t) == Len(q.heap) = 1

(* The result of enqueue_timer.                                            *)
IsEarliest(q, t) == q.index[t] = 1

(* (int64_t)(sec * 1000): the whole milliseconds of the argument; the rest *)
(* is cut off, towards 0.                                                  *)
WholeMillis(d) == IF d >= 0 THEN d - (d % Milli) ELSE d + ((-d) % Milli)

(* asio.sleep: only a timer that becomes the first arms the timerfd anew.  *)
Sleep(t, d) ==
    /\ at[t] = "run" /\ ~checking /\ mono <= LastStart
    /\ at' = [at EXCEPT ![t] = "sleep"]
    /\ due' = [due EXCEPT ![t] = mono + d]
    /\ queue' = enqueue_timer(queue, Now + WholeMillis(d), t)
    /\ IF IsEarliest(queue', t) THEN update_timeout(queue') ELSE UNCHANGED <<timer_fd, seen>>
    /\ UNCHANGED <<clockVars, checking, op_queue>>

(* epoll_wait reports the timerfd: what has expired is queued.             *)
CheckTimers ==
    /\ ~checking /\ timer_fd \in 0..mono
    /\ LET ready == get_ready_timers(queue, Now)
       IN  queue' = ready.queue /\ op_queue' = op_queue \o ready.ops
    /\ checking' = TRUE
    /\ UNCHANGED <<clockVars, timer_fd, seen, at, due>>

(* Then the timerfd is armed again, by a second look at the clock.         *)
Rearm ==
    /\ checking
    /\ update_timeout(queue)
    /\ checking' = FALSE
    /\ UNCHANGED <<clockVars, queue, op_queue, at, due>>

(* The handler of a sleep.  Its timer is destroyed; it left the heap when  *)
(* it expired, so there is nothing to cancel.                              *)
RunSleep ==
    /\ ~checking /\ op_queue # <<>>
    /\ at' = [at EXCEPT ![Head(op_queue)] = "run"]
    /\ op_queue' = Tail(op_queue)
    /\ UNCHANGED <<clockVars, queue, timer_fd, seen, checking, due>>

----------------------------------------------------------------------------
Tick ==
    /\ mono < MaxTime
    /\ mono' = mono + 1
    /\ UNCHANGED <<offset, steps, queue, timer_fd, seen, checking, op_queue, at, due>>

(* The system clock is set.                                                *)
SetClock(s) ==
    /\ steps < MaxSteps
    /\ steps' = steps + 1
    /\ offset' = offset + s
    /\ UNCHANGED <<mono, queue, timer_fd, seen, checking, op_queue, at, due>>

Init ==
    /\ mono = 0 /\ offset = 0 /\ steps = 0
    /\ queue = [heap |-> <<>>, index |-> [t \in Threads |-> 0]]
    /\ timer_fd = -1 /\ seen = 0 /\ checking = FALSE
    /\ op_queue = <<>>
    /\ at = [t \in Threads |-> "run"] /\ due = [t \in Threads |-> 0]

RunStep == CheckTimers \/ Rearm \/ RunSleep

Next ==
    \/ \E t \in Threads, d \in Durations : Sleep(t, d)
    \/ RunStep
    \/ Tick \/ \E s \in ClockSteps : SetClock(s)

Spec == Init /\ [][Next]_vars

(* Time passes and the program keeps calling run_one.                      *)
FairSpec == Spec /\ WF_vars(Tick) /\ WF_vars(RunStep)

----------------------------------------------------------------------------
(* Types of all variables; the timerfd is never armed for longer than      *)
(* MaxWait, so that "any changes to the system clock are detected after no *)
(* longer than this" (epoll_reactor.ipp:697).                              *)
TypeOK ==
    /\ mono \in 0..MaxTime /\ offset \in Int /\ steps \in 0..MaxSteps
    /\ queue \in Queues
    /\ timer_fd \in -1..mono + MaxWait /\ seen \in Int /\ checking \in BOOLEAN
    /\ op_queue \in Seq(Threads)
    /\ at \in [Threads -> {"run", "sleep"}] /\ due \in [Threads -> Int]

Expiring == Timers(queue)

(* The heap is a heap, every timer knows its place in it, and every light  *)
(* thread that sleeps is in the heap or has expired, and no other is       *)
(* (timer_queue.hpp:249-330).                                              *)
HeapSound ==
    /\ \A i \in 2..Len(queue.heap) : queue.heap[i \div 2].time <= queue.heap[i].time
    /\ Placed(queue)
    /\ IsInjective(op_queue)
    /\ Expiring \cap ToSet(op_queue) = {}
    /\ Expiring \cup ToSet(op_queue) = {t \in Threads : at[t] = "sleep"}

(* While a sleep is pending the timerfd expires not later than the first   *)
(* of them, by the system clock as it was when the timerfd was armed: a    *)
(* sleep that overtakes those pending arms it anew, one that does not      *)
(* leaves it alone (epoll_reactor.hpp:59, epoll_reactor.ipp:590).          *)
ArmedInTime ==
    queue.heap # <<>> /\ ~checking =>
       /\ timer_fd # -1
       /\ timer_fd = 0 \/ timer_fd <= queue.heap[1].time - seen

(* The clock is less than a millisecond short of a time.                   *)
Reaches(time, target) == time + Milli > target

(* No sleep ends a millisecond or more before its time, if the system      *)
(* clock is never set: what asio_sleep cuts off is all that is lost, and   *)
(* neither the heap nor the timerfd adds to it (luaAsio.cpp:453).  That it *)
(* is lost, README.md:192 does not say.  If the clock is set forward a     *)
(* sleep may end at any time: deadline_timer expires by that clock.        *)
NotEarly == steps = 0 => \A i \in 1..Len(op_queue) : Reaches(mono, due[op_queue[i]])

(* What expires is all that is due, earliest first (timer_queue.hpp:145).  *)
ExpiresInOrder ==
    [][ LET due_now == {e \in ToSet(queue.heap) : e.time <= Now}
            TimeOf(t) == (CHOOSE e \in ToSet(queue.heap) : e.timer = t).time
            taken == SubSeq(op_queue', Len(op_queue) + 1, Len(op_queue'))
        IN  ~checking /\ checking' =>
              /\ ToSet(taken) = {e.timer : e \in due_now}
              /\ \A i \in 1..Len(taken) - 1 : TimeOf(taken[i]) <= TimeOf(taken[i + 1])
      ]_vars

(* Every sleep ends, also when the clock is set back or forward: some time *)
(* after the last one has started, no light thread sleeps.                 *)
Awakes == mono > LastStart ~> \A t \in Threads : at[t] = "run"
=============================================================================
