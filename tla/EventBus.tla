------------------------------ MODULE EventBus ------------------------------
(***************************************************************************)
(* EventBus of src/backtest/bots/l2l3_orderbook/bus.py: publish is         *)
(* `await queue.put(event)` and next is `await queue.get()` on an          *)
(* asyncio.Queue(maxsize).  The queue's semantics are those of CPython's   *)
(* asyncio.Queue, and the event loop's: a task runs until it awaits a      *)
(* future that is not done; set_result on a waiter's future schedules its  *)
(* task at the end of the loop's FIFO ready queue.                         *)
(*                                                                         *)
(*   put:  while full(): append a putter future, await it;  put_nowait     *)
(*   put_nowait: append the item, wake the first getter                    *)
(*   get:  while empty(): append a getter future, await it;  get_nowait    *)
(*   get_nowait: pop the head, wake the first putter                       *)
(*                                                                         *)
(* A woken putter re-checks full() and, if another put got in first,       *)
(* appends a new putter at the end of the line.                            *)
(*                                                                         *)
(* One iteration of the loop (BaseEventLoop._run_once) polls the selector, *)
(* appends the callbacks of ready I/O to the ready queue and then runs     *)
(* exactly the handles that were ready at that point; what they schedule   *)
(* runs in the next iteration.                                             *)
(***************************************************************************)
EXTENDS Naturals, Sequences

CONSTANTS
  Cap,      \* maxsize of the EventBus queue (10_000 in the code)
  Idle      \* `running` when no task runs: the loop is in select()

ASSUME CapAssumption == Cap \in Nat \ {0}

VARIABLES
  queue,    \* the items of the asyncio.Queue, oldest first
  putters,  \* tasks blocked in put, in the order of their futures
  getters,  \* tasks blocked in get
  ready,    \* the event loop's ready queue of tasks, FIFO
  running,  \* the task the loop is running, or Idle
  todo      \* handles left to run in this iteration of the loop

busVars == <<queue, putters, getters>>
loopVars == <<ready, running, todo>>

(* Queue.full() with maxsize > 0.                                          *)
Full == Len(queue) >= Cap

(* _wakeup_next: the first waiter (none is ever cancelled before shutdown) *)
(* gets its result, so its task joins the ready queue.                     *)
Woken(waiters) == IF waiters = <<>> THEN <<>> ELSE <<Head(waiters)>>
Rest(waiters) == IF waiters = <<>> THEN <<>> ELSE Tail(waiters)

(* Mutant of Put: put_nowait without waiting for room.                     *)
PutIgnoresFull(t, item) ==
  /\ queue' = Append(queue, item)
  /\ getters' = Rest(getters)
  /\ ready' = ready \o Woken(getters)
  /\ running' = Idle
  /\ UNCHANGED <<putters, todo>>

(* One pass of put's loop by task t: put_nowait and finish, or block.      *)
(* Either way the task gives the loop back.                                *)
Put(t, item) ==
  /\ \/ /\ ~Full
        /\ queue' = Append(queue, item)
        /\ getters' = Rest(getters)
        /\ ready' = ready \o Woken(getters)
        /\ UNCHANGED putters
     \/ /\ Full
        /\ putters' = Append(putters, t)
        /\ UNCHANGED <<queue, getters, ready>>
  /\ running' = Idle
  /\ UNCHANGED todo

(* get by task t on an empty queue: block on a getter future.              *)
GetBlocks(t) ==
  /\ queue = <<>>
  /\ getters' = Append(getters, t)
  /\ running' = Idle
  /\ UNCHANGED <<queue, putters, ready, todo>>

(* get_nowait: the task takes Head(queue) and keeps running.               *)
GetTakes ==
  /\ queue # <<>>
  /\ queue' = Tail(queue)
  /\ putters' = Rest(putters)
  /\ ready' = ready \o Woken(putters)
  /\ UNCHANGED <<getters, running, todo>>

(* The loop runs the next handle of this iteration.                        *)
Dispatch ==
  /\ running = Idle
  /\ todo > 0
  /\ running' = Head(ready)
  /\ ready' = Tail(ready)
  /\ todo' = todo - 1
  /\ UNCHANGED busVars

(* A new iteration after polling I/O: the tasks in io are ready too.       *)
Select(io) ==
  /\ running = Idle
  /\ todo = 0
  /\ ready' = ready \o io
  /\ todo' = Len(ready \o io)
  /\ UNCHANGED <<busVars, running>>
=============================================================================
