--------------------------- MODULE SlidingWindow ---------------------------
(***************************************************************************)
(* What the queue between Rollouter and Trainer promises, without its      *)
(* buffer, its lock or its waiting callers.  Samples are numbered in the   *)
(* order they were put.  The queue is the window lo+1..hi of the numbers   *)
(* that were neither handed out nor lost.  The window only moves forward,  *)
(* so a number is handed out at most once and in order; a number is lost   *)
(* only when the window is full (the oldest one) or when it is cleared.    *)
(***************************************************************************)
EXTENDS Integers

CONSTANTS Capacity,    (* the most samples the window may hold             *)
          Consumers    (* the callers of get_sample                        *)

VARIABLES lo,          (* the number of samples that left the window       *)
          hi,          (* the number of samples ever put                   *)
          open,        (* FALSE once the queue was shut down               *)
          out          (* out[c]: what consumer c was handed and not read  *)

winVars == <<lo, hi, open, out>>

Nothing == -2          (* no answer is on its way to the consumer          *)
Closed  == -1          (* the answer of a queue that is closed and empty   *)

WindowInit ==
    /\ lo = 0
    /\ hi = 0
    /\ open = TRUE
    /\ out = [c \in Consumers |-> Nothing]

WindowPut ==
    /\ hi' = hi + 1
    /\ lo' = IF hi - lo >= Capacity THEN lo + 1 ELSE lo
    /\ UNCHANGED <<open, out>>

WindowTake(c) ==
    /\ lo < hi
    /\ out[c] = Nothing
    /\ lo' = lo + 1
    /\ out' = [out EXCEPT ![c] = lo + 1]
    /\ UNCHANGED <<hi, open>>

WindowRefuse(c) ==
    /\ lo = hi
    /\ ~open
    /\ out[c] = Nothing
    /\ out' = [out EXCEPT ![c] = Closed]
    /\ UNCHANGED <<lo, hi, open>>

WindowRead(c) ==
    /\ out[c] # Nothing
    /\ out' = [out EXCEPT ![c] = Nothing]
    /\ UNCHANGED <<lo, hi, open>>

WindowClear ==
    /\ lo' = hi
    /\ UNCHANGED <<hi, open, out>>

WindowClose ==
    /\ open' = FALSE
    /\ UNCHANGED <<lo, hi, out>>

WindowNext ==
    \/ WindowPut
    \/ WindowClear
    \/ WindowClose
    \/ \E c \in Consumers : WindowTake(c) \/ WindowRefuse(c) \/ WindowRead(c)

WindowSpec == WindowInit /\ [][WindowNext]_winVars
=============================================================================
