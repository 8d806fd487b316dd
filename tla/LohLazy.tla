------------------------------- MODULE LohLazy --------------------------------
(***************************************************************************)
(* The lazy object `expr` of Loh: _LohLazy in Python/bltinmodule.c.  Every *)
(* operation on the proxy (repr, getattr, call, len, a subscript ...)      *)
(* first calls lazy_resolve, which runs the callback when there is no      *)
(* value yet.  The callback is arbitrary Python code: it can use the same  *)
(* lazy object again, and it can release the GIL, so that other threads    *)
(* come in between the test of value and the assignment to it.             *)
(***************************************************************************)
EXTENDS Integers

CONSTANTS
    Threads,
    Values,     \* what the callback can evaluate to
    None,       \* no value yet (NULL)
    MaxDepth    \* the recursion limit: nested callbacks of one thread

VARIABLES
    value,   \* PyLohLazyObject.value
    depth,   \* how many callbacks of this object each thread is inside
    used     \* the value each thread's latest operation worked on

vars == <<value, depth, used>>

TypeOK ==
    /\ value \in Values \cup {None}
    /\ depth \in [Threads -> 0..MaxDepth]
    /\ used \in [Threads -> Values \cup {None}]

Init ==     \* lazy_new
    /\ value = None
    /\ depth = [t \in Threads |-> 0]
    /\ used = [t \in Threads |-> None]

(* lazy_resolve with a value: the operation works on it.                   *)
UseCached(t) ==
    /\ value # None
    /\ used' = [used EXCEPT ![t] = value]
    /\ UNCHANGED <<value, depth>>

(* lazy_resolve without one: call the callback.                            *)
CallCallback(t) ==
    /\ value = None
    /\ depth[t] < MaxDepth
    /\ depth' = [depth EXCEPT ![t] = @ + 1]
    /\ UNCHANGED <<value, used>>

CallbackReturns(t) ==
    /\ depth[t] > 0
    /\ depth' = [depth EXCEPT ![t] = @ - 1]
    /\ \E x \in Values : value' = x /\ used' = [used EXCEPT ![t] = x]

(* The exception goes to the caller, and the next use tries again.         *)
CallbackRaises(t) ==
    /\ depth[t] > 0
    /\ depth' = [depth EXCEPT ![t] = @ - 1]
    /\ UNCHANGED <<value, used>>

Next ==
    \E t \in Threads :
        \/ UseCached(t) \/ CallCallback(t)
        \/ CallbackReturns(t) \/ CallbackRaises(t)

Spec == Init /\ [][Next]_vars

(* "The result is then cached for all future accesses" (README.md:1191):   *)
(* once an access has got a value, every later access gets the same one.   *)
CachedForAllAccesses ==
    [][\A t, u \in Threads :
          used[t] # None /\ used'[u] # used[u] => used'[u] = used[t]]_vars
=============================================================================
