----------------------------- MODULE TokenCache -----------------------------
(***************************************************************************)
(* What AppToken promises: a cache of expiring tokens that is filled by at *)
(* most one filler per key at a time, and only while it holds no token     *)
(* that is still good for Buffer seconds.  How requests queue, what fails  *)
(* and who answers whom is left to the implementation.                     *)
(***************************************************************************)
EXTENDS Naturals

CONSTANTS Key, Token, Life, Buffer, NoRecord

VARIABLES
    now,        \* the clock
    cache,      \* per key the cached token and its expiry, or NoRecord
    filling     \* the keys a token is being obtained for

vars == <<now, cache, filling>>

Usable(k) == cache[k] # NoRecord /\ now + Buffer < cache[k].expires

Init ==
    /\ now = 0
    /\ cache = [k \in Key |-> NoRecord]
    /\ filling = {}

BeginFill(k) ==
    /\ k \notin filling
    /\ ~Usable(k)
    /\ filling' = filling \cup {k}
    /\ UNCHANGED <<now, cache>>

\* The filler stores a token with the whole life it believes in ahead of it.
CompleteFill(k) ==
    /\ k \in filling
    /\ \E t \in Token, life \in Life :
         cache' = [cache EXCEPT ![k] = [token |-> t, expires |-> now + life]]
    /\ filling' = filling \ {k}
    /\ UNCHANGED now

AbortFill(k) ==
    /\ k \in filling
    /\ filling' = filling \ {k}
    /\ UNCHANGED <<now, cache>>

\* The memory of the process is lost.
Lose ==
    /\ cache' = [k \in Key |-> NoRecord]
    /\ filling' = {}
    /\ UNCHANGED now

Pass ==
    /\ now' = now + 1
    /\ UNCHANGED <<cache, filling>>

Next ==
    \/ \E k \in Key : BeginFill(k) \/ CompleteFill(k) \/ AbortFill(k)
    \/ Lose
    \/ Pass

SafeSpec == Init /\ [][Next]_vars

\* A fill that was begun is completed or aborted.
Spec ==
    /\ SafeSpec
    /\ \A k \in Key : WF_vars(CompleteFill(k) \/ AbortFill(k))

=============================================================================
