----------------------------- MODULE RateLimit -----------------------------
(***************************************************************************)
(* RateLimiter.allow (src/api/ratelimit.py): the fixed-window limiter of   *)
(* the control plane, for one client key.  A request thread reads the      *)
(* clock, then waits for the lock, so the time it counts its hit at may be *)
(* older than the window it finds.                                         *)
(***************************************************************************)
EXTENDS Naturals, Functions

CONSTANTS Threads,
          MaxRequests,  \* max_requests
          Window,     \* window_seconds
          MaxClock,   \* bound on time
          MaxDelay,   \* bound on the wait for the lock
          MaxRefused  \* bound: refusals counted in one window

VARIABLES clock,
          start,      \* _hits[key][0], or NoEntry when there is no entry
          count,      \* _hits[key][1]
          thread,     \* per thread the time it has read, or Idle
          allowed     \* the hits allowed at each time since a reset (history)

vars == <<clock, start, count, thread, allowed>>
NoEntry == MaxClock + 1
Idle == MaxClock + 1

Init ==
    /\ clock = 0 /\ start = NoEntry /\ count = 0
    /\ thread = [t \in Threads |-> Idle] /\ allowed = [c \in 0..MaxClock |-> 0]

(* now = time.time(), before the lock.                                     *)
ReadClock(t) ==
    /\ thread[t] = Idle
    /\ thread' = [thread EXCEPT ![t] = clock]
    /\ UNCHANGED <<clock, start, count, allowed>>

(* A window is over when the time read lies a whole window after its start.*)
OverEarly(now, from) == now >= from                      \* mutant: every hit opens a window
Over(now, from) == now >= from + Window
Opens(now) == IF start = NoEntry THEN TRUE ELSE Over(now, start)

Hit(t) ==
    LET from == IF Opens(thread[t]) THEN thread[t] ELSE start
        n == IF Opens(thread[t]) THEN 1 ELSE count + 1
    IN  /\ thread[t] # Idle /\ n <= MaxRequests + MaxRefused
        /\ start' = from /\ count' = n
        /\ allowed' = IF n <= MaxRequests THEN [allowed EXCEPT ![clock] = @ + 1] ELSE allowed
        /\ thread' = [thread EXCEPT ![t] = Idle]
        /\ UNCHANGED clock

Reset ==
    /\ start' = NoEntry /\ count' = 0 /\ allowed' = [c \in 0..MaxClock |-> 0]
    /\ UNCHANGED <<clock, thread>>

Tick ==
    /\ clock < MaxClock
    /\ \A t \in Threads : thread[t] # Idle => clock < thread[t] + MaxDelay
    /\ clock' = clock + 1
    /\ UNCHANGED <<start, count, thread, allowed>>

Next == (\E t \in Threads : ReadClock(t) \/ Hit(t)) \/ Reset \/ Tick
Spec == Init /\ [][Next]_vars

AllowedIn(times) == SumFunctionOnSet(allowed, times \cap 0..MaxClock)

(* "return False once it exceeds max within the window": in any stretch of *)
(* one window's length the limiter allows at most the hits of the window   *)
(* that ends in it and the one that begins in it, and of a third when a    *)
(* thread that waited for the lock dates the window it opens back.         *)
StretchBounded ==
    \A s \in 0..MaxClock :
        AllowedIn(s .. (s + Window - 1)) <= (IF MaxDelay = 0 THEN 2 ELSE 3) * MaxRequests

=============================================================================
