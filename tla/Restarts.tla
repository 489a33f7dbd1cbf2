------------------------------- MODULE Restarts -------------------------------
(***************************************************************************)
(* The restart policy of the control plane (control/lifecycle) over the    *)
(* runs of one job that keeps failing: ShouldRestart and Backoff as        *)
(* maybeRestart calls them, from the policy NewController settles on.      *)
(* Durations are seconds in 64 bits.                                       *)
(***************************************************************************)
EXTENDS Int64

CONSTANTS
    Attempts,      \* values of MaxAttempts
    Bases, Caps,   \* values of BaseBackoff and MaxBackoff, in seconds
    RunBound       \* where a job that restarts for ever is left alone

VARIABLES
    given, policy,     \* Options.Restart, and the controller's policy
    attempt,           \* Run.Attempt of the newest run
    state,             \* "running", "waiting", "ended"
    wait, prev         \* the backoff before the next run, and the one before

vars == <<given, policy, attempt, state, wait, prev>>

DefaultRestartPolicy == [max |-> 5, base |-> Seconds(2), cap |-> Seconds(60)]

NoPolicy == [max |-> 0, base |-> Zero, cap |-> Zero]

\* NewController: the zero policy stands for the default.
Settle(p) == IF p = NoPolicy THEN DefaultRestartPolicy ELSE p

\* Mutant of ShouldRestart: one attempt too many.
ShouldRestartOneMore(p, n) == p.max > 0 /\ n <= p.max

ShouldRestart(p, n) == p.max > 0 /\ n < p.max

Capped(p, d) == Positive(p.cap) /\ ~Less(d, p.cap)

\* The loop doubles and caps after each doubling; the first wait is BaseBackoff.
Backoff(p, n) ==
    LET doubled == {i \in 1 .. n - 1 : Capped(p, Shl(p.base, i))}
    IN  IF doubled # {} THEN p.cap ELSE Shl(p.base, n - 1)

Init ==
    /\ given \in [max : Attempts, base : {Seconds(s) : s \in Bases}, cap : {Seconds(s) : s \in Caps}]
    /\ policy = Settle(given)
    /\ attempt = 1 /\ state = "running" /\ wait = Zero /\ prev = Zero

\* handleExit with a nonzero exit code, then maybeRestart up to the wait.
Fail ==
    /\ state = "running"
    /\ IF ShouldRestart(policy, attempt) /\ attempt < RunBound
       THEN state' = "waiting" /\ wait' = Backoff(policy, attempt) /\ prev' = wait
       ELSE state' = "ended" /\ UNCHANGED <<wait, prev>>
    /\ UNCHANGED <<given, policy, attempt>>

Launch ==
    /\ state = "waiting" /\ state' = "running" /\ attempt' = attempt + 1
    /\ UNCHANGED <<given, policy, wait, prev>>

Done == state = "ended" /\ UNCHANGED vars

Next == Fail \/ Launch \/ Done

Spec == Init /\ [][Next]_vars

-----------------------------------------------------------------------------
(* Properties. *)

\* A job that always fails runs MaxAttempts times in all, whatever its waits:
\* never once more, and it is given up only after the last attempt.
Bounded ==
    policy.max \in 1 .. RunBound - 1 =>
        attempt <= policy.max /\ (state = "ended" => attempt = policy.max)

\* The wait doubles from run to run until it reaches the cap, and then stays.
Doubles ==
    state = "waiting" /\ attempt > 1 => wait = Shl(prev, 1) \/ wait = policy.cap

\* "Exponential, capped at MaxBackoff": no wait exceeds the cap, when there is
\* one.
WaitIsCapped == state = "waiting" /\ Positive(policy.cap) => ~Less(policy.cap, wait)

\* "0 disables automatic restart": a job whose controller was given no
\* attempts is never run again.
ZeroDisables == given.max = 0 => attempt = 1

=============================================================================
