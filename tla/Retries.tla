------------------------------- MODULE Retries -------------------------------
(***************************************************************************)
(* The five retry loops: fetchWithRetry and commitWithRetry of the Kafka   *)
(* source, writeWithRetry of the Kafka sink, the insert of the Postgres    *)
(* sink and sendWithRetry of the HTTP sink.  A behaviour is one call of    *)
(* one loop.  Pauses are time.Durations of 64 bits.                        *)
(***************************************************************************)
EXTENDS Int64

CONSTANTS
    Loops,          \* of "fetch", "commit", "kafka", "postgres", "http"
    Options,        \* the numbers of retries asked for
    NegativeFor,    \* the loops that are also asked for -1
    AskSeconds,     \* the Retry-After of an HTTP answer that has one
    AttemptBound    \* where the counters stop: above every option's retries

VARIABLES
    loop, option, max,      \* the loop, its option and what applyDefaults made of it
    pc,                     \* "call", "pause", "returned"
    attempt, calls,
    pause, asked, longest,  \* the pause, the seconds asked for, the longest own pause
    cancelled, live, late,  \* ctx; ctx at the start of the pause; calls since its end
    accepted, permanent, result

config == <<loop, option, max>>
ends == <<accepted, permanent, result>>
vars == <<config, pc, attempt, calls, pause, asked, longest, cancelled, live, late, ends>>

-----------------------------------------------------------------------------
(* applyDefaults *)

KafkaSourceRetries(l, n) == IF n # 0 THEN n ELSE IF l = "fetch" THEN 5 ELSE 3

\* KafkaSink and PostgresSink.
SinkRetries(n) == IF n = 0 THEN 3 ELSE n

HTTPRetries(n) == IF n < 0 THEN 0 ELSE n

MaxRetries(l, n) ==
    CASE l \in {"fetch", "commit"} -> KafkaSourceRetries(l, n)
      [] l = "http" -> HTTPRetries(n)
      [] OTHER -> SinkRetries(n)

retryForever == loop = "fetch" /\ max < 0

Init ==
    /\ loop \in Loops
    /\ option \in Options \cup (IF loop \in NegativeFor THEN {-1} ELSE {})
    /\ max = MaxRetries(loop, option)
    /\ pc = "call" /\ attempt = 0 /\ calls = 0
    /\ pause = Zero /\ asked = 0 /\ longest = Zero
    /\ cancelled = FALSE /\ live = TRUE /\ late = 0
    /\ accepted = FALSE /\ permanent = FALSE /\ result = "none"

-----------------------------------------------------------------------------
(* One attempt *)

Return(r) == pc' = "returned" /\ result' = r

Succ(n) == IF n < AttemptBound THEN n + 1 ELSE n

Made == calls' = Succ(calls) /\ late' = IF cancelled THEN Succ(late) ELSE late

Attempting == pc = "call" /\ (retryForever \/ attempt <= max)

CallSucceeds ==
    /\ Attempting /\ Made /\ Return("ok") /\ accepted' = TRUE
    /\ UNCHANGED <<config, attempt, pause, asked, longest, cancelled, live, permanent>>

\* The source looks at ctx after an error; the sinks only when they pause.
CallCancelled ==
    /\ Attempting /\ Made /\ cancelled /\ loop \in {"fetch", "commit"} /\ Return("cancelled")
    /\ UNCHANGED <<config, attempt, pause, asked, longest, cancelled, live, accepted, permanent>>

\* A 4xx answer other than 429.
CallRefused ==
    /\ Attempting /\ Made /\ loop = "http" /\ Return("failed") /\ permanent' = TRUE
    /\ UNCHANGED <<config, attempt, pause, asked, longest, cancelled, live, accepted>>

Fails ==
    /\ Attempting /\ Made
    /\ ~(cancelled /\ loop \in {"fetch", "commit"})

\* The last attempt: the loop's condition ends it.
CallFailsLast ==
    /\ Fails /\ ~retryForever /\ attempt = max
    /\ attempt' = Succ(attempt)
    /\ UNCHANGED <<config, pc, pause, asked, longest, cancelled, live, ends>>

\* 1<<attempt seconds; only fetchWithRetry has a cap.
Backoff ==
    LET d == Shl(Seconds(1), attempt)
    IN  IF loop = "fetch" /\ Less(Seconds(30), d) THEN Seconds(30) ELSE d

\* The server may say when to come back, in seconds.
CallFails ==
    /\ Fails /\ (retryForever \/ attempt < max)
    /\ asked' \in {0} \cup (IF loop = "http" THEN {AskSeconds} ELSE {})
    /\ pause' = IF asked' > 0 THEN Seconds(asked') ELSE Backoff
    /\ longest' = IF asked' = 0 /\ Less(longest, Backoff) THEN Backoff ELSE longest
    /\ pc' = "pause" /\ live' = ~cancelled
    /\ UNCHANGED <<config, attempt, cancelled, ends>>

-----------------------------------------------------------------------------
(* Between the attempts *)

\* Mutant of PauseEnds: ctx is not looked at.
PauseEndsAnyway ==
    /\ pc = "pause"
    /\ pc' = "call" /\ attempt' = Succ(attempt)
    /\ UNCHANGED <<config, calls, pause, asked, longest, cancelled, live, late, ends>>

\* The timer: a select that begins with ctx done sees it first, unless the
\* timer needs no time.
PauseEnds ==
    /\ pc = "pause" /\ (live \/ ~Positive(pause))
    /\ pc' = "call" /\ attempt' = Succ(attempt)
    /\ UNCHANGED <<config, calls, pause, asked, longest, cancelled, live, late, ends>>

PauseCancelled ==
    /\ pc = "pause" /\ cancelled /\ Return("cancelled")
    /\ UNCHANGED <<config, attempt, calls, pause, asked, longest, cancelled, live, late, accepted, permanent>>

\* lastErr, which is nil when there was no attempt; the commit and the insert
\* leave it to their failure policy.
LoopEnds ==
    /\ pc = "call" /\ ~retryForever /\ attempt > max
    /\ Return(IF loop \in {"commit", "postgres"} THEN "policy"
              ELSE IF loop # "fetch" /\ calls = 0 THEN "ok" ELSE "failed")
    /\ UNCHANGED <<config, attempt, calls, pause, asked, longest, cancelled, live, late, accepted, permanent>>

Cancel ==
    /\ pc # "returned" /\ ~cancelled /\ cancelled' = TRUE
    /\ UNCHANGED <<config, pc, attempt, calls, pause, asked, longest, live, late, ends>>

Done == pc = "returned" /\ UNCHANGED vars

Loop == \/ CallSucceeds \/ CallCancelled \/ CallRefused \/ CallFailsLast \/ CallFails
        \/ PauseEnds \/ PauseCancelled \/ LoopEnds

Next == Loop \/ Cancel \/ Done

\* A call returns and a timer fires.
Spec == Init /\ [][Next]_vars /\ WF_vars(Loop)

-----------------------------------------------------------------------------
(* Properties. *)

\* No error means that a call was accepted: flushBatch and flush count the
\* batch as written when they get nil.
NilMeansAccepted == result = "ok" => accepted

\* The pauses the loop chooses itself take time and never get shorter.
PausesGrow ==
    [][pc = "call" /\ pc' = "pause" /\ asked' = 0
         => Positive(pause') /\ ~Less(pause', longest)]_vars

\* A loop that gives up on retryable errors has made the first attempt and
\* as many retries as its option said.
AllTriesMade ==
    result \in {"failed", "policy"} /\ ~permanent /\ option > 0 => calls = option + 1

\* After ctx is done, at most one more call is made: also by the sinks, which
\* look at ctx only while they pause, and when the timer wins the select.
CancelStops == late <= 1

=============================================================================
