------------------------------- MODULE Backoff -------------------------------
(***************************************************************************)
(* withExponentialBackoff: one call of the retry loop, with any sequence   *)
(* of outcomes of the wrapped function.                                    *)
(*                                                                         *)
(* An error is what isRetryableError looks at: whether it is an Error,     *)
(* whether its message has a pattern of a revert, whether its code or its  *)
(* message is one of a network fault.  Real messages have several at once: *)
(* a reverted call can name the socket it came through.                    *)
(***************************************************************************)
EXTENDS Integers, Sequences

CONSTANT Options   \* the options tried: maxAttempts, baseDelayMs, maxDelayMs;
                   \* maxAttempts 0 also stands for NaN, which no number is below

ASSUME BackoffAssumption ==
  Options \subseteq [maxAttempts : Nat, baseDelayMs : Nat, maxDelayMs : Nat]

VARIABLES
  opt,       \* the options of this call
  loop,      \* "idle", "head", "fn", "sleep" or how the call ended
  attempt,   \* the loop variable
  fnCalls,   \* calls of fn so far
  error,     \* the last error of fn
  delays     \* the delays slept so far

backoffVars == <<opt, loop, attempt, fnCalls, error, delays>>

Errors  == [isError : BOOLEAN, reverts : BOOLEAN, code : BOOLEAN, network : BOOLEAN]
NoError == [isError |-> FALSE, reverts |-> FALSE, code |-> FALSE, network |-> FALSE]

BackoffInit ==
  /\ opt = [maxAttempts |-> 0, baseDelayMs |-> 0, maxDelayMs |-> 0]
  /\ loop = "idle"
  /\ attempt = 0
  /\ fnCalls = 0
  /\ error = NoError
  /\ delays = <<>>

\* isRetryableError: the revert patterns decide before code and message.
IsRetryableError(e) == e.isError /\ ~ e.reverts /\ (e.code \/ e.network)

\* Mutant: the cap is applied before doubling.
DelayCappedEarly(a) ==
  (IF opt.baseDelayMs < opt.maxDelayMs THEN opt.baseDelayMs ELSE opt.maxDelayMs) * 2^a

\* Math.min(baseDelayMs * 2 ** attempt, maxDelayMs).
Delay(a) ==
  LET doubled == opt.baseDelayMs * 2^a
  IN  IF doubled < opt.maxDelayMs THEN doubled ELSE opt.maxDelayMs

\* Mutant: the last attempt is recognised one too late.
IsLastOffByOne == attempt = opt.maxAttempts

IsLast == attempt = opt.maxAttempts - 1

\* A caller's options, or the defaults.
Begin(o) ==
  /\ loop = "idle"
  /\ opt' = o
  /\ loop' = "head"
  /\ UNCHANGED <<attempt, fnCalls, error, delays>>

\* for (...; attempt < maxAttempts; ...) await fn()
CallFn ==
  /\ loop = "head" /\ attempt < opt.maxAttempts
  /\ loop' = "fn"
  /\ fnCalls' = fnCalls + 1
  /\ UNCHANGED <<opt, attempt, error, delays>>

FnReturns ==
  /\ loop = "fn"
  /\ loop' = "returned"
  /\ UNCHANGED <<opt, attempt, fnCalls, error, delays>>

\* The catch block: rethrow, or sleep.
FnRejects(e) ==
  /\ loop = "fn"
  /\ error' = e
  /\ IF IsLast \/ ~ IsRetryableError(e)
     THEN loop' = "thrown" /\ UNCHANGED delays
     ELSE loop' = "sleep" /\ delays' = Append(delays, Delay(attempt))
  /\ UNCHANGED <<opt, attempt, fnCalls>>

\* The sleep is over: attempt++.
Wake ==
  /\ loop = "sleep"
  /\ attempt' = attempt + 1
  /\ loop' = "head"
  /\ UNCHANGED <<opt, fnCalls, error, delays>>

\* The loop is left at its condition: throw new Error('unreachable').
LoopLeft ==
  /\ loop = "head" /\ attempt >= opt.maxAttempts
  /\ loop' = "unreachable"
  /\ UNCHANGED <<opt, attempt, fnCalls, error, delays>>

BackoffNext ==
  \/ \E o \in Options : Begin(o)
  \/ CallFn \/ FnReturns \/ (\E e \in Errors : FnRejects(e)) \/ Wake \/ LoopLeft

BackoffSpec == BackoffInit /\ [][BackoffNext]_backoffVars

----------------------------------------------------------------------------
(* Safety *)

\* A call ends with fn's own result or error: it gives up a transient error
\* only when every attempt is spent, never makes more attempts than allowed,
\* reaches the "unreachable" throw only when no attempt was allowed at all (the
\* loop condition against isLast, and maxAttempts 0), and never sends a reverted
\* transaction again, whatever else the error's message or code looks like
\* (isRetryableError's order of tests).
EndsWithOwnOutcome ==
  /\ fnCalls <= opt.maxAttempts
  /\ loop = "thrown" /\ IsRetryableError(error) => fnCalls = opt.maxAttempts
  /\ loop = "unreachable" => opt.maxAttempts = 0
  /\ loop = "sleep" => ~ error.reverts

\* Every sleep is within the cap, sleeps never shrink, below the cap each is
\* twice the one before, and there is one fewer than attempts.
DelaysGrowToCap ==
  /\ Len(delays) < opt.maxAttempts \/ delays = <<>>
  /\ \A k \in 1..Len(delays) : delays[k] <= opt.maxDelayMs
  /\ \A k \in 2..Len(delays) :
       \/ delays[k] = 2 * delays[k - 1]
       \/ delays[k] = opt.maxDelayMs /\ 2 * delays[k - 1] >= opt.maxDelayMs

----------------------------------------------------------------------------
(* Inductive invariant *)

Places == {"idle", "head", "fn", "sleep", "returned", "thrown", "unreachable"}

\* What the loop variable says at each place: the calls made, the sleeps taken,
\* and that a further attempt is still allowed (isLast against the loop
\* condition: a sleep is only taken when another attempt follows).
LoopCounts ==
  /\ loop = "idle" => attempt = 0 /\ fnCalls = 0 /\ delays = <<>>
  /\ loop = "head" => /\ fnCalls = attempt /\ Len(delays) = attempt
                      /\ attempt = 0 \/ attempt < opt.maxAttempts
  /\ loop = "fn" => /\ fnCalls = attempt + 1 /\ Len(delays) = attempt
                    /\ attempt < opt.maxAttempts
  /\ loop = "sleep" => /\ fnCalls = attempt + 1 /\ Len(delays) = attempt + 1
                       /\ attempt + 1 < opt.maxAttempts
  /\ Len(delays) < opt.maxAttempts \/ delays = <<>>

\* The inductive invariant: the k-th sleep is the delay of attempt k - 1.
BackoffInv ==
  /\ opt \in [maxAttempts : Nat, baseDelayMs : Nat, maxDelayMs : Nat]
  /\ loop \in Places /\ attempt \in Nat /\ fnCalls \in Nat
  /\ error \in Errors /\ delays \in Seq(Nat)
  /\ LoopCounts
  /\ EndsWithOwnOutcome
  /\ \A k \in 1..Len(delays) : delays[k] = Delay(k - 1)
=============================================================================
