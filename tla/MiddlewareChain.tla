-------------------------- MODULE MiddlewareChain --------------------------
(***************************************************************************)
(* The middleware chain of session::handle_request (session.hpp): global   *)
(* middlewares, then those of the route, then the route itself, driven by  *)
(* the shared index i and the guard last_i of next().                      *)
(*                                                                         *)
(* A middleware is a coroutine that may await next() any number of times,  *)
(* none included, may throw, and may catch what next() lets out.  The      *)
(* coroutines that are under way are a stack.                              *)
(***************************************************************************)
EXTENDS Integers, Sequences

CONSTANTS Global,    \* number of global middlewares
          Local,     \* number of middlewares of the route
          MaxCalls   \* bound on calls of next() by one middleware

ASSUME ChainAssumption ==
    /\ Global \in Nat
    /\ Local \in Nat
    /\ MaxCalls \in Nat

Total == Global + Local
NoIndex == -1    \* SIZE_MAX

VARIABLES i,        \* chain->i
          last,     \* *last_i
          stack,    \* middlewares under way, the innermost last, by their index
          calls,    \* calls of next() by each middleware
          ran,      \* history: what was started, in order; Total is the route
          raising,  \* an exception is on its way out
          outcome   \* what handle_request returned

vars == <<i, last, stack, calls, ran, raising, outcome>>

Middlewares == 0..(Total - 1)

Init ==
    /\ i = 0
    /\ last = NoIndex
    /\ stack = <<>>
    /\ calls = [m \in Middlewares |-> 0]
    /\ ran = <<>>
    /\ raising = FALSE
    /\ outcome = "awaiting"

Running == outcome = "running" /\ ~raising
Top == stack[Len(stack)]
Pop == SubSeq(stack, 1, Len(stack) - 1)

(* The stage i starts, out of n middlewares, and the index moves on by d.  *)
(* The route runs to its end at once and may throw.                        *)
Advance(n, d) ==
    /\ last' = i
    /\ ran' = Append(ran, i)
    /\ IF i < n
       THEN /\ stack' = Append(stack, i)
            /\ i' = i + d
            /\ raising' = FALSE
       ELSE /\ raising' \in BOOLEAN
            /\ UNCHANGED <<stack, i>>

Unchanged == UNCHANGED <<i, last, stack, ran, raising>>

\* Mutant: next() without the guard last_i.
NextStageUnguarded == Advance(Total, 1)

\* Mutant: next() increments the index twice.
NextStageSkips == IF i = last THEN Unchanged ELSE Advance(Total, 2)

(* The body of next().                                                     *)
NextStage == IF i = last THEN Unchanged ELSE Advance(Total, 1)

\* handle_request awaits chain->next().
Enter ==
    /\ outcome = "awaiting"
    /\ outcome' = "running"
    /\ NextStage
    /\ UNCHANGED calls

\* The innermost middleware awaits next().
CallNext ==
    /\ Running /\ stack # <<>>
    /\ calls[Top] < MaxCalls
    /\ calls' = [calls EXCEPT ![Top] = @ + 1]
    /\ NextStage
    /\ UNCHANGED outcome

Return ==
    /\ Running /\ stack # <<>>
    /\ stack' = Pop
    /\ UNCHANGED <<i, last, calls, ran, raising, outcome>>

Throw ==
    /\ Running /\ stack # <<>>
    /\ stack' = Pop
    /\ raising' = TRUE
    /\ UNCHANGED <<i, last, calls, ran, outcome>>

\* What a middleware awaited has thrown: it lets the exception out or catches it.
Unwind ==
    /\ outcome = "running" /\ raising /\ stack # <<>>
    /\ stack' = Pop
    /\ UNCHANGED <<i, last, calls, ran, raising, outcome>>

Catch ==
    /\ outcome = "running" /\ raising /\ stack # <<>>
    /\ raising' = FALSE
    /\ UNCHANGED <<i, last, stack, calls, ran, outcome>>

\* The response of the chain, or one made from the exception.
Finish ==
    /\ outcome = "running" /\ stack = <<>>
    /\ outcome' = IF raising THEN "error" ELSE "response"
    /\ UNCHANGED <<i, last, stack, calls, ran, raising>>

Next == Enter \/ CallNext \/ Return \/ Throw \/ Unwind \/ Catch \/ Finish

Spec == Init /\ [][Next]_vars

----------------------------------------------------------------------------
(* Properties.                                                             *)

TypeOK ==
    /\ i \in 0..Total
    /\ last \in (0..Total) \cup {NoIndex}
    /\ stack \in Seq(Middlewares)
    /\ calls \in [Middlewares -> Nat]
    /\ ran \in Seq(0..Total)
    /\ raising \in BOOLEAN
    /\ outcome \in {"awaiting", "running", "response", "error"}

\* Every middleware and the route run at most once for a request, in their
\* order, however often middlewares call next() and whatever they throw or catch.
OnceInOrder == \A n \in 1..Len(ran) : ran[n] = n - 1

\* A middleware that does not call next() stops the request: nothing behind it
\* in the chain runs ("Middleware can short-circuit").
NoBypass ==
    \A m \in Middlewares : calls[m] = 0 => \A n \in 1..Len(ran) : ran[n] <= m

\* It does as long as no middleware of the request calls next() a second time.
CalledOnce == \A m \in Middlewares : calls[m] <= 1
ShortCircuits == CalledOnce => NoBypass
=============================================================================
