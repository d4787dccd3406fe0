---------------------------- MODULE RequestContract ----------------------------
(***************************************************************************)
(* What the Gateway promises each request, with no circuits, pool, time or *)
(* other requests: providers are called one after the other, none of them  *)
(* twice, each call is accounted for before the next is made, an answer or *)
(* a failure that is not retryable ends the request, and its result is     *)
(* what its calls came to.                                                 *)
(***************************************************************************)
EXTENDS Naturals, Sequences

CONSTANTS
    Threads,     \* the requests that may run at once
    Providers,
    Outcomes,    \* what a call may come to, "success" and "invalid_request" included
    Unbillable   \* whether the ledger may refuse a request's events

VARIABLE request \* [phase, calls, billed, result] of each thread's last request

Fresh == [phase |-> "over", calls |-> <<>>, billed |-> <<>>, result |-> "none"]

Init == request = [t \in Threads |-> Fresh]

\* The ledger's event for a call that came to c.outcome.
Event(c) == [provider |-> c.provider,
             status |-> IF c.outcome = "success" THEN "succeeded" ELSE "failed"]

Last(s) == s[Len(s)]

Final(c) == c.outcome \in {"success", "invalid_request"}

\* A request begins, or ends at once: no provider may serve it.
Begin(t) ==
    /\ request[t].phase = "over"
    /\ request' \in {[request EXCEPT ![t] = [Fresh EXCEPT !.phase = "running"]],
                     [request EXCEPT ![t] = [Fresh EXCEPT !.result = "unavailable"]]}

\* A provider that was not called yet is called; it answers or fails.
Call(t) ==
    LET r == request[t]
    IN  /\ r.phase = "running"
        /\ Len(r.billed) = Len(r.calls)
        /\ \A i \in DOMAIN r.calls : ~Final(r.calls[i])
        /\ \E p \in Providers, o \in Outcomes :
             /\ \A i \in DOMAIN r.calls : r.calls[i].provider # p
             /\ request' = [request EXCEPT ![t].calls =
                              Append(@, [provider |-> p, outcome |-> o])]

\* The last call is accounted for, and ends the request if nothing may follow it.
Account(t) ==
    LET r == request[t]
        c == Last(r.calls)
    IN  /\ r.phase = "running"
        /\ Len(r.calls) = Len(r.billed) + 1
        /\ request' = [request EXCEPT
                         ![t].billed = Append(@, Event(c)),
                         ![t].phase = IF Final(c) THEN "over" ELSE "running",
                         ![t].result = CASE c.outcome = "success" -> "ok"
                                         [] c.outcome = "invalid_request" -> "unavailable"
                                         [] OTHER -> @]

\* Nobody is left to call.
GiveUp(t) ==
    /\ request[t].phase = "running"
    /\ Len(request[t].billed) = Len(request[t].calls)
    /\ request' = [request EXCEPT ![t].phase = "over", ![t].result = "unavailable"]

\* The ledger refuses the first call's event.
Fail(t) ==
    /\ Unbillable
    /\ request[t].phase = "running"
    /\ request[t].billed = <<>> /\ request[t].calls # <<>>
    /\ request' = [request EXCEPT ![t].phase = "over", ![t].result = "error"]

Next == \E t \in Threads : Begin(t) \/ Call(t) \/ Account(t) \/ GiveUp(t) \/ Fail(t)

Spec == Init /\ [][Next]_request
=============================================================================
