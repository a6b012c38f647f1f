------------------------------- MODULE Client -------------------------------
(***************************************************************************)
(* api/client.ts as the pages see it: requests in flight, each of which is *)
(* answered or fails at some time and in any order.  Nothing aborts a      *)
(* request; what a page can do is to remember that it wants no answer any  *)
(* more, in the `cancelled` flag of the effect that sent it.               *)
(***************************************************************************)
EXTENDS Naturals

CONSTANT MaxCalls       \* bound: requests in flight at a time

ASSUME ClientAssumption == MaxCalls \in Nat \ {0}

VARIABLE calls          \* calls[c]: [api, key, live], live until cancelled

Calls == 1 .. MaxCalls
Free == [api |-> "none", key |-> "none", live |-> FALSE]

Call(api, k) == [api |-> api, key |-> k, live |-> TRUE]

\* fetch() in the first free place.
NextPlace(c) == calls[c] = Free /\ \A d \in 1 .. (c - 1) : calls[d] # Free

Send(api, k) ==
    \E c \in Calls :
        NextPlace(c) /\ calls' = [calls EXCEPT ![c] = Call(api, k)]

\* cancelled = true, for what the former effect of a page has sent.
Cancelled(api) ==
    [c \in Calls |-> IF calls[c].api = api THEN [calls[c] EXCEPT !.live = FALSE]
                     ELSE calls[c]]

Cancel(api) == calls' = Cancelled(api)

CancelAndSend(api, k) ==
    \E c \in Calls :
        /\ NextPlace(c)
        /\ calls' = [Cancelled(api) EXCEPT ![c] = Call(api, k)]

\* A promise is settled.
Over(c) == calls' = [calls EXCEPT ![c] = Free]

Pending(api, k) == \E c \in Calls : calls[c].api = api /\ calls[c].key = k
=============================================================================
