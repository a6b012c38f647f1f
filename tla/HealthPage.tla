----------------------------- MODULE HealthPage -----------------------------
(***************************************************************************)
(* pages/HealthPage.tsx.  One check at a time: the button is disabled      *)
(* while one is running.  But in a development build (npm run dev) React's *)
(* StrictMode of main.tsx runs the effect of a mounted page twice, and     *)
(* nothing cancels the first of the two checks.                            *)
(***************************************************************************)
EXTENDS Client, FiniteSets

VARIABLE health     \* the hooks, and strict: a page of a development build

HealthTypeOK ==
    health \in [mounted : BOOLEAN, strict : BOOLEAN, status : BOOLEAN,
                loading : BOOLEAN, error : BOOLEAN]

FreshHealth == [mounted |-> FALSE, strict |-> FALSE, status |-> FALSE,
                loading |-> TRUE, error |-> FALSE]

HealthInit == health = FreshHealth

SecondPlace(d) ==
    calls[d] = Free /\ Cardinality({c \in 1 .. (d - 1) : calls[c] = Free}) = 1

SendTwice(api, k) ==
    \E c, d \in Calls :
        /\ NextPlace(c) /\ SecondPlace(d)
        /\ calls' = [calls EXCEPT ![c] = Call(api, k), ![d] = Call(api, k)]

\* The first call of refresh() in a mounted page, or both of them.
HealthOpen ==
    \E strict \in BOOLEAN :
        /\ health' = [FreshHealth EXCEPT !.mounted = TRUE, !.strict = strict]
        /\ IF strict THEN SendTwice("health", "all") ELSE Send("health", "all")

\* The answers of checks of a page that was left are for nobody.
HealthLeave ==
    /\ health.mounted
    /\ health' = FreshHealth
    /\ Cancel("health")

\* Mutant: the button is not disabled.
MayRefreshAlways == health.mounted

MayRefresh == health.mounted /\ ~health.loading

Refresh ==
    /\ MayRefresh
    /\ health' = [health EXCEPT !.loading = TRUE, !.error = FALSE]
    /\ Send("health", "all")

\* GET /health is answered, or fails: the status is null then.
CheckEnds(c) ==
    /\ calls[c].api = "health"
    /\ Over(c)
    /\ IF ~calls[c].live THEN UNCHANGED health
       ELSE \/ health' = [health EXCEPT !.status = TRUE, !.loading = FALSE]
            \/ health' = [health EXCEPT !.status = FALSE, !.loading = FALSE,
                                        !.error = TRUE]

HealthStep == Refresh \/ \E c \in Calls : CheckEnds(c)

HealthScreen ==
    IF health.loading /\ ~health.status THEN "pinging"
    ELSE IF health.error THEN "unreachable"
    ELSE IF health.status THEN "pills" ELSE "nothing"

-----------------------------------------------------------------------------
(* Property                                                                *)

\* In a production build the page never says "Backend unreachable" over a
\* status that it has, and is never left with nothing to show
\* (HealthPage.tsx:25-38, 63-82).  With two checks at once, as in a
\* development build, the error of one outlives the answer of the other.
HealthIsOneOrTheOther ==
    ~health.strict =>
        /\ ~(health.status /\ HealthScreen = "unreachable")
        /\ HealthScreen # "nothing"
=============================================================================
