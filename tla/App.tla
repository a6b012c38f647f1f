--------------------------------- MODULE App ---------------------------------
(***************************************************************************)
(* App.tsx: the navigation bar above one page at a time.  A page is        *)
(* mounted with fresh hooks when its route is entered and unmounted when   *)
(* the route is left; the requests it has sent stay in flight.             *)
(***************************************************************************)
EXTENDS HomePage, ProductPage, HealthPage, Navbar

VARIABLE route      \* "home", "product", "health", or "other" for a page
                    \* without requests of its own (checkout, admin, 404)

appVars == <<calls, homeVars, productVars, health, navbarVars, route>>

\* No page asks for what cannot be answered: a product that has no number, or
\* suggestions for one character.
Requests ==
    [api : {"search"}, key : Urls, live : BOOLEAN]
    \cup [api : {"product"}, key : Products, live : BOOLEAN]
    \cup [api : {"health"}, key : {"all"}, live : BOOLEAN]
    \cup [api : {"autocomplete"}, key : Texts \ ShortTexts, live : BOOLEAN]

\* Types of the pages and of what they ask the server (App.tsx:42-75).
AppTypeOK ==
    /\ calls \in [Calls -> {Free} \cup Requests]
    /\ route \in {"home", "product", "health", "other"}
    /\ HomeTypeOK /\ ProductTypeOK /\ HealthTypeOK /\ NavbarTypeOK

AppInit ==
    /\ calls = [c \in Calls |-> Free]
    /\ HomeInit /\ ProductInit /\ HealthInit /\ NavbarInit
    /\ route = "other"

PagesUnchanged == UNCHANGED <<homeVars, productVars, health>>

\* Unmounting the page of the route that is left.
LeavePage ==
    CASE route = "home" ->
            HomeLeave /\ UNCHANGED <<productVars, health>>
      [] route = "product" ->
            ProductLeave /\ UNCHANGED <<homeVars, health>>
      [] route = "health" ->
            HealthLeave /\ UNCHANGED <<homeVars, productVars>>
      [] OTHER -> PagesUnchanged /\ UNCHANGED calls

\* A link away from the page: nothing of it is mounted any more.
GoAway ==
    /\ route # "other"
    /\ route' = "other"
    /\ LeavePage
    /\ UNCHANGED navbarVars

\* A page is entered from a page that has been unmounted.
EnterHome(u) ==
    /\ route = "other" /\ route' = "home"
    /\ HomeOpen(u)
    /\ UNCHANGED <<productVars, health, navbarVars>>

EnterProduct(id) ==
    /\ route = "other" /\ route' = "product"
    /\ ProductOpen(id)
    /\ UNCHANGED <<homeVars, health, navbarVars>>

EnterHealth ==
    /\ route = "other" /\ route' = "health"
    /\ HealthOpen
    /\ UNCHANGED <<homeVars, productVars, navbarVars>>

\* Back and forward from one product to another.
AnotherProduct(id) ==
    /\ route = "product" /\ id # productId
    /\ ProductOpen(id)
    /\ UNCHANGED <<homeVars, health, navbarVars, route>>

ASSUME AppAssumption ==
    /\ "q" \in Params
    /\ \A t \in Texts : Trim[t] # Empty => Trim[t] \in Values["q"]

Only(q) == [NoFilters EXCEPT !["q"] = q]

\* navigate("/?q=..."): the search replaces all filters.
ToSearch(q) ==
    IF route = "home"
    THEN url' = Only(q) /\ UNCHANGED <<homeKey, home, productVars, health,
                                       calls, route>>
    ELSE /\ route = "other" /\ route' = "home"
         /\ HomeOpen(Only(q))
         /\ UNCHANGED <<productVars, health>>

SubmitToHome == SubmitSearch /\ ToSearch(Trim[query])

\* Suggestions are names of products: no blanks around them.
Names == {t \in Texts \ {Empty} : Trim[t] = t}

PickToHome == \E t \in Names : PickSuggestion(t) /\ ToSearch(t)

AppNext ==
    \/ HomeStep /\ UNCHANGED <<productVars, health, navbarVars, route>>
    \/ ProductStep /\ UNCHANGED <<homeVars, health, navbarVars, route>>
    \/ HealthStep /\ UNCHANGED <<homeVars, productVars, navbarVars, route>>
    \/ NavbarStep /\ PagesUnchanged /\ UNCHANGED route
    \/ SubmitToHome \/ PickToHome
    \/ GoAway
    \/ \E u \in {NoFilters} : EnterHome(u)
    \/ \E id \in Ids : EnterProduct(id) \/ AnotherProduct(id)
    \/ EnterHealth

CallEnds(c) ==
    \/ SearchEnds(c) /\ UNCHANGED <<productVars, health, navbarVars, route>>
    \/ ProductEnds(c) /\ UNCHANGED <<homeVars, health, navbarVars, route>>
    \/ CheckEnds(c) /\ UNCHANGED <<homeVars, productVars, navbarVars, route>>
    \/ SuggestionsEnd(c) /\ PagesUnchanged /\ UNCHANGED route

\* Every request is answered or given up by the browser or its proxy.
AppFairness == \A c \in Calls : WF_appVars(CallEnds(c))

AppSpec == AppInit /\ [][AppNext]_appVars /\ AppFairness
=============================================================================
