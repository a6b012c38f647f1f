------------------------------ MODULE HomePage ------------------------------
(***************************************************************************)
(* pages/HomePage.tsx: the catalog.  The filters live in the URL; an       *)
(* effect that runs after a render with other filters cancels the former   *)
(* search and sends a new one.  Between the new URL and the effect an      *)
(* answer to the former search may still come.                             *)
(***************************************************************************)
EXTENDS Client

CONSTANTS
    Params,         \* "q", "category", "min_price", "max_price"
    Values,         \* what each of them can be set to
    NoValue,        \* an absent parameter
    NoUrl           \* the page is not mounted, or no effect has run yet

VARIABLES
    url,            \* searchParams, or NoUrl
    homeKey,        \* dependencies of the effect that ran last, or NoUrl
    home            \* the hooks: [results, loading, error]

homeVars == <<url, homeKey, home>>

Urls ==
    {u \in [Params -> {NoValue} \cup UNION {Values[p] : p \in Params}] :
        \A p \in Params : u[p] \in Values[p] \cup {NoValue}}
NoFilters == [p \in Params |-> NoValue]

ASSUME HomeAssumption == NoUrl \notin Urls

HomeTypeOK ==
    /\ url \in Urls \cup {NoUrl}
    /\ homeKey \in Urls \cup {NoUrl}
    /\ home \in [results : Urls \cup {NoUrl}, loading : BOOLEAN,
                 error : BOOLEAN]

FreshHome == [results |-> NoUrl, loading |-> TRUE, error |-> FALSE]

HomeInit == url = NoUrl /\ homeKey = NoUrl /\ home = FreshHome

\* The route "/" is entered, or its query string changes.
HomeOpen(u) ==
    /\ url' = u
    /\ UNCHANGED <<homeKey, home, calls>>

\* Unmounted: the cleanup of the effect runs, the hooks are gone.
HomeLeave ==
    /\ url # NoUrl
    /\ url' = NoUrl /\ homeKey' = NoUrl /\ home' = FreshHome
    /\ Cancel("search")

\* Mutant: the cleanup does not cancel.
StartSearchUncancelled == Send("search", url)

StartSearch == CancelAndSend("search", url)

\* useEffect, whenever a filter has changed.
HomeEffect ==
    /\ url # NoUrl /\ url # homeKey
    /\ homeKey' = url
    /\ home' = [home EXCEPT !.loading = TRUE, !.error = FALSE]
    /\ StartSearch
    /\ UNCHANGED url

\* A filter of the sidebar; "" removes the parameter.  The search text is not
\* one of them: it comes from the navigation bar.
UpdateParam ==
    /\ url # NoUrl
    /\ \E p \in Params \ {"q"} : \E v \in Values[p] \cup {NoValue} :
          HomeOpen([url EXCEPT ![p] = v])

ClearAllFilters ==
    /\ url \notin {NoUrl, NoFilters}
    /\ HomeOpen(NoFilters)

\* .then and .finally of an effect that was not cancelled.
SearchAnswered(c) ==
    /\ calls[c].api = "search"
    /\ Over(c)
    /\ home' = IF calls[c].live
               THEN [home EXCEPT !.results = calls[c].key, !.loading = FALSE]
               ELSE home
    /\ UNCHANGED <<url, homeKey>>

\* Mutant: .finally is forgotten, .then hides the spinner.
AfterFailedSearchForever == [home EXCEPT !.error = TRUE]

\* .catch and .finally.
AfterFailedSearch == [home EXCEPT !.error = TRUE, !.loading = FALSE]

SearchFailed(c) ==
    /\ calls[c].api = "search"
    /\ Over(c)
    /\ home' = IF calls[c].live THEN AfterFailedSearch ELSE home
    /\ UNCHANGED <<url, homeKey>>

SearchEnds(c) == SearchAnswered(c) \/ SearchFailed(c)

HomeStep ==
    \/ HomeEffect \/ UpdateParam \/ ClearAllFilters
    \/ \E c \in Calls : SearchEnds(c)

\* The results section of the page.
HomePhase ==
    CASE homeKey = NoUrl -> "blank"
      [] homeKey # NoUrl /\ home.loading -> "loading"
      [] homeKey # NoUrl /\ ~home.loading /\ home.error -> "failed"
      [] OTHER -> "ready"

HomeShows == IF HomePhase = "ready" THEN home.results ELSE NoUrl

\* The page on its own, entered and left and its query string changed by the
\* rest of the application, which does not touch its searches.
SearchesKept ==
    /\ calls' = [c \in Calls |-> calls'[c]]
    /\ \A c \in Calls : "search" \in {calls[c].api, calls'[c].api}
                            => calls'[c] = calls[c]

Elsewhere == UNCHANGED homeVars /\ SearchesKept

HomeNext ==
    \/ HomeStep
    \/ \E u \in Urls : HomeOpen(u)
    \/ HomeLeave
    \/ Elsewhere

HomeSpec ==
    /\ HomeInit /\ calls = [c \in Calls |-> Free]
    /\ [][HomeNext]_<<homeVars, calls>>

-----------------------------------------------------------------------------
(* Properties                                                              *)

\* "Guard against state updates after unmount or after the user has started a
\* newer search (avoids race conditions where a slow request overwrites a
\* fresh one)" (HomePage.tsx:61-63): the catalog is a view of its filters.
HomeView == INSTANCE View WITH
    Keys <- Urls, NoKey <- NoUrl, asked <- homeKey,
    phase <- HomePhase, shown <- HomeShows

HomeImplementsView == HomeView!ViewSpec

\* "Searching products..." ends once the customer leaves the filters alone and
\* the effect of the last render has run: whether the search is answered or
\* fails, .finally hides the spinner (HomePage.tsx:69-71).
HomeSettles ==
    \/ []<><<TRUE>>_url
    \/ []<>(url # homeKey \/ url = NoUrl \/ ~home.loading)
=============================================================================
