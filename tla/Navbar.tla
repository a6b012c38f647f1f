------------------------------- MODULE Navbar -------------------------------
(***************************************************************************)
(* components/Navbar.tsx: the search box with its suggestions.  Typing     *)
(* restarts a timer of 200 ms; when it fires a request is sent, and        *)
(* requests are never cancelled: a slow answer comes up whatever the box   *)
(* holds by then.  Input events are discrete, so the effect of a new text  *)
(* runs before the next event.                                             *)
(***************************************************************************)
EXTENDS Client

CONSTANTS
    Texts,          \* what the search box may hold
    ShortTexts,     \* those with fewer than two characters
    Empty,          \* the empty text, one of them
    Trim,           \* query.trim()
    NoText          \* no timer is running, nothing is suggested

ASSUME TextAssumption ==
    /\ ShortTexts \subseteq Texts /\ Empty \in ShortTexts
    /\ Trim \in [Texts -> Texts] /\ Trim[Empty] = Empty

VARIABLES
    query,
    timer,          \* the text for which the timer runs, or NoText
    suggested,      \* the text whose suggestions are listed, NoText for none
    open,           \* showSuggestions
    late,           \* history: the list came for another text than the box's
    dismissed       \* history: the list was closed when nothing was under way

navbarVars == <<query, timer, suggested, open, late, dismissed>>

NavbarTypeOK ==
    /\ query \in Texts
    /\ timer \in Texts \cup {NoText}
    /\ suggested \in Texts \cup {NoText}
    /\ open \in BOOLEAN /\ late \in BOOLEAN /\ dismissed \in BOOLEAN

NavbarInit ==
    /\ query = Empty
    /\ timer = NoText
    /\ suggested = NoText
    /\ open = FALSE /\ late = FALSE /\ dismissed = FALSE

\* Mutant: the list of the former text stays with a short one.
ShortTextKeeps(t) == suggested

\* setSuggestions([]) for a short text.
AfterText(t) == IF t \in ShortTexts THEN NoText ELSE suggested

\* clearTimeout of the former text, setTimeout for a long enough one.
TimerAfter(t) == IF t \in ShortTexts THEN NoText ELSE t

\* setQuery(t), and the effect if the text is another one.
SetQuery(t) ==
    /\ query' = t
    /\ IF t = query THEN UNCHANGED <<timer, suggested, late>>
       ELSE /\ timer' = TimerAfter(t)
            /\ suggested' = AfterText(t)
            /\ late' = FALSE

Type(t) ==
    /\ t # query
    /\ SetQuery(t)
    /\ dismissed' = FALSE
    /\ UNCHANGED <<open, calls>>

\* The cross in the box.  The list is emptied, not closed.
Clear ==
    /\ query # Empty
    /\ query' = Empty
    /\ timer' = NoText
    /\ suggested' = NoText
    /\ late' = FALSE
    /\ dismissed' = FALSE
    /\ UNCHANGED <<open, calls>>

TimerFires ==
    /\ timer # NoText
    /\ Send("autocomplete", timer)
    /\ timer' = NoText
    /\ UNCHANGED <<query, suggested, open, late, dismissed>>

\* setSuggestions(results), and the list opens if there are any.
SuggestionsCome(c) ==
    /\ calls[c].api = "autocomplete"
    /\ Over(c)
    /\ \E any \in BOOLEAN :
          /\ suggested' = IF any THEN calls[c].key ELSE NoText
          /\ open' = any
    /\ late' = (calls[c].key # query)
    /\ UNCHANGED <<query, timer, dismissed>>

\* The list is emptied, not closed.
SuggestionsFail(c) ==
    /\ calls[c].api = "autocomplete"
    /\ Over(c)
    /\ suggested' = NoText
    /\ UNCHANGED <<query, timer, open, late, dismissed>>

NothingUnderWay == timer = NoText /\ \A c \in Calls : calls[c].api # "autocomplete"

\* Mutant: handleSearch forgets setShowSuggestions(false).
CloseForgotten == open

\* setShowSuggestions(false)
Close == FALSE

\* A click outside of the box, or a search with a blank text.
Dismiss ==
    /\ open' = Close
    /\ dismissed' = NothingUnderWay
    /\ UNCHANGED <<query, timer, suggested, late, calls>>

\* Enter: the list is closed, and a text is searched for on the home page.
\* The timer is left running: the list may open again over the results.
SubmitSearch == Trim[query] # Empty /\ Dismiss

\* A click on a suggestion, which goes into the box.
PickSuggestion(t) ==
    /\ open /\ suggested # NoText
    /\ SetQuery(t)
    /\ open' = FALSE
    /\ dismissed' = FALSE
    /\ UNCHANGED calls

Focus ==
    /\ suggested # NoText
    /\ open' = TRUE
    /\ dismissed' = FALSE
    /\ UNCHANGED <<query, timer, suggested, late, calls>>

SuggestionsEnd(c) == SuggestionsCome(c) \/ SuggestionsFail(c)

NavbarStep ==
    \/ \E t \in Texts : Type(t)
    \/ Clear \/ TimerFires \/ Dismiss \/ Focus
    \/ \E c \in Calls : SuggestionsEnd(c)

-----------------------------------------------------------------------------
(* Properties                                                              *)

\* What is suggested is for the text in the box, or the next suggestions are
\* on their way, or the answer came late: requests in flight are not cancelled
\* when the text changes (Navbar.tsx:29-46).
SuggestionsLagForAReason ==
    suggested \notin {query, NoText} =>
        late \/ timer = query \/ Pending("autocomplete", query)

\* A list that was closed when no request was under way stays closed until
\* the customer comes back to the box (Navbar.tsx:48-63).  Otherwise it may
\* open again by itself, over the results of the search.
StaysDismissed == dismissed => ~open
=============================================================================
