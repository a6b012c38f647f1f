------------------------------- MODULE AppProofs -------------------------------
(***************************************************************************)
(* Theorems about the pages and the navigation bar: first the catalog page *)
(* on its own, a view of its filters for any number of requests in flight, *)
(* then all of them together.  No part of the application touches the      *)
(* requests of another part, so each of them has an invariant of its own,  *)
(* and the catalog page does in the application what HomeSpec says of it   *)
(* alone.                                                                  *)
(***************************************************************************)
EXTENDS App, TLAPS

-----------------------------------------------------------------------------
(* The catalog page: HomePage refines View                                 *)

\* A search in flight was sent by the page for filters of a URL.
SearchesOK ==
    /\ calls = [c \in Calls |-> calls[c]]
    /\ \A c \in Calls : calls[c].api = "search" =>
          /\ calls[c] = [api |-> "search", key |-> calls[c].key,
                         live |-> calls[c].live]
          /\ calls[c].key \in Urls
          /\ calls[c].live \in BOOLEAN

LiveSearch(c) == calls[c].api = "search" /\ calls[c].live

\* The search that is not cancelled is the only one, is for the filters with
\* which the effect ran last, and the spinner waits for it.
OneLiveSearch ==
    /\ \A c \in Calls : LiveSearch(c) =>
          /\ homeKey # NoUrl /\ calls[c].key = homeKey
          /\ home.loading
    /\ \A c, d \in Calls : LiveSearch(c) /\ LiveSearch(d) => c = d

\* The effect clears the error when it shows the spinner.
NoErrorWhileLoading == home.loading => ~home.error

HomeInv ==
    /\ HomeTypeOK
    /\ SearchesOK
    /\ OneLiveSearch
    /\ NoErrorWhileLoading

homeAll == <<homeVars, calls>>

-----------------------------------------------------------------------------
\* URLs that the page navigates to are URLs.
LEMMA UrlsOfFilters ==
    /\ NoFilters \in Urls
    /\ \A u \in Urls, p \in Params : \A v \in Values[p] \cup {NoValue} :
          [u EXCEPT ![p] = v] \in Urls
  <1>1. NoFilters \in Urls
    BY DEF NoFilters, Urls
  <1>2. ASSUME NEW u \in Urls, NEW p \in Params,
               NEW v \in Values[p] \cup {NoValue}
        PROVE  [u EXCEPT ![p] = v] \in Urls
    <2> DEFINE All == {NoValue} \cup UNION {Values[r] : r \in Params}
               w == [u EXCEPT ![p] = v]
    <2>1. v \in All /\ u \in [Params -> All]
      BY DEF Urls
    <2>2. w \in [Params -> All]
      BY <2>1
    <2>3. \A r \in Params : w[r] \in Values[r] \cup {NoValue}
      BY <2>1 DEF Urls
    <2> QED
      BY <2>2, <2>3 DEF Urls
  <1> QED
    BY <1>1, <1>2

\* A promise that is settled leaves its place to others.
LEMMA OverKeeps ==
    ASSUME SearchesOK, NEW c \in Calls, Over(c)
    PROVE  /\ SearchesOK'
           /\ \A d \in Calls : LiveSearch(d)' => LiveSearch(d) /\ d # c
           /\ \A d \in Calls \ {c} : calls'[d] = calls[d]
  <1>1. calls' = [calls EXCEPT ![c] = Free]
    BY DEF Over
  <1>2. calls' = [d \in Calls |-> calls'[d]]
    BY <1>1 DEF SearchesOK
  <1>3. calls'[c] = Free /\ \A d \in Calls \ {c} : calls'[d] = calls[d]
    BY <1>1 DEF SearchesOK
  <1>4. Free.api # "search"
    BY DEF Free
  <1> QED
    BY <1>2, <1>3, <1>4 DEF SearchesOK, LiveSearch

\* Nothing of a cancelled effect is live.
LEMMA CancelledIsDead ==
    ASSUME SearchesOK
    PROVE  \A d \in Calls :
              /\ Cancelled("search")[d].api = calls[d].api
              /\ calls[d].api # "search" => Cancelled("search")[d] = calls[d]
              /\ calls[d].api = "search" => Cancelled("search")[d] =
                    [api |-> "search", key |-> calls[d].key, live |-> FALSE]
  <1> SUFFICES ASSUME NEW d \in Calls
      PROVE  /\ Cancelled("search")[d].api = calls[d].api
             /\ calls[d].api # "search" => Cancelled("search")[d] = calls[d]
             /\ calls[d].api = "search" => Cancelled("search")[d] =
                   [api |-> "search", key |-> calls[d].key, live |-> FALSE]
    OBVIOUS
  <1>1. CASE calls[d].api = "search"
    <2>1. Cancelled("search")[d] = [calls[d] EXCEPT !.live = FALSE]
      BY <1>1 DEF Cancelled
    <2>2. calls[d] = [api |-> "search", key |-> calls[d].key,
                      live |-> calls[d].live]
      BY <1>1 DEF SearchesOK
    <2> QED
      BY <1>1, <2>1, <2>2
  <1>2. CASE calls[d].api # "search"
    BY <1>2 DEF Cancelled
  <1> QED
    BY <1>1, <1>2

\* The cleanup of the effect.
LEMMA CancelKeeps ==
    ASSUME SearchesOK, Cancel("search")
    PROVE  SearchesOK' /\ \A d \in Calls : ~LiveSearch(d)'
  <1>1. calls' = [d \in Calls |-> calls'[d]]
    BY DEF Cancel, Cancelled
  <1>2. ASSUME NEW d \in Calls, calls'[d].api = "search"
        PROVE  /\ calls[d].api = "search"
               /\ calls'[d] = [api |-> "search", key |-> calls[d].key,
                               live |-> FALSE]
    <2>1. calls'[d] = Cancelled("search")[d]
      BY DEF Cancel
    <2> QED
      BY <1>2, <2>1, CancelledIsDead
  <1>3. ASSUME NEW d \in Calls, calls'[d].api = "search"
        PROVE  /\ calls'[d] = [api |-> "search", key |-> calls'[d].key,
                               live |-> calls'[d].live]
               /\ calls'[d].key \in Urls
               /\ calls'[d].live = FALSE
    <2>1. calls[d].key \in Urls
      BY <1>2, <1>3 DEF SearchesOK
    <2>2. calls'[d] = [api |-> "search", key |-> calls[d].key, live |-> FALSE]
      BY <1>2, <1>3
    <2> QED
      BY <2>1, <2>2
  <1> QED
    BY <1>1, <1>3 DEF SearchesOK, LiveSearch

\* The effect: one live search, for the key it was started with.
LEMMA StartKeeps ==
    ASSUME SearchesOK, NEW k \in Urls, CancelAndSend("search", k)
    PROVE  /\ SearchesOK'
           /\ \E c \in Calls : \A d \in Calls :
                 LiveSearch(d)' => d = c /\ calls'[d].key = k
  <1>1. PICK c \in Calls :
           calls' = [Cancelled("search") EXCEPT ![c] = Call("search", k)]
    BY DEF CancelAndSend
  <1>2. calls' = [d \in Calls |-> calls'[d]]
    BY <1>1 DEF Cancelled
  <1>3. calls'[c] = [api |-> "search", key |-> k, live |-> TRUE]
    BY <1>1 DEF Cancelled, Call
  <1>4. ASSUME NEW d \in Calls, d # c, calls'[d].api = "search"
        PROVE  /\ calls'[d] = [api |-> "search", key |-> calls'[d].key,
                               live |-> calls'[d].live]
               /\ calls'[d].key \in Urls
               /\ calls'[d].live = FALSE
    <2>1. calls'[d] = Cancelled("search")[d]
      BY <1>1, <1>4 DEF Cancelled
    <2>2. /\ calls[d].api = "search"
          /\ calls'[d] = [api |-> "search", key |-> calls[d].key,
                          live |-> FALSE]
      BY <1>4, <2>1, CancelledIsDead
    <2>3. calls[d].key \in Urls
      BY <2>2 DEF SearchesOK
    <2> QED
      BY <2>2, <2>3
  <1>5. ASSUME NEW d \in Calls, calls'[d].api = "search"
        PROVE  /\ calls'[d] = [api |-> "search", key |-> calls'[d].key,
                               live |-> calls'[d].live]
               /\ calls'[d].key \in Urls
               /\ calls'[d].live \in BOOLEAN
    <2>1. CASE d = c
      <3>1. calls'[d] = [api |-> "search", key |-> k, live |-> TRUE]
        BY <1>3, <2>1
      <3> QED
        BY <3>1
    <2>2. CASE d # c
      BY <1>4, <1>5, <2>2
    <2> QED
      BY <2>1, <2>2
  <1>6. \A d \in Calls : LiveSearch(d)' => d = c /\ calls'[d].key = k
    <2> SUFFICES ASSUME NEW d \in Calls, LiveSearch(d)'
        PROVE  d = c /\ calls'[d].key = k
      OBVIOUS
    <2>1. CASE d # c
      BY <1>4, <2>1 DEF LiveSearch
    <2>2. CASE d = c
      BY <1>3, <2>2
    <2> QED
      BY <2>1, <2>2
  <1> QED
    BY <1>2, <1>5, <1>6 DEF SearchesOK

-----------------------------------------------------------------------------
\* The inductive invariant holds in every reachable state: it is what makes
\* the `cancelled` flag of HomePage.tsx:50, 73-75 enough.
THEOREM HomeInvariant == HomeSpec => []HomeInv
  <1>1. HomeInit /\ calls = [c \in Calls |-> Free] => HomeInv
    BY DEF HomeInit, FreshHome, HomeInv, HomeTypeOK, SearchesOK, OneLiveSearch,
           NoErrorWhileLoading, LiveSearch, Free
  <1>2. HomeInv /\ [HomeNext]_homeAll => HomeInv'
    <2> SUFFICES ASSUME HomeInv, [HomeNext]_homeAll PROVE HomeInv'
      OBVIOUS
    <2> USE DEF HomeInv
    <2>1. CASE HomeEffect
      <3>1. SearchesOK' /\ \E c \in Calls : \A d \in Calls :
               LiveSearch(d)' => d = c /\ calls'[d].key = url
        BY <2>1, StartKeeps DEF HomeEffect, StartSearch, HomeTypeOK
      <3>2. homeKey' = url /\ url # NoUrl /\ url' = url
        BY <2>1 DEF HomeEffect
      <3>3. HomeTypeOK' /\ home'.loading /\ ~home'.error
        BY <2>1 DEF HomeEffect, HomeTypeOK
      <3> QED
        BY <3>1, <3>2, <3>3 DEF OneLiveSearch, NoErrorWhileLoading
    <2>2. CASE \E u \in Urls : HomeOpen(u)
      BY <2>2 DEF HomeOpen, HomeTypeOK, SearchesOK, OneLiveSearch, LiveSearch,
                  NoErrorWhileLoading
    <2>3. CASE UpdateParam
      <3>1. \E u \in Urls : HomeOpen(u)
        BY <2>3, UrlsOfFilters DEF UpdateParam, HomeTypeOK
      <3> QED
        BY <3>1, <2>2
    <2>4. CASE ClearAllFilters
      <3>1. \E u \in Urls : HomeOpen(u)
        BY <2>4, UrlsOfFilters DEF ClearAllFilters
      <3> QED
        BY <3>1, <2>2
    <2>5. ASSUME NEW c \in Calls, SearchAnswered(c) PROVE HomeInv'
      <3>1. /\ SearchesOK'
            /\ \A d \in Calls : LiveSearch(d)' => LiveSearch(d) /\ d # c
            /\ \A d \in Calls \ {c} : calls'[d] = calls[d]
        BY <2>5, OverKeeps DEF SearchAnswered
      <3>2. HomeTypeOK' /\ NoErrorWhileLoading'
        BY <2>5 DEF SearchAnswered, HomeTypeOK, NoErrorWhileLoading, SearchesOK
      <3>3. OneLiveSearch'
        BY <2>5, <3>1 DEF SearchAnswered, OneLiveSearch, LiveSearch
      <3> QED
        BY <3>1, <3>2, <3>3
    <2>6. ASSUME NEW c \in Calls, SearchFailed(c) PROVE HomeInv'
      <3>1. /\ SearchesOK'
            /\ \A d \in Calls : LiveSearch(d)' => LiveSearch(d) /\ d # c
            /\ \A d \in Calls \ {c} : calls'[d] = calls[d]
        BY <2>6, OverKeeps DEF SearchFailed
      <3>2. HomeTypeOK' /\ NoErrorWhileLoading'
        BY <2>6 DEF SearchFailed, AfterFailedSearch, HomeTypeOK,
                    NoErrorWhileLoading
      <3>3. OneLiveSearch'
        BY <2>6, <3>1 DEF SearchFailed, OneLiveSearch, LiveSearch
      <3> QED
        BY <3>1, <3>2, <3>3
    <2>7. CASE HomeLeave
      <3>1. SearchesOK' /\ \A d \in Calls : ~LiveSearch(d)'
        BY <2>7, CancelKeeps DEF HomeLeave
      <3>2. HomeTypeOK' /\ NoErrorWhileLoading'
        BY <2>7 DEF HomeLeave, FreshHome, HomeTypeOK, NoErrorWhileLoading
      <3> QED
        BY <3>1, <3>2 DEF OneLiveSearch
    <2>8. CASE Elsewhere
      <3>1. UNCHANGED <<url, homeKey, home>>
        BY <2>8 DEF Elsewhere, homeVars
      <3>2. \A d \in Calls : "search" \in {calls[d].api, calls'[d].api}
                                => calls'[d] = calls[d]
        BY <2>8 DEF Elsewhere, SearchesKept
      <3>3. SearchesOK'
        BY <2>8, <3>2 DEF Elsewhere, SearchesKept, SearchesOK
      <3> QED
        BY <3>1, <3>2, <3>3 DEF OneLiveSearch, LiveSearch, HomeTypeOK,
                                NoErrorWhileLoading
    <2>9. CASE UNCHANGED homeAll
      BY <2>9 DEF homeAll, homeVars, HomeTypeOK, SearchesOK, OneLiveSearch,
                  LiveSearch, NoErrorWhileLoading
    <2> QED
      BY <2>1, <2>2, <2>3, <2>4, <2>5, <2>6, <2>7, <2>8, <2>9
         DEF HomeNext, HomeStep, SearchEnds
  <1> QED
    BY <1>1, <1>2, PTL DEF HomeSpec, homeAll

\* The page shows the catalog of the filters it asked for last, the spinner or
\* an error, whatever answers come late (HomePage.tsx:49-76).
THEOREM HomeIsAView == HomeSpec => HomeImplementsView
  <1> USE DEF HomeView!viewVars, HomeView!ViewNext
  <1>1. HomeInit => HomeView!Blank
    BY DEF HomeInit, HomeView!Blank, HomePhase, HomeShows
  <1>2. HomeInv /\ HomeInv' /\ [HomeNext]_homeAll
            => [HomeView!ViewNext]_(HomeView!viewVars)
    <2> SUFFICES ASSUME HomeInv, [HomeNext]_homeAll
        PROVE  [HomeView!ViewNext]_(HomeView!viewVars)
      OBVIOUS
    <2> USE HomeAssumption DEF HomePhase, HomeShows
    <2>1. CASE HomeEffect
      <3>1. homeKey' = url /\ url \in Urls /\ home'.loading
        BY <2>1 DEF HomeEffect, HomeInv, HomeTypeOK
      <3>2. HomeView!Ask(url)
        BY <3>1 DEF HomeView!Ask
      <3> QED
        BY <3>1, <3>2
    <2>2. CASE UNCHANGED <<homeKey, home>>
      BY <2>2
    <2>3. CASE UpdateParam \/ ClearAllFilters \/ \E u \in Urls : HomeOpen(u)
      BY <2>2, <2>3 DEF UpdateParam, ClearAllFilters, HomeOpen
    <2>4. ASSUME NEW c \in Calls, SearchEnds(c), LiveSearch(c)
          PROVE  HomeView!Settle
      <3>1. /\ homeKey # NoUrl /\ homeKey' = homeKey
            /\ calls[c].key = homeKey /\ home.loading /\ ~home.error
        BY <2>4 DEF HomeInv, OneLiveSearch, NoErrorWhileLoading, SearchEnds,
                    SearchAnswered, SearchFailed
      <3>2. CASE SearchAnswered(c)
        <4>1. /\ home'.results = homeKey /\ ~home'.loading /\ ~home'.error
          BY <2>4, <3>1, <3>2 DEF SearchAnswered, LiveSearch, HomeInv, HomeTypeOK
        <4> QED
          BY <3>1, <4>1 DEF HomeView!Settle
      <3>3. CASE SearchFailed(c)
        <4>1. ~home'.loading /\ home'.error
          BY <2>4, <3>3 DEF SearchFailed, AfterFailedSearch, LiveSearch, HomeInv,
                            HomeTypeOK
        <4> QED
          BY <3>1, <4>1 DEF HomeView!Settle
      <3> QED
        BY <2>4, <3>2, <3>3 DEF SearchEnds
    <2>5. ASSUME NEW c \in Calls, SearchEnds(c), ~LiveSearch(c)
          PROVE  UNCHANGED <<homeKey, home>>
      BY <2>5 DEF SearchEnds, SearchAnswered, SearchFailed, LiveSearch
    <2>6. CASE HomeLeave
      BY <2>6 DEF HomeLeave, HomeView!Leave, HomeView!Blank
    <2>7. CASE Elsewhere \/ UNCHANGED homeAll
      BY <2>2, <2>7 DEF Elsewhere, homeAll, homeVars
    <2> QED
      BY <2>1, <2>2, <2>3, <2>4, <2>5, <2>6, <2>7 DEF HomeNext, HomeStep
  <1> QED
    BY <1>1, <1>2, HomeInvariant, PTL
       DEF HomeSpec, homeAll, HomeImplementsView, HomeView!ViewSpec

-----------------------------------------------------------------------------
(* The pages together                                                      *)

Apis == {"search", "product", "health", "autocomplete"}

IsCall(r) == r = [api |-> r.api, key |-> r.key, live |-> r.live]

PlaceOK(r) ==
    IsCall(r) /\ r.live \in BOOLEAN /\ (r = Free \/ r.api \in Apis)

CallsOK ==
    /\ calls = [c \in Calls |-> calls[c]]
    /\ \A c \in Calls : PlaceOK(calls[c])

AppInv == CallsOK /\ query \in Texts

\* A step neither sends nor settles nor cancels a request of an API.
Kept(a) ==
    \A d \in Calls : a \in {calls[d].api, calls'[d].api}
                        => calls'[d] = calls[d]

SameBut(places) == \A d \in Calls \ places : calls'[d] = calls[d]

\* The requests of an API that there were, cancelled.
DeadBut(api, places) ==
    \A d \in Calls \ places :
        calls'[d].api = api => /\ ~calls'[d].live
                               /\ calls[d].api = api
                               /\ calls'[d].key = calls[d].key

-----------------------------------------------------------------------------
(* What the operations of Client do to the calls.                          *)

LEMMA NewCall ==
    ASSUME NEW api \in Apis, NEW k, NEW r, r = Call(api, k)
    PROVE  PlaceOK(r) /\ r.api = api /\ r.key = k /\ r.live = TRUE
  BY DEF PlaceOK, IsCall, Call

LEMMA FreeCall == PlaceOK(Free) /\ Free.api = "none" /\ Free.live = FALSE
  BY DEF PlaceOK, IsCall, Free

LEMMA OverOK ==
    ASSUME CallsOK, NEW c \in Calls, Over(c)
    PROVE  /\ CallsOK' /\ calls'[c] = Free /\ SameBut({c})
           /\ \A a \in Apis \ {calls[c].api} : Kept(a)
  <1>1. calls' = [calls EXCEPT ![c] = Free]
    BY DEF Over
  <1>2. calls' = [d \in Calls |-> calls'[d]]
    BY <1>1 DEF CallsOK
  <1>3. calls'[c] = Free /\ SameBut({c})
    BY <1>1 DEF CallsOK, SameBut
  <1>4. CallsOK'
    BY <1>2, <1>3, FreeCall DEF CallsOK, SameBut
  <1>5. \A a \in Apis \ {calls[c].api} : Kept(a)
    BY <1>3, FreeCall DEF Kept, SameBut, Apis
  <1> QED
    BY <1>3, <1>4, <1>5

LEMMA SendOK ==
    ASSUME CallsOK, NEW api \in Apis, NEW k, Send(api, k)
    PROVE  /\ CallsOK'
           /\ \E c \in Calls : /\ calls[c] = Free /\ calls'[c] = Call(api, k)
                               /\ SameBut({c})
           /\ \A a \in Apis \ {api} : Kept(a)
  <1>1. PICK c \in Calls : /\ calls[c] = Free
                           /\ calls' = [calls EXCEPT ![c] = Call(api, k)]
    BY DEF Send, NextPlace
  <1>2. calls' = [d \in Calls |-> calls'[d]]
    BY <1>1 DEF CallsOK
  <1>3. calls'[c] = Call(api, k) /\ SameBut({c})
    BY <1>1 DEF CallsOK, SameBut
  <1>4. CallsOK'
    <2>1. PlaceOK(calls'[c])
      BY <1>3, NewCall
    <2> QED
      BY <1>2, <1>3, <2>1 DEF CallsOK, SameBut
  <1>5. \A a \in Apis \ {api} : Kept(a)
    <2>1. calls'[c].api = api
      BY <1>3 DEF Call
    <2>2. calls[c].api = "none"
      BY <1>1, FreeCall
    <2> QED
      BY <1>3, <2>1, <2>2 DEF Kept, SameBut, Apis
  <1> QED
    BY <1>1, <1>3, <1>4, <1>5

LEMMA SendTwiceOK ==
    ASSUME CallsOK, NEW api \in Apis, NEW k, SendTwice(api, k)
    PROVE  /\ CallsOK'
           /\ \E c, d \in Calls :
                 /\ calls'[c] = Call(api, k) /\ calls'[d] = Call(api, k)
                 /\ SameBut({c, d})
           /\ \A a \in Apis \ {api} : Kept(a)
  <1>1. PICK c \in Calls, d \in Calls :
           /\ calls[c] = Free /\ calls[d] = Free
           /\ calls' = [calls EXCEPT ![c] = Call(api, k), ![d] = Call(api, k)]
    BY DEF SendTwice, NextPlace, SecondPlace
  <1>2. calls' = [e \in Calls |-> calls'[e]]
    BY <1>1 DEF CallsOK
  <1>3. /\ calls'[c] = Call(api, k) /\ calls'[d] = Call(api, k)
        /\ SameBut({c, d})
    BY <1>1 DEF CallsOK, SameBut
  <1>4. CallsOK'
    <2>1. PlaceOK(calls'[c]) /\ PlaceOK(calls'[d])
      BY <1>3, NewCall
    <2> QED
      BY <1>2, <1>3, <2>1 DEF CallsOK, SameBut
  <1>5. \A a \in Apis \ {api} : Kept(a)
    <2>1. calls'[c].api = api /\ calls'[d].api = api
      BY <1>3 DEF Call
    <2>2. calls[c].api = "none" /\ calls[d].api = "none"
      BY <1>1, FreeCall
    <2> QED
      BY <1>3, <2>1, <2>2 DEF Kept, SameBut, Apis
  <1> QED
    BY <1>3, <1>4, <1>5

LEMMA CancelledOK ==
    ASSUME CallsOK, NEW api \in Apis, NEW d \in Calls
    PROVE  /\ PlaceOK(Cancelled(api)[d])
           /\ Cancelled(api)[d].api = calls[d].api
           /\ Cancelled(api)[d].key = calls[d].key
           /\ calls[d].api = api => ~Cancelled(api)[d].live
           /\ calls[d].api # api => Cancelled(api)[d] = calls[d]
  <1>1. CASE calls[d].api = api
    <2>1. Cancelled(api)[d] = [calls[d] EXCEPT !.live = FALSE]
      BY <1>1 DEF Cancelled
    <2>2. calls[d] = [api |-> calls[d].api, key |-> calls[d].key,
                      live |-> calls[d].live]
      BY DEF CallsOK, PlaceOK, IsCall
    <2>3. Cancelled(api)[d] = [api |-> calls[d].api, key |-> calls[d].key,
                               live |-> FALSE]
      BY <2>1, <2>2
    <2> QED
      BY <1>1, <2>3 DEF PlaceOK, IsCall
  <1>2. CASE calls[d].api # api
    BY <1>2 DEF Cancelled, CallsOK
  <1> QED
    BY <1>1, <1>2

LEMMA CancelOK ==
    ASSUME CallsOK, NEW api \in Apis, Cancel(api)
    PROVE  /\ CallsOK' /\ DeadBut(api, {})
           /\ \A a \in Apis \ {api} : Kept(a)
  <1>1. calls' = Cancelled(api)
    BY DEF Cancel
  <1>2. calls' = [d \in Calls |-> calls'[d]]
    BY <1>1 DEF Cancelled
  <1>3. \A d \in Calls : /\ PlaceOK(calls'[d])
                         /\ calls'[d].api = calls[d].api
                         /\ calls'[d].key = calls[d].key
                         /\ calls[d].api = api => ~calls'[d].live
                         /\ calls[d].api # api => calls'[d] = calls[d]
    BY <1>1, CancelledOK
  <1>4. CallsOK'
    BY <1>2, <1>3 DEF CallsOK
  <1>5. DeadBut(api, {}) /\ \A a \in Apis \ {api} : Kept(a)
    BY <1>3 DEF DeadBut, Kept
  <1> QED
    BY <1>4, <1>5

LEMMA CancelAndSendOK ==
    ASSUME CallsOK, NEW api \in Apis, NEW k, CancelAndSend(api, k)
    PROVE  /\ CallsOK'
           /\ \E c \in Calls : /\ calls'[c] = Call(api, k)
                               /\ DeadBut(api, {c})
           /\ \A a \in Apis \ {api} : Kept(a)
  <1>1. PICK c \in Calls :
           /\ calls[c] = Free
           /\ calls' = [Cancelled(api) EXCEPT ![c] = Call(api, k)]
    BY DEF CancelAndSend, NextPlace
  <1>2. calls' = [d \in Calls |-> calls'[d]]
    BY <1>1 DEF Cancelled
  <1>3. /\ calls'[c] = Call(api, k)
        /\ \A d \in Calls \ {c} : calls'[d] = Cancelled(api)[d]
    BY <1>1 DEF Cancelled
  <1>4. \A d \in Calls \ {c} :
           /\ PlaceOK(calls'[d])
           /\ calls'[d].api = calls[d].api
           /\ calls'[d].key = calls[d].key
           /\ calls[d].api = api => ~calls'[d].live
           /\ calls[d].api # api => calls'[d] = calls[d]
    BY <1>3, CancelledOK
  <1>5. CallsOK'
    <2>1. PlaceOK(calls'[c])
      BY <1>3, NewCall
    <2> QED
      BY <1>2, <1>4, <2>1 DEF CallsOK
  <1>6. DeadBut(api, {c})
    BY <1>4 DEF DeadBut
  <1>7. \A a \in Apis \ {api} : Kept(a)
    <2>1. calls'[c].api = api
      BY <1>3 DEF Call
    <2>2. calls[c].api = "none"
      BY <1>1, FreeCall
    <2> QED
      BY <1>4, <2>1, <2>2 DEF Kept, Apis
  <1> QED
    BY <1>3, <1>5, <1>6, <1>7

LEMMA SameCalls ==
    ASSUME CallsOK, UNCHANGED calls
    PROVE  CallsOK' /\ \A a \in Apis : Kept(a)
  BY DEF CallsOK, Kept

LEMMA SearchesAreKept ==
    ASSUME CallsOK', Kept("search")
    PROVE  SearchesKept
  BY DEF CallsOK, Kept, SearchesKept

-----------------------------------------------------------------------------
(* Which requests a part of the application has to do with.                *)

\* A search of the navigation bar is for filters of a URL.
LEMMA OnlyIsUrl == ASSUME NEW q \in Values["q"] PROVE Only(q) \in Urls
  BY UrlsOfFilters, AppAssumption DEF Only

LEMMA HomeKeeps ==
    ASSUME CallsOK, HomeStep \/ HomeLeave \/ \E u \in Urls : HomeOpen(u)
    PROVE  CallsOK' /\ \A a \in Apis \ {"search"} : Kept(a)
  <1>1. "search" \in Apis
    BY DEF Apis
  <1>2. CASE HomeEffect
    BY <1>1, <1>2, CancelAndSendOK DEF HomeEffect, StartSearch
  <1>3. CASE UpdateParam \/ ClearAllFilters \/ \E u \in Urls : HomeOpen(u)
    BY <1>3, SameCalls DEF UpdateParam, ClearAllFilters, HomeOpen
  <1>4. CASE \E c \in Calls : SearchEnds(c)
    BY <1>4, OverOK DEF SearchEnds, SearchAnswered, SearchFailed
  <1>5. CASE HomeLeave
    BY <1>1, <1>5, CancelOK DEF HomeLeave
  <1> QED
    BY <1>2, <1>3, <1>4, <1>5 DEF HomeStep

ProductActs ==
    ProductStep \/ ProductLeave \/ \E id \in Ids : ProductOpen(id)

LEMMA ProductKeeps ==
    ASSUME CallsOK, ProductActs
    PROVE  CallsOK' /\ \A a \in Apis \ {"product"} : Kept(a)
  <1>1. "product" \in Apis
    BY DEF Apis
  <1>2. CASE ProductEffect
    <2>1. Cancel("product") \/ CancelAndSend("product", productId)
      BY <1>2 DEF ProductEffect
    <2> QED
      BY <1>1, <2>1, CancelOK, CancelAndSendOK
  <1>3. CASE ChangeQuantity
    BY <1>3, SameCalls DEF ChangeQuantity
  <1>4. CASE \E c \in Calls : ProductEnds(c)
    BY <1>4, OverOK DEF ProductEnds, ProductAnswered, ProductFailed
  <1>5. CASE ProductLeave
    BY <1>1, <1>5, CancelOK DEF ProductLeave
  <1>6. CASE \E id \in Ids : ProductOpen(id)
    BY <1>6, SameCalls DEF ProductOpen
  <1> QED
    BY <1>2, <1>3, <1>4, <1>5, <1>6 DEF ProductStep, ProductActs

HealthActs ==
    \/ HealthStep /\ UNCHANGED route
    \/ HealthLeave /\ route' = "other"
    \/ HealthOpen /\ route = "other" /\ route' = "health"

LEMMA HealthKeeps ==
    ASSUME CallsOK, HealthActs
    PROVE  CallsOK' /\ \A a \in Apis \ {"health"} : Kept(a)
  <1>1. "health" \in Apis
    BY DEF Apis
  <1>2. CASE Refresh
    BY <1>1, <1>2, SendOK DEF Refresh
  <1>3. CASE \E c \in Calls : CheckEnds(c)
    BY <1>3, OverOK DEF CheckEnds
  <1>4. CASE HealthLeave
    BY <1>1, <1>4, CancelOK DEF HealthLeave
  <1>5. CASE HealthOpen
    <2>1. Send("health", "all") \/ SendTwice("health", "all")
      BY <1>5 DEF HealthOpen
    <2> QED
      BY <1>1, <2>1, SendOK, SendTwiceOK
  <1> QED
    BY <1>2, <1>3, <1>4, <1>5 DEF HealthStep, HealthActs

NavbarActs ==
    NavbarStep \/ SubmitSearch \/ \E t \in Names : PickSuggestion(t)

LEMMA NavbarKeeps ==
    ASSUME CallsOK, NavbarStep
    PROVE  CallsOK' /\ \A a \in Apis \ {"autocomplete"} : Kept(a)
  <1>1. "autocomplete" \in Apis
    BY DEF Apis
  <1>2. CASE \E t \in Texts : Type(t)
    BY <1>2, SameCalls DEF Type
  <1>3. CASE Clear \/ Dismiss \/ Focus
    BY <1>3, SameCalls DEF Clear, Dismiss, Focus
  <1>4. CASE TimerFires
    BY <1>1, <1>4, SendOK DEF TimerFires
  <1>5. CASE \E c \in Calls : SuggestionsEnd(c)
    BY <1>5, OverOK DEF SuggestionsEnd, SuggestionsCome, SuggestionsFail
  <1> QED
    BY <1>2, <1>3, <1>4, <1>5 DEF NavbarStep

LEMMA TextsStayTexts ==
    ASSUME query \in Texts, NavbarActs
    PROVE  query' \in Texts
  BY TextAssumption
     DEF NavbarActs, NavbarStep, Type, SetQuery, Clear, TimerFires, Dismiss,
         Focus, SuggestionsEnd, SuggestionsCome, SuggestionsFail, SubmitSearch,
         PickSuggestion, Names

-----------------------------------------------------------------------------
(* A step of the application, as each of its parts sees it (App.tsx:42-75) *)

HomeActs == HomeStep \/ HomeLeave \/ \E u \in Urls : HomeOpen(u)

AppParts ==
    /\ HomeActs \/ (UNCHANGED homeVars /\ Kept("search"))
    /\ ProductActs \/ (UNCHANGED productVars /\ Kept("product"))
    /\ \/ HealthActs
       \/ /\ UNCHANGED health /\ Kept("health")
          /\ route = "health" <=> route' = "health"
    /\ NavbarActs \/ (UNCHANGED navbarVars /\ Kept("autocomplete"))

LEMMA AppStep ==
    ASSUME AppInv, [AppNext]_appVars
    PROVE  AppInv' /\ AppParts
  <1> USE DEF AppInv
  <1>1. /\ {"product", "health", "autocomplete"} \subseteq Apis \ {"search"}
        /\ {"search", "health", "autocomplete"} \subseteq Apis \ {"product"}
        /\ {"search", "product", "autocomplete"} \subseteq Apis \ {"health"}
        /\ {"search", "product", "health"} \subseteq Apis \ {"autocomplete"}
        /\ {"search", "product", "health", "autocomplete"} \subseteq Apis
    BY DEF Apis
  <1>2. CASE HomeStep /\ UNCHANGED <<productVars, health, navbarVars, route>>
    BY <1>1, <1>2, HomeKeeps DEF AppParts, HomeActs, navbarVars
  <1>3. CASE ProductStep /\ UNCHANGED <<homeVars, health, navbarVars, route>>
    BY <1>1, <1>3, ProductKeeps DEF AppParts, ProductActs, navbarVars
  <1>4. CASE HealthStep /\ UNCHANGED <<homeVars, productVars, navbarVars, route>>
    BY <1>1, <1>4, HealthKeeps DEF AppParts, HealthActs, navbarVars
  <1>5. CASE NavbarStep /\ PagesUnchanged /\ UNCHANGED route
    BY <1>1, <1>5, NavbarKeeps, TextsStayTexts
       DEF AppParts, NavbarActs, PagesUnchanged
  <1>6. CASE SubmitToHome \/ PickToHome
    <2>1. PICK q \in Values["q"] : ToSearch(q) /\ NavbarActs /\ UNCHANGED calls
      <3>1. CASE SubmitToHome
        BY <3>1, AppAssumption
           DEF SubmitToHome, SubmitSearch, Dismiss, NavbarActs
      <3>2. CASE PickToHome
        BY <3>2, AppAssumption
           DEF PickToHome, Names, PickSuggestion, NavbarActs
      <3> QED
        BY <1>6, <3>1, <3>2
    <2>2. HomeOpen(Only(q))
      BY <2>1 DEF ToSearch, HomeOpen
    <2>3. HomeActs
      BY <2>2, OnlyIsUrl DEF HomeActs
    <2>4. /\ UNCHANGED <<productVars, health>>
          /\ route = "health" <=> route' = "health"
      BY <2>1 DEF ToSearch
    <2>5. query' \in Texts
      BY <2>1, TextsStayTexts
    <2>6. CallsOK' /\ \A a \in Apis : Kept(a)
      BY <2>1, SameCalls
    <2> QED
      BY <1>1, <2>1, <2>3, <2>4, <2>5, <2>6 DEF AppParts
  <1>7. CASE GoAway
    <2>1. /\ query' \in Texts /\ UNCHANGED navbarVars
          /\ route' = "other" /\ LeavePage
      BY <1>7 DEF GoAway, navbarVars
    <2>2. CASE route = "home"
      <3>1. HomeLeave /\ UNCHANGED <<productVars, health>>
        BY <2>1, <2>2 DEF LeavePage
      <3> QED
        BY <1>1, <2>1, <2>2, <3>1, HomeKeeps DEF AppParts, HomeActs
    <2>3. CASE route = "product"
      <3>1. ProductLeave /\ UNCHANGED <<homeVars, health>>
        BY <2>1, <2>3 DEF LeavePage
      <3> QED
        BY <1>1, <2>1, <2>3, <3>1, ProductKeeps DEF AppParts, ProductActs
    <2>4. CASE route = "health"
      <3>1. HealthLeave /\ UNCHANGED <<homeVars, productVars>>
        BY <2>1, <2>4 DEF LeavePage
      <3> QED
        BY <1>1, <2>1, <2>4, <3>1, HealthKeeps DEF AppParts, HealthActs
    <2>5. CASE route \notin {"home", "product", "health"}
      <3>1. PagesUnchanged /\ UNCHANGED calls
        BY <2>1, <2>5 DEF LeavePage
      <3> QED
        BY <1>1, <2>1, <2>5, <3>1, SameCalls DEF AppParts, PagesUnchanged
    <2> QED
      BY <2>2, <2>3, <2>4, <2>5
  <1>8. CASE \E u \in {NoFilters} : EnterHome(u)
    <2>1. /\ HomeActs /\ UNCHANGED calls
          /\ UNCHANGED <<productVars, health, navbarVars>>
          /\ route = "other" /\ route' = "home"
      BY <1>8, UrlsOfFilters DEF EnterHome, HomeOpen, HomeActs
    <2> QED
      BY <1>1, <2>1, SameCalls DEF AppParts, navbarVars
  <1>9. CASE \E id \in Ids : EnterProduct(id) \/ AnotherProduct(id)
    <2>1. /\ ProductActs
          /\ UNCHANGED <<homeVars, health, navbarVars>>
          /\ route = "health" <=> route' = "health"
      BY <1>9 DEF EnterProduct, AnotherProduct, ProductActs
    <2> QED
      BY <1>1, <2>1, ProductKeeps DEF AppParts, navbarVars
  <1>10. CASE EnterHealth
    <2>1. HealthActs /\ UNCHANGED <<homeVars, productVars, navbarVars>>
      BY <1>10 DEF EnterHealth, HealthActs
    <2> QED
      BY <1>1, <2>1, HealthKeeps DEF AppParts, navbarVars
  <1>11. CASE UNCHANGED appVars
    BY <1>1, <1>11, SameCalls DEF appVars, AppParts, navbarVars
  <1> QED
    BY <1>2, <1>3, <1>4, <1>5, <1>6, <1>7, <1>8, <1>9, <1>10, <1>11 DEF AppNext

LEMMA AppStart == AppInit => AppInv
  BY FreeCall, TextAssumption DEF AppInit, AppInv, CallsOK, NavbarInit

\* The application drives the catalog page as HomeSpec describes it.
THEOREM AppDrivesHome == AppSpec => HomeSpec
  <1>1. AppInv /\ [AppNext]_appVars => AppInv' /\ [HomeNext]_homeAll
    <2> SUFFICES ASSUME AppInv, [AppNext]_appVars
        PROVE  AppInv' /\ [HomeNext]_homeAll
      OBVIOUS
    <2>1. AppInv' /\ (HomeActs \/ (UNCHANGED homeVars /\ Kept("search")))
      BY AppStep DEF AppParts
    <2>2. ASSUME UNCHANGED homeVars, Kept("search") PROVE Elsewhere
      BY <2>1, <2>2, SearchesAreKept DEF AppInv, Elsewhere
    <2> QED
      BY <2>1, <2>2 DEF HomeNext, HomeActs
  <1>2. AppInit => HomeInit /\ calls = [c \in Calls |-> Free]
    BY DEF AppInit
  <1> QED
    BY <1>1, <1>2, AppStart, PTL DEF AppSpec, HomeSpec, homeAll

\* In the whole application the catalog page shows the catalog of the filters
\* it asked for last, the spinner or an error, however many requests of this
\* and other pages are in flight (HomePage.tsx:49-76).
THEOREM AppHomeIsAView == AppSpec => HomeImplementsView
  BY AppDrivesHome, HomeIsAView, PTL

-----------------------------------------------------------------------------
(* The product page                                                        *)

LiveProduct(c) == calls[c].api = "product" /\ calls[c].live

\* The request that is not cancelled is the only one and is for the product
\* with which the effect ran last; the effect has cleared the error.
ProductInv ==
    /\ ProductTypeOK
    /\ \A c \in Calls : calls[c].api = "product" => calls[c].key \in Products
    /\ \A c \in Calls : LiveProduct(c) =>
          /\ productKey # NoId /\ calls[c].key = productKey
          /\ detail.loading /\ ~detail.error
    /\ \A c, d \in Calls : LiveProduct(c) /\ LiveProduct(d) => c = d
    /\ detail.product # NoId => detail.quantity \in One .. One * MaxQuantity

LEMMA ProductStart == AppInit => ProductInv
  BY DEF AppInit, ProductInit, FreshDetail, ProductInv, ProductTypeOK,
         LiveProduct, Free, One

\* Who else uses the network does not matter to the page.
LEMMA ProductElsewhere ==
    ProductInv /\ UNCHANGED productVars /\ Kept("product") => ProductInv'
  BY DEF ProductInv, ProductTypeOK, LiveProduct, MaxQuantity, productVars, Kept

LEMMA ProductStepOK ==
    ASSUME CallsOK, ProductInv, ProductActs
    PROVE  ProductInv'
  <1> USE DEF ProductInv
  <1>1. "product" \in Apis /\ Free.api # "product"
    BY DEF Apis, Free
  <1>2. CASE ProductEffect
    <2>1. /\ productKey' = productId /\ productId' = productId
          /\ productId \in Ids /\ productId # NoId
      BY <1>2 DEF ProductEffect, ProductTypeOK
    <2>2. /\ ProductTypeOK'
          /\ detail'.product = detail.product
          /\ detail'.quantity = detail.quantity
          /\ detail'.stock = detail.stock
      BY <1>2, <2>1 DEF ProductEffect, ProductTypeOK
    <2>3. CASE NoNumber
      <3>1. CallsOK' /\ DeadBut("product", {})
        BY <1>1, <1>2, <2>3, CancelOK DEF ProductEffect
      <3> QED
        BY <2>1, <2>2, <3>1 DEF DeadBut, LiveProduct, MaxQuantity
    <2>4. CASE ~NoNumber
      <3>1. PICK c \in Calls : /\ calls'[c] = Call("product", productId)
                               /\ DeadBut("product", {c})
        BY <1>1, <1>2, <2>4, CancelAndSendOK DEF ProductEffect
      <3>2. calls'[c].key = productId /\ productId \in Products
        BY <2>1, <2>4, <3>1 DEF Call, NoNumber, Ids
      <3>3. detail'.loading /\ ~detail'.error
        BY <1>2, <2>4 DEF ProductEffect, ProductTypeOK
      <3> QED
        BY <2>1, <2>2, <3>1, <3>2, <3>3 DEF DeadBut, LiveProduct, MaxQuantity
    <2> QED
      BY <2>3, <2>4
  <1>3. CASE ChangeQuantity
    <2>1. PICK n \in One .. One * MaxQuantity :
             detail' = [detail EXCEPT !.quantity = n]
      BY <1>3 DEF ChangeQuantity
    <2>2. UNCHANGED <<productId, productKey, calls>>
      BY <1>3 DEF ChangeQuantity
    <2>3. n \in Nat
      BY <2>1, StockAssumption DEF ProductTypeOK, MaxQuantity, One
    <2>4. /\ ProductTypeOK' /\ detail'.quantity = n
          /\ detail'.product = detail.product /\ detail'.stock = detail.stock
          /\ detail'.loading = detail.loading /\ detail'.error = detail.error
      BY <2>1, <2>2, <2>3 DEF ProductTypeOK
    <2> QED
      BY <2>2, <2>4 DEF LiveProduct, MaxQuantity
  <1>4. ASSUME NEW c \in Calls, ProductEnds(c) PROVE ProductInv'
    <2>1. /\ calls[c].api = "product" /\ calls'[c] = Free /\ SameBut({c})
          /\ UNCHANGED <<productId, productKey>>
      BY <1>4, OverOK DEF ProductEnds, ProductAnswered, ProductFailed
    <2>2. \A d \in Calls : calls'[d].api = "product" =>
             d # c /\ calls'[d] = calls[d]
      BY <1>1, <2>1 DEF SameBut
    <2>3. CASE ~calls[c].live
      <3>1. UNCHANGED detail
        BY <1>4, <2>3 DEF ProductEnds, ProductAnswered, ProductFailed, Wanted
      <3> QED
        BY <2>1, <2>2, <3>1 DEF ProductTypeOK, LiveProduct, MaxQuantity
    <2>4. CASE calls[c].live
      <3>1. \A d \in Calls : ~LiveProduct(d)'
        BY <2>1, <2>2, <2>4 DEF LiveProduct
      <3>2. CASE ProductAnswered(c)
        <4>1. PICK n \in StockLevels :
                 detail' = [product |-> calls[c].key, stock |-> n,
                            quantity |-> 2, loading |-> FALSE,
                            error |-> detail.error]
          BY <2>4, <3>2 DEF ProductAnswered, Wanted, FirstQuantity, One
        <4>2. detail'.quantity = 2 /\ detail'.stock = n /\ n \in Nat
          BY <4>1, StockAssumption
        <4>3. ProductTypeOK'
          BY <2>1, <4>1 DEF ProductTypeOK
        <4>4. (detail.quantity \in One .. One * MaxQuantity)'
          BY <4>2 DEF MaxQuantity, One
        <4> QED
          BY <2>2, <3>1, <4>3, <4>4
      <3>3. CASE ProductFailed(c)
        <4>1. detail' = [detail EXCEPT !.error = TRUE, !.loading = FALSE]
          BY <2>4, <3>3 DEF ProductFailed, Wanted
        <4>2. /\ ProductTypeOK' /\ detail'.quantity = detail.quantity
              /\ detail'.product = detail.product
              /\ detail'.stock = detail.stock
          BY <2>1, <4>1 DEF ProductTypeOK
        <4> QED
          BY <2>2, <3>1, <4>2 DEF MaxQuantity
      <3> QED
        BY <1>4, <3>2, <3>3 DEF ProductEnds
    <2> QED
      BY <2>3, <2>4 DEF CallsOK, PlaceOK
  <1>5. CASE ProductLeave
    <2>1. CallsOK' /\ DeadBut("product", {})
      BY <1>1, <1>5, CancelOK DEF ProductLeave
    <2>2. ProductTypeOK' /\ detail'.product = NoId
      BY <1>5 DEF ProductLeave, FreshDetail, ProductTypeOK, One
    <2> QED
      BY <2>1, <2>2 DEF DeadBut, LiveProduct
  <1>6. CASE \E id \in Ids : ProductOpen(id)
    BY <1>6 DEF ProductOpen, ProductTypeOK, LiveProduct, MaxQuantity
  <1> QED
    BY <1>2, <1>3, <1>4, <1>5, <1>6 DEF ProductActs, ProductStep

-----------------------------------------------------------------------------
(* The health page                                                         *)

LiveCheck(c) == calls[c].api = "health" /\ calls[c].live

\* In a production build there is one check at a time, and the spinner or the
\* result of the last one is on the screen.
OneCheck ==
    /\ \A c \in Calls : LiveCheck(c) => health.loading /\ ~health.error
    /\ \A c, d \in Calls : LiveCheck(c) /\ LiveCheck(d) => c = d
    /\ ~(health.status /\ health.error)
    /\ health.loading \/ health.error \/ health.status

HealthInv ==
    /\ HealthTypeOK
    /\ health.mounted <=> route = "health"
    /\ \A c \in Calls : calls[c].api = "health" => calls[c].key = "all"
    /\ \A c \in Calls : LiveCheck(c) => health.mounted
    /\ ~health.strict => OneCheck

LEMMA HealthStart == AppInit => HealthInv
  BY DEF AppInit, HealthInit, FreshHealth, HealthInv, HealthTypeOK, OneCheck,
         LiveCheck, Free

LEMMA HealthElsewhere ==
    /\ HealthInv /\ UNCHANGED health /\ Kept("health")
    /\ route = "health" <=> route' = "health"
    => HealthInv'
  BY DEF HealthInv, HealthTypeOK, OneCheck, LiveCheck, Kept

LEMMA HealthStepOK ==
    ASSUME CallsOK, HealthInv, HealthActs
    PROVE  HealthInv'
  <1> USE DEF HealthInv, HealthTypeOK
  <1>1. "health" \in Apis /\ Free.api # "health"
    BY DEF Apis, Free
  <1>2. CASE Refresh /\ UNCHANGED route
    <2>1. PICK c \in Calls : /\ calls'[c] = Call("health", "all")
                             /\ SameBut({c})
      BY <1>1, <1>2, SendOK DEF Refresh
    <2>2. /\ health.mounted /\ ~health.loading
          /\ health' = [health EXCEPT !.loading = TRUE, !.error = FALSE]
      BY <1>2 DEF Refresh, MayRefresh
    <2>3. /\ HealthTypeOK' /\ health'.mounted = health.mounted
          /\ health'.strict = health.strict
          /\ health'.loading /\ ~health'.error
      BY <2>2
    <2>4. calls'[c].key = "all"
      BY <2>1 DEF Call
    <2>5. ~health.strict => OneCheck'
      <3>1. ~health.strict => \A d \in Calls : ~LiveCheck(d)
        BY <2>2 DEF OneCheck
      <3>2. ~health.strict => \A d \in Calls : LiveCheck(d)' => d = c
        BY <2>1, <3>1 DEF SameBut, LiveCheck
      <3> QED
        BY <2>3, <3>2 DEF OneCheck
    <2> QED
      BY <1>2, <2>1, <2>2, <2>3, <2>4, <2>5 DEF SameBut, LiveCheck
  <1>3. ASSUME NEW c \in Calls, CheckEnds(c), UNCHANGED route
        PROVE  HealthInv'
    <2>1. calls[c].api = "health" /\ calls'[c] = Free /\ SameBut({c})
      BY <1>3, OverOK DEF CheckEnds
    <2>2. \A d \in Calls : calls'[d].api = "health" =>
             d # c /\ calls'[d] = calls[d]
      BY <1>1, <2>1 DEF SameBut
    <2>3. CASE ~calls[c].live
      BY <1>3, <2>2, <2>3 DEF CheckEnds, LiveCheck, OneCheck
    <2>4. CASE calls[c].live
      <3>1. /\ \/ health' = [health EXCEPT !.status = TRUE,
                                           !.loading = FALSE]
               \/ health' = [health EXCEPT !.status = FALSE,
                                           !.loading = FALSE,
                                           !.error = TRUE]
            /\ health.mounted
        BY <1>3, <2>1, <2>4 DEF CheckEnds, LiveCheck
      <3>2. /\ HealthTypeOK' /\ health'.mounted = health.mounted
            /\ health'.strict = health.strict
            /\ \/ health'.status /\ health'.error = health.error
               \/ ~health'.status /\ health'.error
        BY <3>1
      <3>3. ~health.strict => \A d \in Calls : ~LiveCheck(d)'
        BY <2>1, <2>2, <2>4 DEF OneCheck, LiveCheck
      <3>4. ~health.strict => ~health.error
        BY <2>1, <2>4 DEF OneCheck, LiveCheck
      <3>5. ~health.strict => OneCheck'
        BY <3>2, <3>3, <3>4 DEF OneCheck
      <3> QED
        BY <1>3, <2>2, <3>1, <3>2, <3>5 DEF LiveCheck
    <2> QED
      BY <2>3, <2>4
  <1>4. CASE HealthLeave /\ route' = "other"
    <2>1. CallsOK' /\ DeadBut("health", {})
      BY <1>1, <1>4, CancelOK DEF HealthLeave
    <2>2. health' = FreshHealth
      BY <1>4 DEF HealthLeave
    <2> QED
      BY <1>4, <2>1, <2>2 DEF FreshHealth, DeadBut, LiveCheck, OneCheck
  <1>5. CASE HealthOpen /\ route = "other" /\ route' = "health"
    <2>1. PICK strict \in BOOLEAN :
             /\ health' = [FreshHealth EXCEPT !.mounted = TRUE,
                                              !.strict = strict]
             /\ IF strict THEN SendTwice("health", "all")
                ELSE Send("health", "all")
      BY <1>5 DEF HealthOpen
    <2>2. /\ HealthTypeOK' /\ health'.mounted /\ health'.strict = strict
          /\ health'.loading /\ ~health'.error /\ ~health'.status
      BY <2>1 DEF FreshHealth
    <2>3. \A d \in Calls : ~LiveCheck(d)
      BY <1>5
    <2>4. CASE strict
      <3>1. PICK c \in Calls, d \in Calls :
               /\ calls'[c] = Call("health", "all")
               /\ calls'[d] = Call("health", "all")
               /\ SameBut({c, d})
        BY <1>1, <2>1, <2>4, SendTwiceOK
      <3>2. calls'[c].key = "all" /\ calls'[d].key = "all"
        BY <3>1 DEF Call
      <3> QED
        BY <1>5, <2>2, <2>4, <3>1, <3>2 DEF SameBut
    <2>5. CASE ~strict
      <3>1. PICK c \in Calls : /\ calls'[c] = Call("health", "all")
                               /\ SameBut({c})
        BY <1>1, <2>1, <2>5, SendOK
      <3>2. calls'[c].key = "all"
        BY <3>1 DEF Call
      <3>3. \A d \in Calls : LiveCheck(d)' => d = c
        BY <2>3, <3>1 DEF SameBut, LiveCheck
      <3> QED
        BY <1>5, <2>2, <3>1, <3>2, <3>3 DEF SameBut, OneCheck
    <2> QED
      BY <2>4, <2>5
  <1> QED
    BY <1>2, <1>3, <1>4, <1>5 DEF HealthActs, HealthStep

-----------------------------------------------------------------------------
(* The search box                                                          *)

\* The timer runs for the text in the box, and a list that was closed when
\* nothing was under way has nothing to open it.
NavbarInv ==
    /\ NavbarTypeOK
    /\ \A c \in Calls :
          calls[c].api = "autocomplete" => calls[c].key \in Texts \ ShortTexts
    /\ timer # NoText => timer = query /\ timer \notin ShortTexts
    /\ SuggestionsLagForAReason
    /\ dismissed => ~open /\ NothingUnderWay

LEMMA NavbarStart == AppInit => NavbarInv
  <1> SUFFICES ASSUME AppInit PROVE NavbarInv
    OBVIOUS
  <1>1. /\ query \in Texts /\ timer = NoText /\ suggested = NoText
        /\ open = FALSE /\ late = FALSE /\ dismissed = FALSE
    BY TextAssumption DEF AppInit, NavbarInit
  <1>2. \A c \in Calls : calls[c].api # "autocomplete"
    BY DEF AppInit, Free
  <1> QED
    BY <1>1, <1>2 DEF NavbarInv, NavbarTypeOK, SuggestionsLagForAReason

LEMMA NavbarElsewhere ==
    NavbarInv /\ UNCHANGED navbarVars /\ Kept("autocomplete") => NavbarInv'
  BY DEF NavbarInv, NavbarTypeOK, NothingUnderWay, SuggestionsLagForAReason,
         Pending, navbarVars, Kept

\* A new text in the box.
LEMMA NewText ==
    ASSUME NavbarInv, NEW t \in Texts, SetQuery(t), UNCHANGED calls,
           open' \in BOOLEAN, dismissed' = FALSE
    PROVE  NavbarInv'
  BY DEF NavbarInv, NavbarTypeOK, SetQuery, TimerAfter, AfterText,
         NothingUnderWay, SuggestionsLagForAReason, Pending

LEMMA NavbarStepOK ==
    ASSUME CallsOK, NavbarInv, NavbarActs
    PROVE  NavbarInv'
  <1> USE DEF NavbarInv
  <1>1. "autocomplete" \in Apis /\ Free.api # "autocomplete"
    BY DEF Apis, Free
  <1>2. CASE \E t \in Texts : Type(t)
    <2>1. PICK t \in Texts : Type(t)
      BY <1>2
    <2> QED
      BY <2>1, NewText DEF Type, NavbarTypeOK
  <1>3. CASE Clear
    BY <1>3, TextAssumption
       DEF Clear, NavbarTypeOK, SuggestionsLagForAReason
  <1>4. CASE Dismiss
    BY <1>4 DEF Dismiss, Close, NavbarTypeOK, SuggestionsLagForAReason,
                Pending, NothingUnderWay
  <1>5. CASE Focus
    BY <1>5 DEF Focus, NavbarTypeOK, SuggestionsLagForAReason, Pending
  <1>6. CASE TimerFires
    <2>1. PICK c \in Calls : /\ calls'[c] = Call("autocomplete", timer)
                             /\ calls[c] = Free /\ SameBut({c})
      BY <1>1, <1>6, SendOK DEF TimerFires
    <2>2. calls'[c].api = "autocomplete" /\ calls'[c].key = timer
      BY <2>1 DEF Call
    <2>3. /\ timer = query /\ timer \notin ShortTexts /\ ~dismissed
          /\ timer' = NoText
          /\ UNCHANGED <<query, suggested, open, late, dismissed>>
      BY <1>6 DEF TimerFires, NothingUnderWay
    <2>4. SuggestionsLagForAReason'
      BY <2>2, <2>3 DEF SuggestionsLagForAReason, Pending
    <2> QED
      BY <2>1, <2>2, <2>3, <2>4 DEF SameBut, NavbarTypeOK
  <1>7. ASSUME NEW c \in Calls, SuggestionsEnd(c) PROVE NavbarInv'
    <2>1. /\ calls[c].api = "autocomplete" /\ calls'[c] = Free
          /\ SameBut({c})
      BY <1>7, OverOK DEF SuggestionsEnd, SuggestionsCome, SuggestionsFail
    <2>2. \A d \in Calls : calls'[d].api = "autocomplete" =>
             d # c /\ calls'[d] = calls[d]
      BY <1>1, <2>1 DEF SameBut
    <2>3. calls[c].key \in Texts /\ ~dismissed
      BY <2>1 DEF NothingUnderWay
    <2>4. /\ UNCHANGED <<query, timer, dismissed>>
          /\ suggested' = NoText
             \/ (suggested' = calls[c].key /\ late' = (calls[c].key # query))
          /\ open' \in BOOLEAN /\ late' \in BOOLEAN
      BY <1>7 DEF SuggestionsEnd, SuggestionsCome, SuggestionsFail,
                  NavbarTypeOK
    <2>5. SuggestionsLagForAReason'
      BY <2>4 DEF SuggestionsLagForAReason
    <2> QED
      BY <2>2, <2>3, <2>4, <2>5 DEF NavbarTypeOK
  <1>8. CASE SubmitSearch
    BY <1>4, <1>8 DEF SubmitSearch
  <1>9. CASE \E t \in Names : PickSuggestion(t)
    <2>1. PICK t \in Names : PickSuggestion(t)
      BY <1>9
    <2> QED
      BY <2>1, NewText DEF PickSuggestion, Names
  <1> QED
    BY <1>2, <1>3, <1>4, <1>5, <1>6, <1>7, <1>8, <1>9
       DEF NavbarActs, NavbarStep

-----------------------------------------------------------------------------
(* Theorems                                                                *)

PagesInv == AppInv /\ ProductInv /\ HealthInv /\ NavbarInv

\* The invariants of the parts hold side by side.
THEOREM PagesInvariance == AppSpec => []PagesInv
  <1>1. AppInit => PagesInv
    BY AppStart, ProductStart, HealthStart, NavbarStart DEF PagesInv
  <1>2. PagesInv /\ [AppNext]_appVars => PagesInv'
    <2> SUFFICES ASSUME PagesInv, [AppNext]_appVars PROVE PagesInv'
      OBVIOUS
    <2>1. AppInv' /\ AppParts /\ CallsOK
      BY AppStep DEF PagesInv, AppInv
    <2>2. ProductInv'
      BY <2>1, ProductStepOK, ProductElsewhere DEF AppParts, PagesInv
    <2>3. HealthInv'
      BY <2>1, HealthStepOK, HealthElsewhere DEF AppParts, PagesInv
    <2>4. NavbarInv'
      BY <2>1, NavbarStepOK, NavbarElsewhere DEF AppParts, PagesInv
    <2> QED
      BY <2>1, <2>2, <2>3, <2>4 DEF PagesInv
  <1> QED
    BY <1>1, <1>2, PTL DEF AppSpec

\* No page asks the server for what it cannot answer, and the hooks of every
\* part hold what they are declared for, mounted or not (App.tsx:42-75).
THEOREM AppTypeCorrect == AppSpec => []AppTypeOK
  <1>1. PagesInv /\ HomeInv => calls \in [Calls -> {Free} \cup Requests]
    <2> SUFFICES ASSUME PagesInv, HomeInv, NEW c \in Calls
        PROVE  calls[c] \in {Free} \cup Requests
      BY DEF PagesInv, AppInv, CallsOK
    <2>1. /\ calls[c] = [api |-> calls[c].api, key |-> calls[c].key,
                         live |-> calls[c].live]
          /\ calls[c].live \in BOOLEAN
          /\ calls[c] = Free \/ calls[c].api \in Apis
      BY DEF PagesInv, AppInv, CallsOK, PlaceOK, IsCall
    <2>2. CASE calls[c].api = "search"
      BY <2>1, <2>2 DEF HomeInv, SearchesOK, Requests
    <2>3. CASE calls[c].api = "product"
      BY <2>1, <2>3 DEF PagesInv, ProductInv, Requests
    <2>4. CASE calls[c].api = "health"
      BY <2>1, <2>4 DEF PagesInv, HealthInv, Requests
    <2>5. CASE calls[c].api = "autocomplete"
      BY <2>1, <2>5 DEF PagesInv, NavbarInv, Requests
    <2> QED
      BY <2>1, <2>2, <2>3, <2>4, <2>5 DEF Apis
  <1>2. PagesInv /\ HomeInv => HomeTypeOK /\ ProductTypeOK /\ HealthTypeOK
                             /\ NavbarTypeOK
    BY DEF PagesInv, HomeInv, ProductInv, HealthInv, NavbarInv
  <1>3. AppSpec => [](route \in {"home", "product", "health", "other"})
    <2> DEFINE Routes == route \in {"home", "product", "health", "other"}
    <2>1. AppInit => Routes
      BY DEF AppInit
    <2>2. Routes /\ [AppNext]_appVars => Routes'
      BY DEF AppNext, SubmitToHome, PickToHome, ToSearch, GoAway, EnterHome,
             EnterProduct, AnotherProduct, EnterHealth, appVars
    <2> QED
      BY <2>1, <2>2, PTL DEF AppSpec
  <1>4. AppSpec => []HomeInv
    BY AppDrivesHome, HomeInvariant, PTL
  <1>5. (calls \in [Calls -> {Free} \cup Requests]
            /\ route \in {"home", "product", "health", "other"}
            /\ HomeTypeOK /\ ProductTypeOK /\ HealthTypeOK /\ NavbarTypeOK)
        => AppTypeOK
    BY DEF AppTypeOK
  <1> QED
    BY <1>1, <1>2, <1>3, <1>4, <1>5, PagesInvariance, PTL

\* The quantity on a product page is one that its product can be ordered in,
\* also when another product had more of it (ProductPage.tsx:115-118).
THEOREM QuantityIsAvailable == AppSpec => []QuantityWithinStock
  <1>1. PagesInv => QuantityWithinStock
    BY DEF PagesInv, ProductInv, QuantityWithinStock, ShowsProduct,
           ProductPhase
  <1> QED
    BY <1>1, PagesInvariance, PTL

\* In a production build the health page never shows an error over a status,
\* and never nothing (HealthPage.tsx:25-38, 63-82).
THEOREM HealthIsDefinite == AppSpec => []HealthIsOneOrTheOther
  <1>1. PagesInv => HealthIsOneOrTheOther
    BY DEF PagesInv, HealthInv, OneCheck, HealthIsOneOrTheOther, HealthScreen
  <1> QED
    BY <1>1, PagesInvariance, PTL

\* Suggestions for another text than the box's are about to be replaced or
\* came late, whatever is typed and however slow the answers are
\* (Navbar.tsx:29-46).
THEOREM LateSuggestionsHaveReasons == AppSpec => []SuggestionsLagForAReason
  <1>1. PagesInv => SuggestionsLagForAReason
    BY DEF PagesInv, NavbarInv
  <1> QED
    BY <1>1, PagesInvariance, PTL

\* Nothing but the customer opens a list that was closed when no suggestions
\* were under way (Navbar.tsx:48-63).
THEOREM DismissedListsStayClosed == AppSpec => []StaysDismissed
  <1>1. PagesInv => StaysDismissed
    BY DEF PagesInv, NavbarInv, StaysDismissed
  <1> QED
    BY <1>1, PagesInvariance, PTL

\* A step of the page as a step of View.
LEMMA ProductActsAsView ==
    ASSUME ProductInv, CallsOK, ProductActs
    PROVE  [ProductView!ViewNext]_(ProductView!viewVars)
  <1> USE DEF ProductView!viewVars, ProductView!ViewNext, ProductShown,
              ShowsProduct, ProductPhase
  <1>1. CASE UNCHANGED <<productKey, detail>>
    BY <1>1
  <1>2. CASE ProductEffect
    <2>1. productKey' = productId /\ productId \in Ids /\ productId # NoId
      BY <1>2 DEF ProductEffect, ProductInv, ProductTypeOK
    <2>2. detail'.loading \/ (~detail'.loading /\ detail'.error)
      BY <1>2 DEF ProductEffect, ProductInv, ProductTypeOK
    <2>3. ProductView!Ask(productId)
      BY <2>1, <2>2 DEF ProductView!Ask
    <2> QED
      BY <2>1, <2>3
  <1>3. CASE ChangeQuantity
    <2>1. /\ productKey' = productKey /\ detail'.product = detail.product
          /\ detail'.loading = detail.loading /\ detail'.error = detail.error
      BY <1>3 DEF ChangeQuantity, ProductInv, ProductTypeOK
    <2> QED
      BY <2>1
  <1>4. ASSUME NEW c \in Calls, ProductEnds(c), LiveProduct(c)
        PROVE  ProductView!Settle
    <2>1. /\ productKey # NoId /\ calls[c].key = productKey
          /\ productKey' = productKey /\ detail.loading /\ ~detail.error
      BY <1>4 DEF ProductInv, ProductEnds, ProductAnswered, ProductFailed
    <2>2. CASE ProductAnswered(c)
      <3>1. PICK n \in StockLevels :
               detail' = [product |-> calls[c].key, stock |-> n,
                          quantity |-> FirstQuantity, loading |-> FALSE,
                          error |-> detail.error]
        BY <1>4, <2>2 DEF ProductAnswered, Wanted, LiveProduct
      <3>2. /\ detail'.product = productKey
            /\ ~detail'.loading /\ ~detail'.error
        BY <2>1, <3>1
      <3> QED
        BY <2>1, <3>2 DEF ProductView!Settle
    <2>3. CASE ProductFailed(c)
      <3>1. ~detail'.loading /\ detail'.error
        BY <1>4, <2>3 DEF ProductFailed, Wanted, LiveProduct, ProductInv,
                          ProductTypeOK
      <3> QED
        BY <2>1, <3>1 DEF ProductView!Settle
    <2> QED
      BY <1>4, <2>2, <2>3 DEF ProductEnds
  <1>5. ASSUME NEW c \in Calls, ProductEnds(c), ~LiveProduct(c)
        PROVE  UNCHANGED <<productKey, detail>>
    BY <1>5 DEF ProductEnds, ProductAnswered, ProductFailed, LiveProduct, Wanted
  <1>6. CASE ProductLeave
    BY <1>6 DEF ProductLeave, ProductView!Leave, ProductView!Blank
  <1>7. CASE \E id \in Ids : ProductOpen(id)
    BY <1>1, <1>7 DEF ProductOpen
  <1> QED
    BY <1>1, <1>2, <1>3, <1>4, <1>5, <1>6, <1>7 DEF ProductActs, ProductStep

\* The product page shows the product of its URL, the spinner or an error,
\* however many requests are in flight and in whatever order they are
\* answered (ProductPage.tsx:48-77).
THEOREM ProductIsAView == AppSpec => ProductImplementsView
  <1> USE DEF ProductView!viewVars, ProductPhase, ProductShown, ShowsProduct
  <1>1. AppInit => ProductView!Blank
    BY DEF AppInit, ProductInit, ProductView!Blank
  <1>2. PagesInv /\ [AppNext]_appVars
            => [ProductView!ViewNext]_(ProductView!viewVars)
    <2> SUFFICES ASSUME PagesInv, [AppNext]_appVars
        PROVE  [ProductView!ViewNext]_(ProductView!viewVars)
      OBVIOUS
    <2>1. ProductActs \/ UNCHANGED productVars
      BY AppStep DEF PagesInv, AppParts
    <2>2. CASE ProductActs
      BY <2>2, ProductActsAsView DEF PagesInv, AppInv
    <2>3. CASE UNCHANGED productVars
      BY <2>3 DEF productVars
    <2> QED
      BY <2>1, <2>2, <2>3
  <1> QED
    BY <1>1, <1>2, PagesInvariance, PTL
       DEF AppSpec, ProductImplementsView, ProductView!ViewSpec
=============================================================================
