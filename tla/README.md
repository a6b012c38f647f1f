# Verification of the e-commerce platform

TLA+ modules, TLC configurations and TLAPS proofs for the platform in
`src/ecommerce_platform/`: a FastAPI back end (`app/`), an order worker
(`workers/`), a React front end (`frontend/`) and the five stores behind them
(PostgreSQL, Valkey, Elasticsearch, RabbitMQ, Blob Storage). Line numbers below
refer to files of that directory.

## 1. Inventory

| Component | State | Operations | Talks to | Makes it correct |
|---|---|---|---|---|
| Checkout (`app/routers/orders.py`) | `products.stock`, `orders`, `order_items`, the cart it reads; locals of the handler | `POST /orders/checkout`; `GET /orders/{id}` only reads | PostgreSQL (transaction, `SELECT FOR UPDATE`), Valkey (HGETALL, DEL), RabbitMQ (publish) | no overselling; all lines or none; a 201 stands for an order; events name committed orders; every checkout ends |
| Cart (`app/routers/cart.py`) | hash `cart:<session>` and its TTL | add, remove, clear, get | Valkey, `products` | quantities accumulate; nothing invented; abandoned carts expire |
| Rate limiter (`cart.py:45-82`) | counter per client with a TTL | INCR, EXPIRE | Valkey | nobody is refused for good |
| Products (`app/routers/products.py`) | product row, `product:<id>` cache entry, search document | create, PUT, image upload, get, search, autocomplete | PostgreSQL, Valkey, Elasticsearch, Blob Storage | cache entry and document are current or there is a known reason why not; staleness of the cache ends |
| Order events (`app/queue.py`, `workers/order_worker.py`) | durable queue `orders`, unacknowledged messages, connection singletons | publish, consume, ack/reject | RabbitMQ, e-mail and warehouse (stubs) | no event lost by crashes; acknowledged means handled |
| Schema and sessions (`migrations/init.sql`, `app/database.py`, `app/models/`) | rows, locks, serial sequences, constraints | transaction, rollback at the end of a request | PostgreSQL | rollback leaves nothing |
| Users (`app/routers/users.py`) | `users` rows | register, get | PostgreSQL | a taken e-mail is answered with 409 |
| Life cycle and health (`app/main.py`) | connections, index, blob container | start-up, shutdown, health | all stores | start-up is idempotent |
| Cart on the screen (`CartContext.tsx`, `CartDrawer.tsx`, `ProductCard.tsx`) | a copy of the cart, the drawer, handlers under way | add, remove, refresh | cart API | the screen lags only for a known reason |
| Sign-in and checkout page (`CheckoutPage.tsx`, `UserContext.tsx`) | five views, user, confirmed order | register, sign in by id, place order | users and orders API | one order per click; confirmations are true and stay |
| Search (`Navbar.tsx`, `HomePage.tsx`) | text, debounce timer, suggestions; filters in the URL, results | type, pick, submit, filter | products API | results belong to the filters; a closed list stays closed |
| Product page (`ProductPage.tsx`) | product, quantity input | load, change quantity | products API | the product of the URL; quantity within its stock |
| Admin page (`AdminPage.tsx`) | form, products of this session, inputs of their rows, busy flags | create, save, upload | products API | the list is complete; a save changes what was typed |
| Health page (`HealthPage.tsx`) | status, error, loading | check | health API | a status or an error, not both |
| Shell (`App.tsx`, `main.tsx`, `api/client.ts`) | the route | navigate; `request()` | | requests are sent once |
| Configuration, object storage, schemas | none that changes over time | | | |

**How they interact.** The cart endpoints and the checkout meet in the cart
hash, the checkout and the product endpoints in `products.stock` and in the cache
entry, the checkout and the worker in the queue. There is no lock between two
stores and none inside Valkey: the only mutual exclusion of the system is the row
lock of PostgreSQL. The pages of the front end meet in the contexts, in the URL and in
the requests in flight, which survive the page that sent them.

**What is hard here.** Every `await` hands the processor to other requests, and
several API processes may run: so a handler is interleaved at every access to a
store. At each of these points it may also stop (an exception, a restart), and
what it did in the stores without a transaction stays. In the browser, handlers and
effects overlap in the same way: answers arrive in any order, for a page that shows
something else by then, and an error says nothing about what the server has done.
`PROJECT.json` lists the hazards line by line, each with the properties that would
catch it.

## 2. Modules

| Module | Models | Role |
|---|---|---|
| `Shop` | `products` rows and cart hashes, shared by the two below | state |
| `Checkout` | the checkout handler await by await; administrators; row locks, deadlock detection, serial ids | EXTENDS `Shop` |
| `Inventory` | abstract: indivisible purchases, restocks, withdrawals | implemented by `Checkout` and `Storefront` |
| `Cart` | cart endpoints behind the rate limiter, TTL and eviction | EXTENDS `Shop` |
| `Storefront` | `Checkout` and `Cart` over the same `Shop` | composition |
| `OrderQueue` | publish, broker, workers, outages | stands alone |
| `Catalog` | row, cache entry and search document of one product | stands alone |
| `Client` | requests in flight of the pages below, and their cancellation | state |
| `View` | abstract: a page asks, loads, and shows what it last asked for | implemented by `HomePage` and `ProductPage` |
| `HomePage`, `ProductPage`, `HealthPage`, `Navbar` | one component each | EXTEND `Client` |
| `App` | routes; the navigation bar above one page at a time | composition |
| `CartScreen` | the tab's copy of the cart and the handlers that change it | state and actions |
| `CheckoutPage` | sign-in and checkout views with `users.py` behind them | EXTENDS `CartScreen` |
| `AdminPage` | admin form and rows, with the commits behind them | EXTENDS `Client` |
| `CheckoutProofs`, `CartProofs`, `StorefrontProofs`, `OrderQueueProofs`, `CatalogProofs` | theorems about the modules they are named after | TLAPS |
| `AppProofs` | theorems about the pages that load, each on its own and in `App` | TLAPS |
| `BrowserProofs` | theorems about `CartScreen` and `CheckoutPage` | TLAPS |
| `AdminProofs` | theorems about `AdminPage` | TLAPS |
| `MC*` | symmetry sets and instances for TLC | |

Definitions named `...Forgotten`, `...Unchecked`, `...Early` and so on, each under
the comment "Mutant", are not part of any specification. They state what a
plausible mistake in the operator below them would be, and document that the
property named in `PROJECT.json` notices it. An operator that seems too small to be
one (`MayAck`, `Close`, `InStock`) is there to be mistaken in that way.

### 2.1 Checkout

`pc[r]` is the place of request `r` in `checkout()`:

| Action | Code (`app/routers/orders.py`) | From → to |
|---|---|---|
| `ReadCart` | `hgetall`, 400 if empty (64-77) | idle → reserving, rejected |
| `NextLine` | the loop sends `SELECT ... FOR UPDATE` (86-102) | sets `want[r]` |
| `Reserve` | the row is locked, read, checked, decremented in the session (97-134) | fills `items`, `draft`, `lock` |
| `Reject` | 404 or 409 inside the transaction (104-121) | reserving → rejected, rolled back |
| `InsertOrder` | `flush()` draws the order id; order items (136-154) | reserving → inserted |
| `Commit` | end of `async with db.begin()` (156) | inserted → committed |
| `ClearCart` | `DEL cart:<session>` (160) | committed → cleared |
| `Publish` | `publish(...)` (170-177) | cleared → published |
| `Respond` | the order is read back, 201 (179-186) | published → confirmed |
| `Abort`, `DeadlockVictim` | an exception or the end of the process at any await; PostgreSQL's choice in a deadlock | rolled back before the commit, stopped after it |

The decrement is `product.stock -= quantity` in Python: `draft` keeps the absolute
value that the UPDATE will write. Whether the row is still what was read is the
job of the row lock, so the model must not write the decrement as an increment of
the present stock. `SetStock` and `CreateProduct` are PUT and POST of
`products.py`; both wait for the row lock where the UPDATE would. `DeleteProduct`
is the database operator whom `cart.py:171` and the 404 of `orders.py:108`
provide for. The `CHECK (stock >= 0)` of `init.sql` is not in the model: the
handler's own check has to do without it, and does.

An order's session is not a column of `orders`; it is kept as history, as are
`supplied` and `sold`.

### 2.2 Cart

`step[a]` follows `add_to_cart`: INCR (`AddCount`), the EXPIRE of the counter if this is the
first request of its window (`AddOpenWindow`), product check (`AddCheck`), HGET (`AddRead`),
HSET (`AddWrite`), EXPIRE (`AddExpire`), and `AddAbort` between any two of them. HSET
creates a key without a TTL, EXPIRE on a missing key does nothing, HDEL of the last field
removes the key: these rules of Valkey are in the model because the TTL properties depend on
them. A stop between HSET and EXPIRE is kept apart from all other stops (`step[a] =
"untimed"`), and so is one between INCR and the EXPIRE of the counter (`cut`): these two are
the only excuses for a key without a TTL. `ExpireCart`, `WindowEnds`, `EvictCart` and
`EvictCounter` (allkeys-lru, `embr.yaml:76-82`) are steps of Valkey itself. All requests
come from one client address: two limiters have nothing in common. `asked` and `ever` are
history.

### 2.3 Storefront

Steps of both sides over one `Shop`. Requests of a session overlap at will (several
tabs, retries). The history variable `disturbed` collects the sessions in which something
fell into a request that was still pending: another checkout or add, or the loss of the
cart. `PaidOnce` and `ClearedMeansFulfilled` speak of the other sessions, those of
customers who wait for each answer, as `CheckoutPage.tsx:195-216` makes them do for the
checkout button.

### 2.4 OrderQueue

The broker is modelled from what the code relies on (comment at the top of the
module). `process_message` and its handlers contain no `await` of their own work,
so a worker takes a next message only when it is through with the last one.
`LoseConnection` keeps the handler running while the broker gives its message to
somebody else; the late ACK then acknowledges nothing. `HandlerRaises` →
`RejectMessage` is the path of `message.process()` with its default
`requeue=False`.

### 2.5 Catalog

The contents of a product are abstracted to counters. `version` counts committed changes of the row,
`searchable` those of the columns that the search document shows: all but `image_url`, the stock
included (`products.py:65-72`). A writer commits (`WriteCommit`), reads the row again (`Refresh`),
deletes the cache entry (`Invalidate`), indexes its snapshot (`Index`); an image upload is done
after the commit. A checkout only commits and deletes: it changes the stock and never indexes, and
the history variable `sold` says that no writer has read the row since a sale of it. A reader looks
into the cache, reads the row, fills the cache with a TTL. One product is enough: no operation
relates the copies of two products.

### 2.6 Pages that load: Client, HomePage, ProductPage, HealthPage, Navbar, App

`calls` holds the requests in flight, in any of `MaxCalls` places, with the key that was
asked for and whether an answer is still wanted (`live`, the negation of the effect's
`cancelled`). Nothing aborts a request; any of them ends at any time with an answer or an
error.

| Code | Model |
|---|---|
| `HomePage.tsx:46-76`, effect with cleanup | `HomeEffect` runs some time after the URL has changed, cancels and sends; an answer may come between the two |
| `.then`, `.catch`, `.finally` (64-71) | `SearchAnswered`, `SearchFailed`; `.finally` belongs to the same step, for it runs before any other event of the page |
| `updateParam`, `clearAllFilters` | `UpdateParam`, `ClearAllFilters` |
| `ProductPage.tsx:48-77` | `ProductEffect`, `ProductAnswered`, `ProductFailed` |
| the quantity input (115-118) | `ChangeQuantity`, clamped to the interval from 1 to `MaxQuantity`; in halves, for the clamp lets fractions through (which the server answers with a 422) |
| `HealthPage.tsx:25-43` | `Refresh`, `CheckEnds`; `HealthOpen` sends two checks in a development build, where StrictMode runs the effect twice |
| `Navbar.tsx:24-51`, debounced suggestions | `Type`, `TimerFires`, `SuggestionsCome`, `SuggestionsFail`; an effect caused by an input event runs before the next event, so it is part of `Type` |
| `handleSearch`, `handlePickSuggestion`, clicks outside, focus | `SubmitSearch`, `PickSuggestion`, `Dismiss`, `Focus` |
| routes of `App.tsx` | `GoAway` unmounts, `EnterHome`, `EnterProduct`, `EnterHealth` mount with fresh hooks; a link from page to page is the two in a row |

`View` says what such a page promises: it shows the data of the key it last asked for, or
an error, and a page that was left shows nothing. `HomePage` and `ProductPage` implement it
(`HomeImplementsView`, `ProductImplementsView`), inside of the whole application.

### 2.7 The tab: CartScreen and CheckoutPage

A click starts a handler `h[c]`: `sent` to the server, then `loading` (its `refreshCart()`),
`read` (the GET has been served), `done`. The server's cart is its lines with a version;
what happens inside of the endpoints is the matter of `Cart` and `Checkout`. Each product
has an Add-to-cart button of its own, so adds of two products overlap on one page.
`Withdraw` deletes the row of a product, a line of which stays in the cart: GET /cart skips
it (`Listing`), and the checkout answers it with a 404. A response may be lost after its
effect; handlers of a page that was left go on; `Reload` leaves what was sent to be served
for nobody. `here` and `panel` are the handlers whose page and whose panel has been mounted
ever since: a button's disabled state lives in its panel, and dies with it. An order is
committed (`CommitOrder`) and the cart deleted (`ClearBasket`) in two steps, between which
other clicks are served and the process may stop (`StopOrder`); the history variable `apart`
collects the orders that failed there, or whose panel went before their DEL. Only a handler
whose page is still mounted confirms its order (`ConfirmedBy`).

`CheckoutView` is the order of the guards in `CheckoutPage.tsx`: confirmation, loading,
empty, sign-in, review. Registration is the SELECT (`CheckEmail`) and the INSERT under the
UNIQUE constraint (`InsertUser`) of `users.py`, followed by the fallback to an id.

### 2.8 AdminPage

`rows` is the products table, `listed` the products created on this page, `typed` the inputs
of their rows. PostgreSQL rounds a price to NUMERIC(10, 2) (`Stored`, by the constant
`Rounded`); prices that the CHECK constraint or the request's schema refuses are not among
the `Prices`. A request is committed, read back, answered; it may end in an error at each of
these points, also after its commit, and the connection may break (`Lost`), or the page be
left, with the request still to be carried out. `Save` sends price and stock together,
whichever was edited; `Sell` is a checkout by somebody else.

## 3. Runs

| Run | Instance | Shows |
|---|---|---|
| `checkout` | 3 requests, 2 products, 2 sessions, cart quantity 1, stock levels 1 and 2 | books balance, sales are on orders, drafts are current, ids unique, a 201 stands for an order, refinement of `Inventory` |
| `checkout_liveness` | 3 requests, 3 carts overlapping in a cycle over 3 products, quantities up to 2, stock 2 | every checkout ends |
| `cart` | 2 adds of 1 unit, 2 products, 1 session, 1 request per window | TTL only missing mid-add, nothing invented, abandoned carts disappear, the counter resets |
| `cart_lost_update` | 2 adds of 1 or 2 units, adds only | finding: a lost update |
| `storefront` | 2 checkouts, 2 adds, 1 session, 1 product | orders were asked for; the refinement survives the composition; undisturbed: paid once, the DEL removes only what was ordered |
| `queue` | 3 events, 2 workers, 2 outages | one place per message, acknowledged means handled, duplicates are bounded by outages, every event is settled |
| `queue_requeue` | 2 events, 2 workers | finding: a failed message does not come back |
| `catalog` | 2 GETs, 3 writers | the only reasons for stale cache entries and stale documents, whose columns include the stock; stale entries end |
| `catalog_index_race` | 3 GETs, 3 writers | finding: the document lags for good |
| `browser` | 4 handlers, 1 product, 1 e-mail, 1 change from elsewhere, 2 moves | reasons for a stale screen; one order per click, one order per cart and panel; confirmations are true and stay; the spinner ends |
| `pages` | 2 requests in flight, 2 products, stock 0 and 2, quantities in halves, parameters `q` and `category`, 3 texts | both refinements of `View`; quantity within stock; reasons for stale suggestions; a dismissed list stays closed; loading ends |
| `admin` | 2 requests in flight, 2 products, 2 edits, 2 fillings of the form, 1 leave, 3 prices of which one is rounded | the list is complete; duplicates need failures; rows are dirty for a reason; a save changes what was typed |

**Why these bounds.** *Checkout*: overselling needs two requests and the last unit; the third
request waits for a lock that passes from hand to hand, and takes the last unit after a rollback.
Two products give opposite lock orders (a deadlock of two), a 409 on the second line after a
decrement on the first, and stock level 1 for three customers of one product. With quantity 1 and
levels up to 2 every outcome of the stock check occurs on both lines. Deadlocks of three
transactions need three products and are the subject of `checkout_liveness`, whose carts overlap
pairwise in a cycle and ask for more than there is. *Cart*: a lost update, a line that returns after
a removal and an EXPIRE that meets a key of another add need two adds; the second product
distinguishes removing a field from removing the key; with one request per window the second add is
refused, counted in the next window, or lets a counter without a TTL grow. *Storefront*: a double
payment needs two checkouts of one session, a line lost in the DEL one add and one checkout; the
second add and the two levels of the stock cover retries. *Queue*: two workers and two outages let a
message be in the hands of two handlers that both believe to own it, and return twice; the third
event keeps the order of the queue visible. *Catalog*: one writer must be the create; the other two
overlap each other and it. Two readers can hold a stale version at once. *Browser*: handler 1 is the
load at the start; three clicks suffice for an add, an order and a second order, or an order, a
reload of the page and a second order, with answers out of order; the second of two moves is the
reload after a page change. The one change from elsewhere is an add of another tab, the loss of the
cart, or the withdrawal of the product. A second product, whose adds overlap with those of the first
on one page, is beyond a run of some minutes; the proofs are for any number of products. *Pages*:
two requests are the answer that is late and the one it meets; a filter next to the text tells
replacing from extending the URL; a text with a blank tells `trim()` from the text. Stock 0 has no
quantity input, stock 2 has the quantities 1, 1.5 and 2. *Admin*: the third price is stored as the
second; two products are what an answer can be mistaken for; two edits are both fields of one row,
or one of each row.

Bounds in guards: `MaxOutages` (`OrderQueue`); `MaxCalls` (`Client`: an effect waits until a
request has ended, so more requests in flight than `MaxCalls` are not seen); `MaxClicks`,
`MaxElsewhere`, `MaxMoves` (`CartScreen`); `Drafts`, `MaxProducts`, `MaxEdits`, `MaxLeaves`
(`AdminPage`). Everything else is finite because requests are sent once.

**Deadlock** is checked in `pages`, where the customer can always go on. It is off elsewhere,
for requests are sent once or bounded: when all of them are through the model stops, as an
idle server does. That nothing hangs before is the subject of the liveness properties.

**Symmetry** is used in the runs without liveness only, over sets whose elements
no specification tells apart.

**Fairness.** *Checkout*: weak fairness of a handler that has begun (the event loop
resumes it when its await is over) and of the deadlock detector (`deadlock_timeout`).
Lock waits need no strong fairness because each request is sent once: a
row is taken from a waiting request only finitely often. *Cart*: a handler that has
begun, TTL expiry of carts, and the end of a limiter's window (its TTL). *Queue*: workers
go on, reconnect (`connect_robust`), are given messages, and a worker process that ended
is started again (`order_worker.py:24-30` relies on that; it is the operator's part
of the bargain, the repository starts workers by hand). *Catalog*: only the TTL of cache
entries. *Browser* and *pages*: a request that was sent ends, and its handler goes on;
`fetch()` has no timeout, so it is the browser, its proxy or the connection that gives up
in the end. `HomeSettles` needs nothing of effects: it speaks of states in which the effect
of the last render has run. Nothing is assumed of customers or administrators, and failures
may happen at any point or never.

### Findings

1. **Lost update in the cart** (`cart_lost_update`, `cart.py:121`). HGET and HSET of
   two overlapping adds; `tests/test_cart.py:64` promises the sum.
2. **Failed messages are dropped** (`queue_requeue`, `order_worker.py:91`). The comment
   at 88-89 expects them back in the queue; `process()` defaults to
   `requeue=False`.
3. **The search document stays behind** (`catalog_index_race`, `products.py:297`). Two
   updates index in the opposite order of their commits; unlike the cache entry the
   document has no TTL.

Other places where code and documents part are spelled out in the exceptions of properties
that hold:

- The DEL of the checkout removes what was added while it ran, although the cart "has been
  fulfilled" (`orders.py:159-160`): `ClearedMeansFulfilled` speaks of undisturbed sessions.
- A reader that was overtaken by a commit stores the old row after the DEL
  (`products.py:259`); `implementation.md:106` has the cache invalidated on every change.
  `StaleForAReason` lists it, and `StaleEntriesEnd` says that the TTL repairs it.
- A checkout takes the cache entries of what it sold out of Valkey (`orders.py:167`) and leaves the search
  documents as they are, although `products.py:71` writes the stock into them and `products.py:54-55` has
  them "always reflect the current state". Nothing repairs that but the next edit of the product
  (`sold` in `LagsForAReason` and in `IndexIsCurrent`). The search endpoint does not return the stock.
- An image upload leaves the cached product in place (`products.py:337`; `StaleForAReason`).
- A cart whose add was stopped between HSET and EXPIRE never expires (`cart.py:127-130`), nor
  does a rate counter stopped between INCR and EXPIRE (`cart.py:72-77`):
  `AbandonedCartsDisappear`, `CounterResets`.
- An order whose event was never published (a crash after the commit) is within the model:
  only `EventsFollowCommits`, not its converse, holds.
- Two registrations of one e-mail that pass the SELECT together (`users.py:38`) both INSERT, and the one that
  comes second is answered with a 500 where `users.py:34` has a 409 (`InsertUser`).
- GET /cart hides the line of a product that was deleted (`cart.py:171-173`), the checkout refuses the cart because of
  it (`orders.py:108`), and no button of the drawer removes it (`Listing` in `ScreenLagsForAReason`).
- The button that places an order is disabled by the state of its panel. A page that was left and entered again
  has another one, on which a second click orders the cart once more while the first order has not
  deleted it (`apart` in `CartsAreOrderedOnce`).
- `null` is both "loading" and "could not be loaded" for the cart (`CartContext.tsx:59-61`,
  `CheckoutPage.tsx:40`): after a failed refresh the spinner stays (`failedLoad` in
  `SpinnerEnds`).
- Nothing orders the answers of `GET /cart` or of the suggestions (`excused` in
  `ScreenLagsForAReason`, `late` in `SuggestionsLagForAReason`); in a development build the error
  of one health check outlives the answer of the other (`strict` in `HealthIsOneOrTheOther`).
- Saving a price writes back the stock of the last answer (`unknown` in
  `SaveChangesWhatWasTyped`, `AdminPage.tsx:258`), and a create that failed in the indexing is
  repeated by the next click (`DuplicatesNeedFailures`).
- A price typed with three decimals is rounded by its column (`init.sql:16`); the row differs from its inputs
  after the save, and its button stays enabled (`IsRounded` in `DirtyForAReason`, `AdminPage.tsx:252-253`).

## 4. Proofs

All theorems are for any sets and any bounds, from the named assumptions on the constants
alone: markers such as `NoRequest` lie outside of the sets they complete (`NoCart` and `NoClick` stand
for the `null` of `CartContext.tsx` and `CheckoutPage.tsx`, which is neither a cart nor an order),
quantities and levels are natural numbers, something can be typed as a price (`Prices # {}`), and a price that was
rounded is a price that is not rounded again.

| Theorem | States |
|---|---|
| `CheckoutTypeCorrect` | `CheckoutSpec => []CheckoutTypeOK` |
| `CheckoutInvariance` | the inductive invariant of the checkout |
| `NoOversell` | `[]BooksBalance` |
| `DraftsStayCurrent` | `[]DraftsAreCurrent` |
| `SalesStayOnOrders` | `[]SoldIsOnOrders` |
| `OrderIdsStayUnique` | `[]OrderIdsAreUnique` |
| `EventsNeverPrecedeCommits` | `[]EventsFollowCommits` |
| `ConfirmedOrdersExist` | `[]ConfirmedMeansOrdered` |
| `RowLocksProtect` | `LockedRowsAreStable` |
| `CheckoutImplementsInventory` | `CheckoutSpec => Inventory!Spec` |
| `CartInvariance`, `CartTypeCorrect` | the inductive invariant of the cart endpoints, types |
| `OnlyAddsLeaveCartsUntimed` | `CartSpec => []UntimedOnlyMidAdd` |
| `CartsInventNothing` | `CartSpec => []NothingInvented` |
| `StorefrontInvariance` | the inductive invariant of both together |
| `OrdersStayWithinAsked` | `StorefrontSpec => []OrdersWereAsked` |
| `StorefrontNoOversell`, `StorefrontUntimedOnlyMidAdd` | the invariants of each side survive the other |
| `UndisturbedCartsAreFulfilled` | `StorefrontSpec => ClearedMeansFulfilled` |
| `QuietCustomersPayOnce` | `StorefrontSpec => []PaidOnce` |
| `StorefrontImplementsInventory` | `StorefrontSpec => Inventory!Spec` |
| `QueueInvariance`, `QueueTypeCorrect` | the inductive invariant of the order events, types |
| `EveryMessageHasOnePlace` | `QueueSpec => []OnePlacePerMessage` |
| `AcknowledgedWorkIsDone` | `QueueSpec => []AckedMeansHandled` |
| `RepeatsNeedOutages` | `QueueSpec => []DuplicatesNeedOutages` |
| `CatalogInvariance`, `CatalogTypeCorrect` | the inductive invariant of a product and its copies, types |
| `StaleEntriesHaveReasons` | `CatalogSpec => []StaleForAReason` |
| `LagsHaveReasons` | `CatalogSpec => []LagsForAReason` |
| `HomeInvariant`, `HomeIsAView` | the catalog page on its own implements `View` |
| `AppDrivesHome`, `AppHomeIsAView` | it does so in the whole application |
| `PagesInvariance`, `AppTypeCorrect` | the inductive invariant of product page, health page and navigation bar in the application, types |
| `ProductIsAView` | `AppSpec => ProductImplementsView` |
| `QuantityIsAvailable` | `AppSpec => []QuantityWithinStock` |
| `HealthIsDefinite` | `AppSpec => []HealthIsOneOrTheOther` |
| `LateSuggestionsHaveReasons` | `AppSpec => []SuggestionsLagForAReason` |
| `DismissedListsStayClosed` | `AppSpec => []StaysDismissed` |
| `BrowserInvariance`, `BrowserTypeCorrect` | the inductive invariant of a tab, types |
| `LateScreensHaveReasons` | `BrowserSpec => []ScreenLagsForAReason` |
| `ConfirmationsAreTrue`, `ConfirmationsStay` | `[]ConfirmedIsOrdered`, `ConfirmationStays` |
| `ClicksOrderOnce` | `BrowserSpec => []OneOrderPerClick` |
| `CartsOrderOnce` | `BrowserSpec => []CartsAreOrderedOnce` |
| `AdminInvariance`, `AdminTypeCorrect` | the inductive invariant of the admin page, types |
| `ListsAreComplete` | `AdminSpec => []ListIsComplete` |
| `DuplicatesHaveReasons` | `AdminSpec => []DuplicatesNeedFailures` |
| `DirtyRowsHaveReasons` | `AdminSpec => []DirtyForAReason` |
| `SavesChangeWhatWasTyped` | `AdminSpec => SaveChangesWhatWasTyped` |

**Checkout.** `BooksBalance` is not inductive: a commit writes an absolute stock
level that was computed earlier. `DraftsAreCurrent` says that it is still right
(the transaction holds every row it decided on, and the draft is the *present*
stock minus its quantity); every other action keeps it because `Reserve`, `SetStock`
and `DeleteProduct` wait for the lock. The rest of `CheckoutInvariant`:

- `LoopFollowsCart`: a pending SELECT, and every decided line, belong to the cart that
  was read, so that `InsertOrder` has all lines and a commit sells at least one unit.
- `SalesAreOnOrders`: a product with sales is on some order; therefore a
  deleted product was never sold and its books may be closed at zero.
- `SoldIsOnOrders`, the exact sum: the units of a product on the orders are a set
  (`UnitsOrdered`, one element for each unit of each order), so that a new order adds the
  cardinality of a disjoint set and no induction over the orders is needed.
- `UnbornRowsAreEmpty`: a row that was never inserted has neither stock nor supply, so
  creating it is a restock of the abstract inventory.
- `IdsAreAllocated`: committed and drawn ids are below `nextId` and drawn ids are
  distinct, whatever the order of commits.
- `CommittedMeansOrdered`: from its commit to its 201 a handler's order is in the table
  with the items of its cart, and from the publish on its event is out.

`TypedStep`, `DraftsStep`, `BooksStep`, `IdsStep` and `EventsStep` take the five parts
through one step each, with a step per action. The refinement maps `Commit` to
`Purchase`, `CreateProduct` and `SetStock` to `Restock`, `DeleteProduct` to `Withdraw`
and everything else to stuttering.

**Cart.** `NothingInvented` (`cart <= ever`) is not inductive, for HSET writes what HGET found some
steps ago: `ReadsAreBounded` says that what was read is still covered by what was ever asked for,
because `ever` only grows while the cart may shrink. `AsksAreKnown` types the request that a handler
works on. For `UntimedOnlyMidAdd` each action has to show that it either leaves the reason (an add
that is at its EXPIRE, or was stopped just before it) in place, gives the key its TTL, or empties
the cart.

**Storefront.** `CheckoutInvariant` says nothing about carts but their type, so a cart step keeps
it (`CheckoutIgnoresCarts`); of the checkout's steps only the DEL touches a cart, as a whole and
together with its TTL (`DropKeeps`). What neither side can say alone is added:
`ReadsWereAsked` (HGETALL found no more than was asked for), which makes `OrdersWereAsked`
inductive, and, for undisturbed sessions, `AddsApart` (no add beside a checkout) and hence
`ReadsStand` (from HGETALL to DEL the cart is within what was read). `PaidOnce` compares orders with
`ever`, but between a commit and its DEL a unit is both on the order and in the cart. `Covered`
therefore counts the cart only while no checkout stands there (`Clearing`): orders and cart together
are then within what was asked for. That a commit keeps this needs the requests of an undisturbed
session one after the other (`RequestsApart`, `AddsAlone`), so that the cart it empties is exactly
the cart that was read (`ReadsExact`, `FindsStand`).

**Order events.** `Places` says that the queue holds no message twice, that no two workers hold the same
one, that nobody holds what is in the queue, and that what was acknowledged or dropped is in neither. `WorkIsDone`
follows a message through the worker: an ACK comes after both handlers. For `DuplicatesNeedOutages` the
count of repeated mails alone is not inductive, for an outage pays for a repetition that comes only
later, with the redelivery. What is inductive counts what may still send a mail with what was sent
(`MailsArePaidFor`): mails, workers about to send one and queued messages are together no more than the
messages that are alive and the outages. A lost connection adds at most one message to the queue, and is
one outage.

**Catalog.** `Staling(w)`: a writer that is a reason for a stale entry stays one until its DEL, and
the DEL empties the entry; a reader can fill an old row only if it was overtaken. For the search
document, `DocumentHasAuthor` says that the document is the snapshot of some writer that is through,
and `LastWriteIsCarried` that some writer has the present row as its snapshot, has still to read it,
or was stopped, unless nobody has read it since a sale. When all writers are through and the
document lags, these two writers are the ones that indexed in the opposite order.

**Catalog page.** `OneLiveSearch`: at most one search is wanted, it is for the filters with which the
effect ran last, and the spinner waits for it. So an answer that is applied is an answer to what
was asked for last. `AppDrivesHome` shows that the navigation bar, the routes and the requests of
the other pages are a legal environment of that page, from which `AppHomeIsAView` follows without
looking into the page again.

**The other pages.** Each page sees of the requests only those of its own kind (`Kept`, `SameBut`,
`DeadBut` say what an operation of `Client` does to them), so its invariant needs one lemma for its
own steps and one for all others. `ProductInv`: the request that is not cancelled is the only one
and is for the product with which the effect ran last. `HealthInv`: in a production build there is
at most one check at a time, and the spinner or the result of the last one is on the screen.
`NavbarInv`: the timer runs for the text in the box, and a list that was closed while nothing was
under way has neither a timer nor a request to open it.

**The tab.** `ReadsAreOld`: what a GET has read is not newer than the server's cart. `ScreenFollows` is
`ScreenLagsForAReason` made inductive: the screen shows what GET /cart answers, or an excuse is on record, or there
is a handler that will bring the cart as it is now (`Brings`: about to send its GET, or back from one with
just this cart, or the order whose refresh is still to come). For the orders: a click whose
order is in the table is beyond its request (`Past`), and a handler whose order was served is in the table.
For `CartsAreOrderedOnce` (`OnceInv`): an order of the cart's present version is between its commit and its DEL or
is `apart` (`OrdersAreOld`), for every DEL counts the version up; and what is there and not `apart` is in the
panel, alone, for the button is disabled (`PanelsServeOne`).

**Admin page.** `OneCreate` and `OneSave`: the disabled buttons let one create, and one PUT per row,
be waited for at a time, and a product that is being created has a higher id than those in the list;
hence the list stays in the order of the ids, and `filter((q) => q.id !== p.id)` never finds
anything. A create request goes on, or its product is missed, or it is listed with the form blank
(`GoesOn`); so in `DraftsOK` the fields of a product that the page knows of are neither in the form
nor on their way again, which is why a second product from them needs a failure. For the rows: the
inputs, as they would be stored, agree with the table but for the fields typed since the last save
(`InputOK`), unless the table has changed behind the page; while a PUT is under way it is the
request that carries the difference (`SaveOK`), and while a create is under way the row that was
read for its answer (`CreateOK`). From `SaveOK` at the moment of the commit
`SaveChangesWhatWasTyped` follows. `DirtyForAReason` needs the same of a row that is being saved
(`DirtyJobOK`): after an error, the fields that the PUT carried count as typed again. That the
rounding does not lead the page astray is `RowsRounded`: the table holds no price that would be
rounded again, so an input that shows a row's price is stored as that price.

**Only model-checked.** Liveness: `EveryCheckoutEnds`, `AbandonedCartsDisappear`, `CounterResets`,
`EveryEventIsSettled`, `StaleEntriesEnd`, `SpinnerEnds` and `HomeSettles` (fairness and ENABLED are
out of the prover's reach). All invariants and action properties that the passing runs check are
theorems. The type invariants are proved and not checked by the runs, which spend their time on the
other properties.

## 5. Not modelled

- `app/storage.py`, `app/config.py`, `app/main.py`, search and autocomplete queries on the
  server: I/O without state of their own. Toasts, spinner and types: presentation.
- HTTP and JSON, wording of errors, prices (but for the admin page's), names and images: no
  property depends on them.
- The `reviews` table: nothing uses it.
- Isolation below READ COMMITTED details, the connection pool, disk failures of
  PostgreSQL: the database is taken at its word.
- Publisher confirms failing after the broker stored the message: an API request whose
  `publish` raises counts as stopped before the publish.
- Requests that reach the server long after the browser gave them up are in `AdminPage` and, after a
  reload, in `CartScreen`; elsewhere a lost answer and a lost request are all that is told apart.
- Time: that a window or a TTL ends is a step that may come at any time. How many requests fall
  into one minute (`cart.py:72`) can therefore not be said.

## 6. Plan

Built in this order, the most important behaviour first: `Inventory` and `Checkout`
(overselling, atomicity, deadlocks) → `CheckoutProofs` → `Cart` → `Storefront` (the
two meet) → `OrderQueue` → `Catalog` → the rate limiter in `Cart` → `CartScreen` and
`CheckoutPage` with `users.py` → `Client`, `View` and the pages → `AdminPage` → `AppProofs`,
`CartProofs`, `StorefrontProofs` → `OrderQueueProofs`, `CatalogProofs`, `BrowserProofs`,
`AdminProofs`. What comes next:

1. An end-to-end composition of `Checkout` with `OrderQueue` (from the click to the e-mail).
2. `QueueChannel`: the singletons of `app/queue.py:58` under concurrent first calls.
3. `StartUp`: index and container creation by several processes (`search.py:98`).
