# Formal model of kfc-userapi

kfc-userapi is the gateway between KFC's devices (kiosks, kitchen screens, hall
displays), the website and the back-office services: kfc-crm (menus, restaurants,
devices), kfc-order (orders), kfc-loyalty (members, points), kfc-notification
(SMS). It owns no database. All of its state is in Redis, shared by every
replica, apart from the SSE subscribers that each replica keeps in memory. Most of
what can go wrong is therefore not in one function but between the commands and
calls of several: this project models those.

TLA+ modules model the components, TLC checks them on small instances, TLAPS proves
the main results for all instances. `PROJECT.json` lists the runs, the map from
every definition to the source lines it models, the findings, the hazards and the
theorems.

## Inventory

| Component | State | Operations | Hard because | Correct when | Module |
|---|---|---|---|---|---|
| Menu cache (`menu_service.go`, `menu_cache_repo.go`) | `menu:restaurant:{id}` with TTL; marks `menu:invalidated:{id}`, `menu:invalidated:all` | `GetEffectiveMenu` (cache-aside), `Set` with its stale-write guard, `Invalidate` | fetches race invalidations command by command; TTL against promotion boundaries | an invalidated menu does not come back; staleness is bounded | MenuCache |
| Menu consumers (`menu_consumer.go`, `pkg/kafka/consumer.go`) | group offsets, attempts, context | fetch, handle with retries, commit, stop | redelivery, failing handlers, failed commits, crash, shutdown in the middle | every event is dealt with; losing one takes repeated failures | MenuCache |
| Checkout (`order_service.go`) | none of its own; a hold at kfc-loyalty and an order at kfc-order | validate, price, reserve, create, commit or release | every call may time out and still be executed; clients retry; replicas die and shut down | order and points go together | Checkout, Redemption |
| Device pairing, revocation (`pairing_*.go`, `device_auth_*.go`, `revocation_repo.go`) | `pair:code`, `pair:meta`, `pair:restaurant` keys; revocation entries; JWTs outside | cache one code or a batch, revoke a code, pair, revoke a device, check a token | pipelines are not transactions; several keys per code; TTLs | a consumed code stays consumed; a batch supersedes; a revoked device stays out | DevicePairing |
| Customer sign-in (`customer_service.go`, `customer_auth_repo.go`, `customer_handler.go`) | SMS code with attempts, throttles, refresh tokens; the cookie | request, verify, refresh, log out | read-modify-write of attempts, deletes by phone, failures between steps, tabs that share a cookie | limits hold, a sent code works, a refresh token works once | SignIn, Sessions, TokenChain |
| SSE hubs and streams (`sse/hub.go`, `*_stream_handler.go`, `order_consumer.go`) | subscriber maps, bounded channels | subscribe, publish, unsubscribe, heartbeat | lock and close order, dropped events, subscribing after reading, gone clients | no send on a closed channel, no screen misses a change unnoticed, subscriptions are released | LiveScreens |
| Lifecycle (`app.go`, `main.go`) | the process | start, shut down in order | clients close before HTTP is drained, streams do not see the shutdown | in-flight work ends, the process ends | LiveScreens, MenuCache, Checkout |
| Cart pricing (`priceCart`) | none | price a cart from the menu | rounding, default options, points beyond int32 | the customer pays what was shown; a discount is held | PriceCart |
| Kitchen orders (`UpdateFromKitchen`) | none | read, check restaurant, update | check, then act by id | only the own restaurant's orders | Gateway |
| Routes, tokens, views (`server.go`, `middleware`, `pkg/jwt`, `domain`) | none; JWTs outside | authenticate, dispatch, show | order of registration, kinds of tokens, readers of one order | each to its own routes, private stays private | Gateway |
| Configuration (`config`) | none | load, validate | five places for a variable | one place decides; what starts is safe to start | Settings |
| gRPC clients, logging, metrics, Redis wrapper, generated code | none | decode, encode, forward | | | – |

Interaction: HTTP and gRPC handlers call services; services call Redis through the
repositories and other services through gRPC clients with a deadline; Kafka consumers
call the menu repository and publish to the hubs, whose streams tell clients to fetch;
CRM calls the pairing server.

## Modules

### MenuCache

One Redis command is one step. `log` is the sequence of changes that CRM has
committed, and a version of a menu is a position in it, so "stale" has a meaning that
does not depend on the cache: a copy read at version `v` misses every later change that
touches its restaurant. `published` says how many of the changes have reached Kafka.

| Definitions | Code |
|---|---|
| `Miss`, `CrmAnswers`, `CheckMarks`, `Write`, `FetchFails` | `GetEffectiveMenu` and `menuCacheRepo.Set` |
| `Forbids`, `GuardRefuses`, `TTL` | the guard and the lifetime of an entry |
| `Mark`, `Del`, `ScanBatch`, `ScanEnds` | `menuCacheRepo.Invalidate` |
| `Poll`, `Attempt`, `AttemptFails`, `LastAttempt`, `AfterHandler`, `Publish`, `Commit` | `Consumer.Start`, `Consumer.handle`, `MenuConsumer.Invalidate`, `Broadcast` |
| `Stop`, `Resume`, `Crash`, `Rejoin` | shutdown, a new process, a dying one |
| `CrmCommits`, `CrmPublishes`, `Tick`, `MustReturn`, `Available` | external: kfc-crm, time, Redis, kafka-go |

A consumer of the set `Broadcasters` runs `Broadcast` in a group of its own; the others
run `Invalidate` with retries in the shared group. History variables and fields that no
guard reads: `fetchedAt` and `raced` of an entry, `marked`, `applied`.

Abstractions:
- A cache hit changes nothing and is not a step. The conversion to JSON and a
  malformed event are folded into a failing fetch or handler.
- A failing Redis call may or may not have been executed.
- The ttl is computed together with the MGET that follows it; the delay that matters,
  up to the SET, is there.
- All processes read one clock; skew between replicas is not modelled.
- The two MaxTTL of a mark outlast a fetch (`FetchTimeout < 2 * MaxTTL`): in the code
  2 hours against seconds.
- A member that Kafka has expelled from its group and that goes on working is not
  modelled. On a cancelled context a commit may go out or not.
- Marks can go back in time: a consumer takes the time first and writes it later,
  after another has written a later one. That is why `SettledFresh` speaks of changes
  that *every* consumer has invalidated for.

### Checkout and Redemption

`Checkout` is `orderService.place` with `reservePoints`, `isAmbiguous` and
`mapOrderError`; kfc-loyalty and kfc-order are external and behave as the comments of
their `.proto` files and of `order_service.go` say (same reference, same hold; same key,
same order; a hold that nobody commits expires; the hold is committed from
`order.created`). A request in `net` may be executed at any time, also long after the
caller's deadline, or be lost. `Ref(c)` is what identifies a checkout on both
sides: the client's key, or a new one for a call without.

`Redemption` is the abstract specification: per checkout `open`, `ordered`, `paid`,
`void`, `lapsed`. `Outcome` maps the order and the hold to it.

| Definitions | Code |
|---|---|
| `Start`, `Reject` | everything up to the first call that changes something |
| `Reserved`, `Created`, `Committed`, `Released` | what `place` does with each answer |
| `isAmbiguous`, `mapOrderError`, `CreateOrderRequest`, `Ref` | the functions of these names, the request and its key |
| `TimesOut`, `TransportErrors` | `timeoutInterceptor`, `Close` under calls in flight |
| `ReservePoints`, `CreateOrder`, `CommitHold`, `ReleaseHold`, `OrderCreatedEvent`, `HoldExpires`, `Lost`, `Dies` | external |

Abstractions:
- gRPC codes are `ok`, the four ambiguous ones, and `refused` for all that
  `isAmbiguous` leaves. `Internal` is among the latter: the model takes it, as the
  code does, for a definite failure.
- `Canceled` arises because `App.Shutdown` closes the clients before the HTTP server
  has drained. Commit and release run under `context.WithoutCancel` and are still bounded
  by `timeoutInterceptor`.
- Calls that share a key make the same request. Amounts are one unit of `Balance` per
  checkout; what they really are is in PriceCart. Cancelling and refunding an order are
  kfc-order's.

### DevicePairing

Redis pipelines are not transactions (`Pipeline`, not `TxPipeline`), so each command
is a step: the code, its metadata and the restaurant's set of serials are separate keys
with TTLs of their own. `CacheCode`, `CacheCodes` and `RevokeCode` are CRM's gRPC
calls, `Pair` and `Issue` the device's, `RevokeDevice` CRM's, `Accepts` the middleware.
`cached` is the history of caching calls, whose position is the identity of a code, and
`strays` of the codes that a batch may miss; no guard reads either.

Abstractions: bcrypt is equality; a device is its serial; a `Pair` without or with a
wrong code changes nothing; a failing call drops the commands it has not sent
(late execution after a client timeout is not modelled); `RevokeToken` has no
caller in the program and is left out.

### SignIn

`RequestCode` and `VerifyCode`, one Redis command or RPC per step; a command that fails
may have been executed. A code is identified with the request that drew it, a guess with
the code it is, or `Wrong`.

| Definitions | Code |
|---|---|
| `Allow`, `AllowSend`, `AllowHour`, `AllowIP` | the three throttles, `INCR` with a window from the first use |
| `SaveCode`, `SmsSent`, `SmsFails`, `DropCode`, `RequestFails` | the rest of `RequestCode` |
| `ReadCode`, `Compare`, `Exhausted`, `Consume`, `Burn`, `Count`, `SignedIn`, `VerifyFails` | `VerifyCode` with its counter of wrong guesses |

Three things in this code read, decide and write by phone number without a
transaction. The properties say exactly what that leaves: limits on guesses and uses of a code hold
unless calls on that code overlapped or a write failed (`lax`), and the code of the last SMS
works unless a call about another code deleted or overwrote it (`disturbed`). The
throttles hold for every interleaving. The history variables `wrong`, `free`, `used`, `lax`,
`disturbed` are read by no guard.

The clock is finer than a second (`Second` units to one), because `GetCode` reads the
remaining life of a code with `TTL`, in whole seconds, to the nearest (`Rounded`). That
has two consequences. A code that is written back lives up to half a second longer or
shorter, which `Deadline` allows for. And a code in its last half second reads 0, so
`VerifyCode` skips the write (`if ttl > 0`): a wrong guess there is `free`, not `wrong`, and
nothing bounds the number of such guesses. `GuessesBounded` bounds the others, and says that
free ones come no earlier than that.

Abstractions: phone numbers are already normalised; the keyed hash of the code is equality;
the request for which drawing a code fails is a `RequestFails`. `INCR` and the `EXPIRE`
of its first use are one step.

### Sessions and TokenChain

`Refresh`, `Logout` and `newSession` behind `customer_handler.go`, with the cookie of
each browser. Tabs share the cookie and call at the same time; a request carries the
cookie of when it was sent, and answers set or clear it in whatever order they arrive, or are lost.
`Take` is `GETDEL`. The n-th token of a sign-in stands for the random token of that step.

`TokenChain` is the abstract specification: a sign-in has at most one token that is
accepted, it is accepted once, and a chain that has ended does not come back. `Chains`
maps the tokens in Redis and the calls that are exchanging one to it.

### LiveScreens

One replica from its start to its shutdown: the order and menu consumers, the two hubs
with their `RWMutex` and bounded channels, the stream handlers (kiosk: menu; kitchen and
hall: orders of the restaurant; tracking page: one order), and the client of each
stream, which fetches when it is greeted.

| Definitions | Code |
|---|---|
| `Join`, `Handle`, `Send`, `HasRoom`, `Published`, `StopConsumer` | the consumers, `Hub.Publish` and `trySend` under the read lock |
| `Open`, `CheckOrder`, `Subscribe`, `Greet`, `Deliver`, `Ping`, `ServerDone`, `Unsubscribe` | the handlers, `Hub.Subscribe`, `Hub.Unsubscribe` under the write lock |
| `Signal`, `CloseClients`, `Drained`, `StopHTTP`, `Deadline` | `main`, `App.Shutdown` |
| `Change`, `Produce`, `ClientFetches`, `Cut` | external: kfc-order, kfc-crm, Kafka, the clients, the network |

`late` and `missed` are history: a client that fetched before the consumer had joined
its group, and orders of which a full channel dropped an event. `NothingLost` excuses
these two and nothing else.

Abstractions:
- The first write after a client has gone is swallowed, the next one fails: that is how
  fasthttp's body stream behaves under the handlers' `Flush`.
- A client's fetch is one step and returns the latest state. That it may be an older
  copy for a menu is MenuCache's matter.
- Events of kfc-order reach Kafka in any order; screens keep the newest state of an order.
- Redelivery after a crash sends an event twice, which changes no screen; it is left out.
- Of the HTTP requests that a drain waits for, only the streams are there.

### PriceCart and Gateway

`PriceCart` has `priceCart`, `pickVariation`, `kopecks` and the amounts of
`reservePoints` as operators. Float rubles are counted in tenths of a kopeck, so that
rounding shows; `FallsShort` are the prices whose float64 product by 100 is below the half
that it should be, and is rounded down (0.145, 0.285). `int32` and `int64` wrap around at `Int32Span` and its square.

`Gateway` puts requests through the whole program: `Routes` is the table in the order
in which `server.go` registers it, with `group` middleware that applies to every path
below it, and `Passes` is what fiber makes of it. The table is that of `/api/v1`: the probes
`/health` and `/ready` and the scrape target `/metrics` are registered before it, carry no
token and show nothing of orders or customers. `Parses`, `VerifyDevice`,
`VerifyAccess` and `VerifyKioskSession` are the token managers with their secrets and
audiences. `PlaceKioskOrder`, `PlaceWebOrder`, `Submit`, `Tap`, `Check`, `Update`,
`IdentifyAtKiosk`, `IssueKioskCode`, `SignsIn`, `Revoke` are the operations, each call to
another service a step; any token that was ever issued may be sent on any route. `Readable`
is everything that a GET or a stream could show to whom at the moment: reading
changes nothing, so reads are operators and not actions.

An order that is not taken is refused by `place` itself as invalid (`RefusedAs`), or by
kfc-loyalty or kfc-order with any code, which `mapOrderError` maps.

External behaviour that is assumed: kfc-order takes no discount above the subtotal and
does not move an order that has ended; kfc-loyalty holds a positive number of points that the
member has, and its codes work once and for a time.

Abstractions: requests that a rate limit turns away, with a malformed body or of an
unknown restaurant have no effect and are left out (`Fails` has the answers of a restaurant
that is gone). Terminals round prices as `kopecks` does. The life of a
revocation entry, of codes and of menus is in the other modules.

### Settings

`config.Load`, `loadDotenv`, `findEnvFile`, `getEnv`, `getEnvBool` and `Validate` for the
settings that other modules rely on. Nothing changes once the program runs, so these are
operators, and their property is one of the start of the gateway's run. `LoadFiles`
is the loop over the four files, written out. `SettingsAssumption` says what
TLC's model values stand for: "not set" is no text, "no file" is no environment, and a
secret that is long enough is not empty.

## Runs

Passing:

| Run | Question | Bounds |
|---|---|---|
| `menu_race` | does the guard with mark-then-delete leave only the window between MGET and SET, also under SCAN? | 2 restaurants, 1 fetch, durable and live consumer, 2 changes, clock to 2 |
| `menu_expiry` | how long can a stale menu, or one past its boundary, stay? is one ever written with a lifetime that is over? what does it take to lose an event? does the consumer get through every event? | clock to 5 with MaxTTL 2, 2 attempts, 2 faults, 1 shutdown, 1 change |
| `checkout_once` | do order and points go together when nobody retries? | 3 calls, 2 of them after the only points there are |
| `checkout_retry` | what holds with a retry of the same key, also at the same time? does everything settle? | 2 calls, one key |
| `pairing_tokens` | consumed codes, revoked devices, with failures and expiry | 1 serial, 2 devices, 1 CRM call at a time, 1 fault |
| `pairing_batch` | does a batch supersede what was there, and what may it miss? | 2 serials, 1 restaurant, 3 caching calls, 2 CRM calls at a time, 1 fault, symmetric serials and calls |
| `signin` | how often can a code be guessed or sent, and when does it work? | 1 phone, 1 address, 2 requests, 3 guesses with 2 allowed, a code of 4 thirds of a second, clock to 3, 1 fault |
| `sessions` | does a refresh token work once, and does the cookie follow? | 1 browser, 2 sign-ins, 3 refreshes, 1 logout, 1 fault |
| `screens` | what can a screen miss, who is released when, does the process end? | 1 stream of any kind, 1 order, 2 restaurants, channel of 1, 2 changes |
| `gateway` | who gets in, what do orders cost, who is shown what? what does the gateway start with? | 2 kiosks in 2 restaurants, 1 kitchen, 1 display, 1 member, 1 order, 6 tokens, clock to 2, `Int32Span` 16 |

The bounds are the smallest in which each race has its actors: a fetch and two
consumers, two changes so that marks can be overwritten, one clock tick more than the
TTL that is to run out, as many faults as attempts, two requests and one guess more than are
allowed, three tabs so that one call can overtake two, a second change for a channel that
holds one. A second of 3 units has a half of 1, and a code of 4 units a time before its last
half second and a time in it. One stream is enough in `screens` because streams share nothing
but the lock, which the publisher holds for all of them; the second restaurant is there so
that events for others and for all differ. The scaled `Int32Span` keeps the numbers
small on which a conversion and a product overflow. The mutants in `PROJECT.json` show
that each property fails within these bounds when the code is changed. The runs do not
check for deadlock: with the bounds on changes, faults and tokens, and after the last call,
the systems come to rest.

`pairing_batch` leaves out the clock, a second restaurant and devices that pair, to have
room for overlapping calls: a set that expires makes a stray too, and with a clock to 3 and
no fault, tokens that live for 1 and codes for 2, TLC has been through that as well (9.3 million states). The
proof has no such bounds.

Properties:
- menus: `SettledFresh` (a change all consumers have invalidated for is missing only
  from an entry that slipped between MGET and SET); `StalenessBounded`,
  `BoundaryRespected` (the TTL as safety net); `SkipTakesAllAttempts` (what it takes to
  lose an event); `EventsDrain`;
- checkout: `RefusedMeansNothing`, `DiscountBacked`, `NoPointsWithoutOrder`,
  `PlacedMeansOrdered`, `EverythingSettles`, `ImplementsRedemption`;
- pairing: `ConsumedStaysConsumed`, `RevokedShutOut`, `BatchSupersedes`;
- sign-in: `SendsThrottled`, `SentCodeUsable`, `GuessesBounded`; `ChainLinear`,
  `NoDeadCookie`, `StaysSignedIn`, `ImplementsTokenChain`;
- screens: `NoSendOnClosed`, `NothingLost` and `ScreensCatchUp` (no change falls between
  subscribing, the first fetch and the events), `StreamsLetGo`, `ShutdownEnds`;
- gateway: `ActsForMember` (an order's member had signed in, or was scanned at that
  kiosk), `KitchenMovesItsOwn`, `PaidIsCharged`, `DiscountIsHeld`, `EachToItsOwnRoutes`,
  `PrivateStaysPrivate`, `SettingsHold`.

Violations, where a comment says something the code does not do:

| Run | What is said | What happens |
|---|---|---|
| `checkout_released_hold` | a retried checkout reuses its hold | the released hold comes back, the order has a discount without points |
| `pairing_blocked` | after the revocation entry every token has expired anyway | a token issued meanwhile has not |

More statements differ from the code. They are settled by reading it, or a passing
property says precisely what holds instead, so no run is spent on them; where a
formula is named, it is in its module and TLC refutes it.

| Statement | Code |
|---|---|
| `menu_cache_repo.go:100-101`: a racing fetch is refused or removed (`RacingFetchRefusedOrRemoved`) | MGET, mark, DEL, SET leaves a stale menu; `SettledFresh` says when |
| `menu_consumer.go:19-21`: no change is ever skipped | an event whose attempts have all failed is committed; `SkipTakesAllAttempts` |
| `menu_consumer.go:24-25`: a client never refetches before the stale menu is gone | `Broadcast` publishes also after a failed invalidation; `StalenessBounded` |
| `README.md:73`: a miss goes through a singleflight and is cached for 24 h | there is no singleflight; the TTL is at most one hour |
| `README.md:81`: a pairing code is single-use (`SingleUse`) | two lookups before the first delete; `ConsumedStaysConsumed` |
| `README.md:135`: a code allows 5 attempts (`AttemptsAsDocumented`) | guesses that overlap may count as one, and those in the last half second of a code are not counted at all, also one after the other with nothing failing; `GuessesBounded` |
| `pairing_repo.go:35-36`: a batch atomically replaces all codes | after a half-failed call, with an expired set, or when calls overlap, an old code survives; `BatchSupersedes` says which (`strays`) |
| `app.go:91-94`: screens never need history, they refetch on connect (`NeverNeedHistory`) | a screen that fetches before the consumer has joined misses what comes in between; `NothingLost` |
| `config.go:52`: web checkouts are limited per client IP | the limiter is keyed by member (`server.go:179`), in each replica |
| `.env.example:79-80`: echoing the code is refused in production, with `APP_ENV` in the same file | `APP_ENV` is read before the files are: set to `production` in `.env` it has no effect, and the echo stays on |

## Fairness

Liveness is only model-checked. `MenuCache!FairSpec` lets the consumers' goroutines
run (and a stopped replica be started again); nothing is assumed of CRM, the clock
or the requests, and failures are bounded in number. `Checkout!FairSpec` lets a call
that has begun go on, which the deadline of every RPC justifies, and delivers the
`order.created` event, which the comment at the commit relies on. `LiveScreens!FairSpec`
lets the goroutines of consumers and streams run, with the heartbeat's ticker and the
server's context among what they select from, events reach Kafka and connected clients fetch;
nobody has to open, leave or change anything. That the shutdown's context expires is
assumed by `ShutdownEnds` only, as its premise.

## Proofs

For every value of the constants that the modules' named assumptions allow. These say
that limits, TTLs and bounds are numbers and positive where the code needs it, that sets
of different kinds of things do not overlap, and that a value standing for "none" is
none of the others (`NoneAssumption`, `NoCodeAssumption`). A second is any positive number
of units, and the prices that fall short (`FallsShort`) are any set of halves. Gateway also assumes that menus
have the fields that pricing reads and that a subtotal is below 2^32 kopecks
(`SubtotalAssumption`; 42 million rubles for one order), Settings what is said of it
above. Five theorems need more and say so in a hypothesis with a name:

| Hypothesis | Needed by | Fulfilled in |
|---|---|---|
| `NoRetries`: no two calls share a checkout | `RefusalSafety`, `DiscountSafety`, `Refinement` of Checkout | `checkout_once` |
| `Undisturbed`: one CRM call at a time, no failures, within the life of a code | `UndisturbedBatches`, the special case of `BatchesSupersede` without strays | no run: `BatchesSupersede` and its run have no such hypothesis |
| `ClearMenus`: every item with variations has one default, and their ids differ (they are ids of rows in kfc-crm; the program does not check either, and with two defaults `pickVariation` takes the first) | `PaidIsWhatIsCharged` | `gateway` (`ClearInstance`) |

Each module has one inductive invariant, or several that build on each other. It is checked
by TLC on the runs' instances before it is proved: one lemma per action, which goes
through the parts of the invariant that the action can disturb, then one theorem per
property.

`MenuCacheProofs` proves for all restaurants, fetches, consumers and bounds
`TypeCorrect`, `SettledFreshness`, `BoundedStaleness`, `BoundaryRespect`. The
inductive invariant `IInv` is a conjunction of
- `LogInv`, `FetchInv`, `EntryInv`: what a fetch or an entry brought holds every change
  committed before the fetch began, and its lifetime is bounded by when that was;
- `StampInv`: a consumer about to set a mark carries a time not before any change it has
  marked, now or earlier;
- `PhaseInv`: which phases follow the mark;
- `MarkInv`: so a mark never goes behind a change that every consumer has marked,
  until it has expired, and by then no fetch from before that change is left;
- `DropInv`: every stale entry that did not slip through has a consumer that is yet to
  delete it. In a SCAN that means the key is the same as when the SCAN began.

`SettledFresh` follows from `DropInv`; neither it nor the bounds on staleness are
inductive alone, because they say nothing about a fetch under way.

`LossTakesAllAttempts` proves `SkipTakesAllAttempts` from `SkipInv`: without a shutdown
the durable consumer has had a fault for every attempt but the one it is in, commits
nothing it is still trying, and every change up to its offset but that one is applied or
all its attempts have failed. The property alone is not inductive: it says nothing of the
attempts already made on the change in hand.

`CheckoutProofs` proves for any number of calls, keys and points: `TypeCorrect`,
`PointsSafety`, `PlacedIsOrdered` from `IInv` (`OrderInv`: calls of one checkout ask for
the same order; `CommitInv`: nobody is on the way to a commit before the order exists).
Under `NoRetries` (no two calls share a checkout) it proves `RefusalSafety`,
`DiscountSafety` and `Refinement`, that Checkout implements Redemption, from `OnceInv`:
`VoidInv` (after a definite refusal no order exists or can be created), `ReleaseInv` (a
release is only sent then) and `HoldInv` (an order is only asked for under a hold).
`checkout_released_hold` shows that `NoRetries` is needed.

`DevicePairingProofs` proves for any number of devices, CRM calls, codes and failures:
`TypeCorrect`, `ConsumedCodes`, `RevocationHolds`. That a consumed code never works
again is about calls that hold a code they read long ago, so `IInv` adds
- `CallInv`: what each call works on in each of its states;
- `IdInv`, `WriteInv`: CRM's calls number the codes uniquely, and a code is known to
  nobody before it is written, once;
- `UsedInv`: a code that has brought a token is gone from Redis, and no call is about to
  write it;
- `OutliveInv`: the entry of a revoked device ends no earlier than its tokens.

`BatchesSupersede` proves `BatchSupersedes` for calls that overlap, fail and see keys
expire as they like, from `BatchInv`:
- `HistoryInv`: a batch came after the calls it knows of, and they had ended; the entry
  of a call in flight is about that call;
- `RequestInv`, `OriginInv`: which of its serials a call has yet to write, and who wrote a
  code and for which restaurant;
- `OverlapInv`: what a batch in flight does not know of for its restaurant is a stray;
- `ListedInv`: a live code (no stray, and nobody is about to delete it) is in its
  restaurant's set of serials, or the call that wrote it is about to put it there;
- `LastingInv`: and the set does not expire before the code, or that call will extend it;
- `ClearedInv`: so a batch that has read the set knows every live code that it is to
  supersede, and once it has deleted them there is none.

Each cause of a stray is needed: TLC refutes the property when `strays` leaves out any of
them. A call that overlaps adds its serial between a batch's SMEMBERS and DEL, or is
itself deleted in part; a call that fails half-way leaves a code that is in no set, or
one that is in the set no more; the set expires between the SADD and the EXPIRE that would have
prolonged it. `UndisturbedBatches` says that there are no strays where none of
this happens, so that the excuse is not a way out of the ordinary case: while CRM calls
one at a time, nothing fails and codes outlive the clock, a batch leaves nothing from before.

`SessionsProofs` proves for any number of browsers, sign-ins, tabs and failures:
`TypeCorrect`, `LinearChains`, `NoCookieDies`, `RotationKeeps`, and `Refinement`, that
Sessions implements TokenChain. Beside the properties `IInv` has
- `KindInv`: what each kind of call carries in each of its states;
- `FreshInv`: no token is anywhere before it has been given out;
- `OwnerInv`: the tokens of a sign-in are only ever in one browser and its calls;
- `NewInv`: nobody has a new token before its answer arrives;
- `SettledInv`: a browser whose calls never overlapped or failed has one call at a time,
  and its cookie, or the call that exchanges it, carries what is accepted.

`ChainLinear` alone is not inductive: that a save cannot bring a second token needs that
the call took the only one, which `FreshInv` and the carriers in `ChainLinear` give.

`SignInProofs` proves for any number of phones, addresses, calls, limits and failures:
`TypeCorrect`, `GuessesAreBounded`, `SentCodeStaysUsable`, `SendsAreThrottled`. The base is
`HeldInv` and `LiveInv` (a call that works on a code has read one; what is stored has not
expired) and `OriginInv` (a code in Redis, or in a call's hands, has been saved by the
request that drew it, under its phone). On it stand
- `CounterInv`, for the guesses: of a code that is not `lax`, one call at a time holds a
  copy, and the counter is up to date in Redis or in the hands of that call, as far as
  guesses are charged at all (`free` are not);
- `TallyInv` and `UsableInv`, for the sent code: no counter runs ahead of the guesses it
  stands for, so a call deletes a code only with a reason, and writes it back with a TTL
  that ends no earlier than `Deadline`; a guess that is free has read a TTL of 0, so the
  code, and with it `Deadline`, has no more than half a second left;
- `SpacedInv` and `HourInv`, for the throttles: while a cooldown runs its window is in use,
  so requests that passed are a cooldown apart; of the requests that passed in an
  hour, the window has counted all.

`LiveScreensProofs` proves for any number of streams, orders, restaurants and changes and
any buffer: `TypeCorrect` (with what a channel may hold: no more than its buffer, only
events of its hub that are for its restaurant or for all), `NothingClosedIsSentTo`, `NoNewsIsLost`. `SubsInv` and
`ReaderInv` say that a stream is in its hub's map exactly from `Subscribe` to `Unsubscribe`
and that `Publish` is only about to send to such streams: the read lock is what keeps
them there. `EventInv` says that an event is queued or about to be sent only to streams it
is for, `StreamInv` when a client has fetched and when it is `late`. With these
`NothingLost` is inductive: a change is in the outbox, ahead of the consumer, about to be
sent, in the buffer, or seen.

`GatewayProofs` proves for any number of devices, restaurants, members, tokens, orders,
menus and requests in flight: `TypeCorrect`, `OrdersActForMembers`, `KitchensMoveTheirOwn`,
`DiscountsAreHeld`, `PaidIsWhatIsCharged`, `RoutesAreTheirOwn`,
`PrivateFieldsStayPrivate`. What a token needs on each path is read off the table once
(`CheckTable`, `WhoPasses`), with the order of registration. `Inv` then keeps of a request in
flight what its token showed when it began:
- `RequestFits`: the member was vouched for by a token that was good then, for that kiosk
  or the website; an order that is about to be moved is of the kitchen's restaurant;
- `OrderFits`: the same of an order; its discount is what the hold pays for; it costs what
  was paid if the menu that the customer saw is the one it was priced by;
- `AnswerFits`: who is answered with more than a name.

The points that are held are wrapped by `int32`, and the discount, a product of the points
before that, by `int64`. Lemmas about `PriceCart` show that they still agree on every
order that is taken: what the hold pays and the discount differ by a multiple of 2^32, and
kfc-loyalty and kfc-order let neither exceed the subtotal, which is less (`HeldPays`).

`SettingsProofs` proves `Settled`, which is `SettingsHold`, for any environment of the process and
any files, where the run goes through those of `MCGateway`. There is no invariant here:
`FirstSetting` follows the variable through the four files (`LoadedFiles`) and compares
that with the first place that mentions it (`FirstOfFive`, `ProcessAlone`); `Accepted` needs
that `APP_ENV` is read before any file.

Only model-checked is liveness (`EventsDrain`, `EverythingSettles`, `ScreensCatchUp`,
`StreamsLetGo`, `ShutdownEnds`), which is outside the prover. Every invariant and action
property of the passing runs, and both refinements, are theorems.

## Plan

1. *(done)* MenuCache, Checkout with Redemption, DevicePairing.
2. *(done)* SignIn, Sessions with TokenChain, LiveScreens, PriceCart, Gateway, Settings.
3. *(done)* Proofs of the invariants and action properties of every module and of the two
   refinements, the last of them `BatchSupersedes` without a hypothesis (`strays`) and
   `SettingsHold`.

## Not modelled

More than half of the lines of the repository are generated by protoc
(`src/gen`). They encode and decode, and no definition stands for them, so the share of
all lines that the map covers stays low although it has about two fifths of the
hand-written ones. Of these the rest is decoding of requests, conversion between
gRPC messages and domain types, formatting, logging, metrics, the Redis wrapper and the
thin clients, which keep no state, and `App.New`, which wires the parts together. Durations
and numbers of the configuration are not validated by the code: that TTLs and timeouts are
positive is an assumption of the modules. Rate limits in memory are per replica and
bound no state that a property speaks of. The inside of kfc-crm, kfc-order, kfc-loyalty
and Kafka is modelled only as far as this code relies on it.
