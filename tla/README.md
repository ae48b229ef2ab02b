# Formal models of Bookstcamp

Bookstcamp is the reservation service of a boot camp: campers reserve places
in the slots of an event (mentoring, lectures, reviews), first come, first
served. The backend is NestJS over PostgreSQL (Prisma), Redis and BullMQ; two
or more containers of it run behind nginx; the frontend polls. The paths below
are relative to the root of the repository.

This directory holds TLA+ modules of the parts where several requests, jobs
and containers meet, TLC configurations that check them on small instances,
and TLAPS proofs of what matters most for every instance. PROJECT.json is the
index: components, runs, the mutant of each property, the source lines every
definition models, findings, hazards and theorems.

## Inventory

| Component | State | Operations | Interacts with | Hard behaviour | Correct when |
| --- | --- | --- | --- | --- | --- |
| Reservations (`backend/src/reservations/reservations.service.ts`) | rows of `Reservation` | `apply`, `cancel`, queries | stock (Redis), the slot row, the BullMQ queue, the queue token | a chain of steps in three stores without a common transaction; double clicks; cancel against the job | a seat is sold once, none is lost, a cancelled row comes back only by a later transaction |
| Worker (`reservations.processor.ts`) | BullMQ jobs | `process` | the slot row (compare-and-set on `version`), stock | at-least-once delivery, three attempts, compensation in the catch block | a job ends; no double booking |
| Stock (`backend/src/redis`) | `slot:{id}:stock`, `event:{id}:reservers` | the scripts decrement, increment, init; the cache of reservers | all of the above, start-up, slot update | a counter that nobody reads back against the database; a cache stored after its invalidation | never sells what the row would refuse for good; never negative |
| Stock synchronisation (`stock-sync.service.ts`) | none | at start-up of each container | stock, slot rows | runs while other containers serve | as above |
| Event slots (`backend/src/event-slots`) | rows of `EventSlot` | create, update, delete, availability | stock, cache, reservations | stale check of the capacity, stale cache, deletion after a look | capacity not below the count; a reservation keeps its slot; the page catches up |
| Events (`backend/src/events`) | rows of `Event` | create, update, delete, lists, polling | slots, reminders | the form is filled by answers in any order; deletion in two statements | what is stored is one table: fields and values agree |
| Waiting queue (`backend/src/queue`) | sorted sets, keys with TTL, a set of active events | `enterQueue`, `getQueueStatus`, `issueToken`, `invalidateToken`, cleanup job | the browser's polling, the guard of POST /reservations | count-then-issue, four TTLs, a cleanup that acts on a list read earlier, crashes | the limit, the place, eventual service |
| Notifications, Slack (`backend/src/notifications`, `backend/src/slack`) | rows of `EventNotification`, messages scheduled at Slack, a client per organization | set, delete, nightly cleanup | Slack, whose failures are swallowed; deletion of an event | two stores, no transaction; two tabs at once; a client that outlives its token | a reminder that fires can be cancelled until it does; a row names a reminder that exists; the bell tells the row |
| Admin, auth (`backend/src/admin`, `backend/src/auth`) | users' roles, invitations, the role in each JWT | invite, revoke, remove an admin, login, logout | each other, every guarded call | count-then-write, read-then-promote, a token that outlives its role | at least one admin; a revoked invitation gives nothing; one promotion per invitation |
| Organizations (`backend/src/organizations`) | organizations, memberships, pre-registrations | create, update, upload of campers, profiles | first login (claiming), Slack | two tables that nothing ties; upserts that meet; read-then-write across a call to Slack | roster and memberships agree; the first login goes through; account, workspace and token belong together |
| Templates (`backend/src/templates`) | rows of `Template` | CRUD | the form of events | answers out of order | page and table agree |
| Throttler, metrics, client logs | counters | guard, count, log | none | none | not modelled |
| Deployment (`scripts`, nginx, compose) | containers, the addresses nginx knows | rolling update, rollback | health checks | drain, reload and removal in an order | somebody serves |
| Frontend (`frontend/src`) | the states of each page | loads, calls, polls, effects | all of the API | answers that are late, lost or overlap; closures over an old rendering; components that unmount | the page that rests tells the server's state |

## Modules

| Module | Models |
| --- | --- |
| `SlotStock` | the three Lua scripts, as functions of the counter |
| `Reservation` | one slot: `apply`, `cancel`, the worker, start-up synchronisation, capacity update |
| `SeatLedger` | what a slot promises: a set of bookings within the seats, one per user or team |
| `ReservationProofs` | theorems about `Reservation`, first for every regime, then for the orderly one |
| `WaitingQueue`, `WaitingQueueProofs` | one event's waiting queue: enter, poll, issue, use and expire a token, the cleanup job |
| `Reminder` | one user's Slack reminder on one event: set, delete, cleanup, deletion of the event |
| `ReminderCard` | the bell of an event's card and its modal, over `Reminder` |
| `MyReservations` | the page of a camper's reservations and its cancellations |
| `CamperPages`, `CamperPagesProofs` | the two pages of a camper, together; the proofs also hold those of `Reminder` |
| `EventPage`, `EventPageProofs` | the page of an event: polls, cache of reservers, live stock, button; slots created, resized, deleted |
| `Accounts`, `AccountsProofs` | users, roles, tokens, invitations; both logins |
| `AdminPage` | the page of the administrators, over `Accounts` |
| `CamperRoster`, `RosterProofs` | pre-registrations and memberships of an organization, over `Accounts` (whose logins claim them) |
| `RosterPage` | the page of the roster, with the two editors of each row, and its pages |
| `Organizations`, `OrganizationsProofs` | organizations, their Slack tokens and clients, the two pages that write them |
| `Templates` | the table of templates and its page |
| `PageLists` | a part of a list in its order, for the pages of templates and roster |
| `EventForm` | the form that creates or edits an event, over `Templates` |
| `Backoffice`, `BackofficeProofs` | all that administrators do, behind the `RolesGuard`; the proofs about its pages |
| `Rollout` | deployment and rollback against health checks and nginx |
| `MCReservation`, `MCWaitingQueue`, `MCCamperPages`, `MCEventPage`, `MCBackoffice` | small instances |

Four groups of modules are composed: `Reservation` (with `SlotStock`, and
`SeatLedger` as its abstraction), `EventPage`, `CamperPages` (`Reminder` ⊂
`ReminderCard`, and `MyReservations`) and `Backoffice` (`Accounts` ⊂ `AdminPage`,
`Accounts` ⊂ `CamperRoster`, `Templates` ⊂ `EventForm`, `RosterPage`,
`Organizations`). `EventPage` takes the transactions of a reservation in one step
each, which `Reservation` takes apart: what one shows of the seats the other uses.

### Reservation

The module follows one slot, with any number of requests (`Request`) and of
cancellations (`Canceller`). A request names its HTTP handler, the
`Reservation` row the handler creates, and the BullMQ job it adds: each handler
creates at most one of each.

| State | In the code |
| --- | --- |
| `maxCapacity`, `currentCount`, `version` | the `EventSlot` row |
| `stock` | `slot:{id}:stock`; `NoKey` before the first `initStock` |
| `status` | the status of each `Reservation` row, `NONE` before the INSERT |
| `apply`, `capOf` | where `ReservationsService.apply` stands, and the capacity it read and passes to the job |
| `job`, `attempts`, `stalls`, `seenVersion`, `seenMax` | where the job stands, and the slot its transaction read |
| `cancel`, `cancelVersion`, `cancelMax` | where `ReservationsService.cancel` stands, and the slot it read |
| `setter`, `snapMax`, `snapCount` | whoever calls `initStock`: creation, start-up, capacity update |
| `faults` | failures so far, up to `MaxFaults` |

Grain. PostgreSQL runs at its default, READ COMMITTED, so each SELECT is a
step; the writes of one transaction hold their row locks until the commit and
are one step. A Redis command or script is one step. The checks of `apply`
that depend on data outside the slot (period, organization, track, team) may
turn out either way.

`KeyOf` stands for what a request may hold only one of: its user in an event
for individuals, its team in an event for teams. The bounds `MaxFaults`,
`LargestCapacity` and the sets of requests limit the instance and nothing else.

Three regimes of the same module, by its constants:

* orderly: no failure; only CONFIRMED reservations are cancelled, each by one
  call (`CancelFrom = {"CONFIRMED"}`, `TargetOf` injective); no restart and no
  change of capacity;
* failures: every kind of fault, and a restart with its stock synchronisation;
* disorder: PENDING reservations are cancelled, one reservation is cancelled by
  two calls at once, the organizer lowers the capacity, and the invalidation of the
  cache fails after a commit, so that the catch block cancels a confirmed row.

The worker confirms and cancels a row by its id and never looks at its status, so
neither a cancellation nor a confirmation is final. `CancellationStands` says what
is left, in every regime: the version that a committed cancellation moved on shuts
out each transaction that had read the slot by then, and only a later one, of a job
that waits or is tried again, confirms the row after all. `OnlyOwnerRevokes` is the
counterpart for confirmed rows.

`SeatLedger` is the abstract specification: a set `booked` that grows by one
booking when a seat is free and its user or team has none, and shrinks by one.
`ImplementsLedger` maps `booked` to the confirmed rows and `Seats` to the
capacity.

### WaitingQueue

The module follows one event. Each browser tab (`Tab`, owned by `UserOf`) has
at most one request in flight; `pc` says where its handler stands and `view`
what the tab shows (`useQueue.ts`).

| State | In the code |
| --- | --- |
| `score` | `event:{id}:queue`: the score is the time of entry, 0 for no member |
| `heartbeat` | `event:{id}:heartbeat`, `old` past the threshold of the cleanup |
| `known`, `token` | the keys of a user's status and token, with their TTL |
| `counted` | `event:{id}:active_tokens`, `lapsed` past its score |
| `registered` | membership in `queue:active_events` |
| `cleaner`, `stale` | the cleanup job and the list of users it read |

A pipeline is one step. Left out: the limit of three tries of `issueToken` (a
try is needed again only when the token expires between the SET and the GET),
the session id, and the position shown to the user. The clock is a counter of
entries; `CountLapses` comes after the expiry of the token, because the score is
computed after the SET with the same TTL.

Overlapping polls of one tab, or two tabs of one user, are a second `Tab` with
the same owner. The passing run is for one tab per user, and so are the theorems
about it but for the types (`OneTab`): with two, the second may be given the token
of the first in between the two steps of `invalidateToken` (listed as a hazard), and
two that both found no status join one after the other, the later for the worse.

### Reminder

One user, one event, any number of calls of `setNotification` (`Call`) and of
`deleteNotification` (`Removal`), in any overlap. A message is named after the
call that schedules it.

| State | In the code |
| --- | --- |
| `row` | `scheduledMessageId` of the `EventNotification` row |
| `scheduled`, `sent` | what Slack holds and has posted |
| `event` | `upcoming`, `started`, `over` (the cleanup ran), `deleted` |
| `pc`, `seen` | where each handler stands, and the message it read in the row |
| `failures` | calls to Slack or the database that failed, handlers cut short |
| `overlapped` | history: the handlers that ran while another one did |

Slack's refusals, lost answers, the failures of the database and crashes may
happen at every step; each call runs once, which bounds them, so this module
needs no bound on failures. Times are left out: a message may be posted at any
moment, and the event starts when all have been, since each is due before
`startTime`. An organizer who moves `startTime` is outside the model (a hazard:
the reminders are not scheduled again).

### ReminderCard, MyReservations, CamperPages

The card reads the row with the list of events (`EventsService.findAll`), then
follows the answers to its own calls only; the modal resets its switch by an
effect when the card changes. Its toggle is off while a call runs (`isLoading`), but
the radios that choose another time are not, and the first call that ends resets
`isLoading` for all: calls of one card overlap (`Clicks`), take effect in one order and
are answered in another. The user may leave the page while a call runs on.

| State | In the code |
| --- | --- |
| `card`, `bell` | the phase of the list of events; `myNotification` is set |
| `calls`, `loading` | what each call of this visit came to, until it is shown; `isLoading` |
| `newest` | history: of the answers to come, the one that took effect last |
| `untold` | history: the row may have changed without the card's knowing, or an older answer came last |

The list of reservations is loaded once, by two queries; `seenAt` is the clock of
the last rendering, by which the page tells which events have ended. A
cancellation runs on when the page is left (`strays`).

| State | In the code |
| --- | --- |
| `status` | the rows |
| `jobs`, `revived` | whose job may still run, for the first time or again; history: whom it confirmed after a cancellation |
| `fetch`, `shown` | the request for the list, the state `reservations` |
| `viewMode`, `target`, `cancel` | the states of the page and the request of its dialog |
| `apart` | history: something else may have separated page and table |

`findAllByUser` matches the organizations and the numbers of the user's teams
apart (reservations.service.ts:250-263), so a reservation of a team that has the
number of one's team in another organization is listed: `OfMyTeams` does as the
code does. Only CONFIRMED reservations are listed, although the description of the
route speaks of all. A job writes `CONFIRMED` or `CANCELLED` by id, over whatever the
row says (`JobWrites`), so a reservation that the page lists as cancelled can come to
stand: `ListedStand` names those rows (`revived`) and no others.

### EventPage

| State | In the code |
| --- | --- |
| `slot`, `booking` | the rows of `EventSlot` and `Reservation` |
| `stock`, `cache` | `slot:{id}:stock`, `event:{id}:reservers` |
| `job`, `tail`, `deleting` | what the worker and the handlers still have to do; the slot a DELETE has read |
| `poll`, `fetch` | the requests of the page, with what they read where |
| `page`, `press` | `event`, `myReservation`, `selectedSlotId`; the request of the button |
| `late` | history: the cache may hold what a writer replaced |

A poll reads the rows, or the cache; stores them after the read; takes the live
counters; and reads the reservation of the user: each is a step, so that writers
come in between. `fetchEvent` and `fetchMyReservation` are read and shown apart.
The maximum that the page shows of a slot comes from the event and is never
refreshed by the polls (EventDetail.tsx:96-112), so `Agrees` does not speak of it.

### Accounts and AdminPage

| State | In the code |
| --- | --- |
| `role`, `linked`, `invitation` | the rows of `User`, `AuthAccount`, `AdminInvitation` |
| `token` | the role in the payload of the JWT cookie of each person |
| `req` | the requests under way: which query comes next, and what the last ones read |
| `promoted`, `demoted`, `shutOut`, `crossed` | history: promotions, removals, failed logins, and which kinds of requests overlapped |
| `members`, `invitations`, `inviting` | the states of the page |
| `opening`, `adminCall` | its two requests for the lists; which requests are its calls |
| `drift` | history: whether others, logins or lost answers may have separated page and tables |

Every query of `admin.service.ts` and of `findOrCreateGithubUser` is a step, except
that a transaction joins the promotion with the acceptance, and the creation of a
user with what is claimed for it. The database refuses a
second invitation accepted by one user (`acceptedUserId` is unique), and then the
transaction of the promotion is undone and the login fails.

The page does not own its calls: `HandleInvite(r, who)` is `InviteBegin(r, ...)` of
`Accounts` with a note in `adminCall`. `Hears` is conjoined with every step of the
accounts and the roster and says what it means to the page: an answer, an error, a
lost answer, or a change by others.

### CamperRoster, RosterPage, Organizations

| State | In the code |
| --- | --- |
| `roster`, `member`, `slack` | `CamperPreRegistration`; `camperId` and `slackMemberId` of `CamperOrganization` |
| `found`, `task` | the rows that a first login read, with their camper ids; the handlers under way, query by query |
| `disturbed`, `refused` | history: what may have separated the tables; whose first login failed |
| `enlisted`, `campers`, `currentPage`, `drafts`, `editing` | the table (as the page knows it) and the states of page and rows |
| `rosterCall`, `strain` | the calls of the page; history of what may have spoiled its copy |
| `astray` | history: which open inputs were left behind by the list or by typing |
| `org`, `client`, `linkedIn` | `Organization`; `SlackService.clients`; the account of a member |
| `orgCall`, `organizations`, `modal`, `profile` | calls under way and the states of the two pages |
| `given`, `orgStrain` | history: the token last given; what happened to which organization |

`CamperRoster` is composed with the logins of `Accounts`: the transaction of a
first login claims the rows that invite its GitHub name and creates the memberships.
It reads them before the transaction and writes the camper ids that it read, whatever
the rows say when it commits. A name is spelled as GitHub spells it or not, since the roster
compares exactly and the login does not. An upload is one transaction over the
lines of a sheet (`UploadCommit`, a fold).

`RosterPage` takes the handlers of the server whole: their steps are in
`CamperRoster`, and the page can only tell before from after. `CamperListTable` mounts
each camper twice, as a card and as a row of a table, and CSS hides one of them: so
`drafts`, `editing` and the calls of a row are kept for each `Layout`, and what is saved
in one leaves the inputs of the other behind. Only the row of the table is barred
while it is deleted (`Barred`); a card takes a second deletion, or an edit.

### Templates and EventForm

| State | In the code |
| --- | --- |
| `template`, `created` | the rows by their serial ids |
| `listed`, `load`, `call` | the state `templates`, the request for it and the calls under way |
| `event`, `form` | the event in the database; fields and rows of the form |
| `templatesIn`, `eventIn`, `offered`, `mode` | the requests of the form and what it offers |
| `strained` | history: what may have put a value under another field |

The server lists by creation, for which the serial ids stand; the page appends what
it adds when the answer arrives. The form may be closed and opened again while it
saves, so two additions can be under way, and the answer to the second may come
first: the page then lists them in that order until it is loaded again.
`ListsTheTable` says of every other case that the order is the table's, and of this
one (`overtaken`) that each template is still listed once, as it is. In the form,
values are kept under the ids of fields, and every template numbers its own f1,
f2, ...

### Backoffice

`BackofficeNext` is a step of the accounts and the roster that the page of the
administrators hears, a call or a step of that page, or a step of one of the other
four. A call of a page needs a token of an administrator (`MayAdminister(Clerk)`),
and nothing else couples them, as in the code.

### Rollout

The containers with their image, health and age, the addresses nginx knows
(`upstream`), and the stage of the script: `deploy.sh` with `rolling_update` for
the backend and then the frontend, the reload, and `rollback.sh`. A step waits for
a condition, never for a time: delays of Docker that end a wait are failures
(`WaitFails`).

## Runs

| Run | Instance | What it shows |
| --- | --- | --- |
| `orderly` | 3 requests (two of one user), 2 seats, 2 cancellations, 3 attempts | the slot implements the ledger; the count is the number of confirmed reservations; no seat is lost; every job ends |
| `failures` | 3 requests, 1 seat, 1 cancellation, 2 failures of any kind, a restart | never overbooked, the count never too low, the counter within its bounds |
| `disorder` | 2 requests of one user, 2 cancellations of the same row, pending or confirmed, 2 seats lowered to 1, 1 failure after a commit | still no double booking, the count short by one per cancellation at most, and how far a cancellation stands |
| `pending` | 2 requests, 1 seat, a cancellation of a PENDING row | violation of `NoOverbooking` |
| `rest` | 3 requests, 2 seats, 1 cancellation, no failure | violation of `StockIsFreeSeatsAtRest` |
| `queue` | 2 users of one tab each, 1 token, 3 entries, 1 crash | the bookkeeping of tokens, the place in the queue, and that who waits is served |
| `batch` | 2 users, 1 token | violation of `TokensWithinBatch` |
| `place` | 2 users, 1 token, 3 entries | violation of `PlaceKept` |
| `reminder` | 3 calls that set, 2 that remove; a card with another tab; a list of 4 reservations | how many reminders get out of hand, that the row and the bell do not promise what does not exist, and that no reservation is shown as cancelled that stands, unless its job confirmed it afterwards |
| `page` | 2 slots of 1 or 2 seats, 2 bookings, 2 polls, 1 failure | what the cache may hold, that a reservation keeps its slot, and that the page catches up |
| `backoffice` | 3 people, 2 founders, 2 invitations; 2 campers and 2 rows; 3 templates; 2 organizations; a page of each, with 2 calls at a time | who can become and stay administrator; that roster and memberships agree; that each page tells its table when it rests |
| `rollout` | 6 containers, 2 deployments | violation of `AlwaysServed` |

Why the bounds are enough to be of interest:

* Three requests with two of one user are the least with a duplicate, a
  competitor and, with two seats, a version conflict that is not a full slot.
  Three attempts let a job fail for a conflict, come back after the others and
  still have one left. Two failures are the least with one failure during the
  recovery from another.
* In `disorder` the failure after a commit lets a row be confirmed, cancelled by its
  own job, cancelled by its owner and tried again, in every order.
* One token for two users is the least where somebody waits. The second and
  third entry let the same user come back after each expiry.
* Two removals and three calls are the least where a handler's row is replaced
  twice while it runs. The results for more calls are theorems. The card and the
  list (`Sittings`) are each explored with the handlers that can reach them: two
  visits and two calls of the card with one call of another tab; three acts at the
  list, where two cancellations and a reload fit, and one elsewhere; one
  reservation ends meanwhile (`Horizon`).
* `page`: `Actors` spends at most two acts of the user, of others, of an
  administrator or of failures besides the polls, in seven mixtures. Each pair of
  actors but administrators and failures meets in one of them, and a second poll
  runs where others write, the case in which an older answer comes last.
* `backoffice`: what is explored together is what shares state. `Mixed` gives the
  accounts two administrative requests and two logins (somebody who is invited, logs
  in, is removed and logs in again; two who remove each other), or the roster two
  tasks and a first login, or three tasks (an upload between two others), or one of
  each. The two and two also start where an invitation was accepted already
  (`AfterInvitation`), for its addressee to be removed, invited again and refused. The
  page of the administrators is open with two requests and a login. `OneDesk` gives
  one of the other pages its calls at a time, while accounts and roster rest: they
  share nothing but the token. Two calls at a time are the least that overlap; the
  third template and the third row of the roster make the middle of a list exist, and
  a page of one row makes turning pages matter. Slots of invitations, requests, tasks
  and calls are symmetric.
* `rollout`: a second deployment is the least in which a container is replaced.

Deadlock is not checked in any run: every instance has finitely many calls, and
once they are over the system has nothing left to do. Histories such as `crossed`,
`drift` or `strain` are never read by a guard; they name the
behaviours of the code that a property excuses.

## Fairness

`HeldIsSettled`, `AttentiveServed` and `PageCatchesUp` are the liveness properties.

* Reservation: weak fairness of each handler once the server took its request
  (a promise chain goes on), of each job's steps (the worker polls BullMQ) and
  of `InitStock`. Nobody is obliged to send a request or to cancel.
* WaitingQueue: weak fairness of the handlers, of the polling of *attentive*
  users (`useQueue.ts` polls at an interval while the tab is open), and of the
  expiry of tokens and of the count. The cleanup job, the expiry of statuses and
  everything users do are not fair. `AttentiveServed` needs arrivals to end,
  which `MaxEnters` makes them do: the code issues a token to whoever asks while
  the count is below the limit, regardless of the position
  (`queue.service.spec.ts:268`), so an endless stream of newcomers could starve
  one user. That the cleanup removes a user of a list read before the user came
  back is why the users of `Returning` and of `Attentive` differ in that run.

* EventPage (`PageSpec`): weak fairness of each handler and job once it began, of
  each request of the page until it is answered and shown, of the polling, which an
  interval drives, of a DELETE that has read, and of the expiry of the cache, which
  has a TTL. Users, administrators and failures are not fair, and the budgets make
  them end: the page catches up once nobody acts.

## Proofs

Every theorem is checked by TLAPS for all values of the constants that satisfy
the named assumptions of the modules, which TLC evaluates on every run. Most say
that a null is none of the values it stands beside (`NoKeyAssumption`,
`NobodyIsNoPerson`, `NoneIsNone`, `RosterNulls`, `PageNulls`, `NoDataIsNone`,
`NoHandlerIsNone`, `NoContentIsNone`, ...) or that a bound is a number
(`MaxRequestsIsNat`, `BudgetsAreBounds`, `DesksAreBounds`, `SittingsAreBounds`).
Those with content:

| Assumption | Why the code justifies it |
| --- | --- |
| `ReservationAssumption`, `QueueAssumption`, `CreatorAssumption` | limits are positive; callers of `initStock` are told apart |
| `RemindersAreFinite`, `HandlersDiffer`, `BookingsAreFinite` | finitely many calls and reservations, each with a name of its own |
| `FoundersExist` | `prisma/seed.ts` makes administrators |
| `EntriesAreRows`, `SheetsEnlist`, `EnrolmentsFit`, `TablesFit`, `SheetsAreTables`, `EventsFit` | what is entered, uploaded or stored at the start is a table of its kind |
| `IdsAreDistinct` | the fields of one template have distinct ids |
| `TokensHaveSpaces`, `HomeIsAnOrg`, `TablesOfOrgs` | Slack answers one workspace for a token; the start of the tables of organizations |
| `PagesHoldRows` | `ITEMS_PER_PAGE` is positive |

*ReservationProofs* holds for every regime, with all faults, restarts and
updates:

* `TypeCorrect`;
* `NoDoubleBookingHolds`. The duplicate check of the worker is a SELECT and does
  not lock, so the invariant has to say what the check proved: a job that passed
  it and whose version is still current has no confirmed rival, because a rival
  is confirmed only by a commit that raises the version;
* `CountWithinLargestHolds`, `UndercountBoundedHolds`;
* `NeverUndercountedHolds`, under `OneCancelOfConfirmed` (only confirmed rows
  are cancelled, by one call each). A stalled or failed job may cancel a row
  whose owner is cancelling it, so the invariant counts, besides the confirmed
  rows, those whose cancellation is under way (`Owed`);
* `NoOverbookingHolds`, under the same assumption and a fixed capacity
  (`Update = {}`), with every fault and restart: the count is never too low and
  never above the capacity. What Redis holds plays no part;
* `StockWithinCapacityHolds`, under the same: every writer of the counter passes
  a capacity and a count that were true once, the scripts clamp.

* `CancellationStandsHolds` and `OnlyOwnerRevokesHolds`. The first rests on the versions
  (`StandInv`): a committed cancellation raised the version above the one it read, so a
  transaction that had read the slot before fails at the compare-and-set. The second
  needs that, as long as nothing failed, a confirmed row's job is past its commit
  (`FaultFreeInv`), and that a row is there before its job and its cancellations
  (`BirthInv`).

Its last part adds the assumption `Orderly` (no failure, one
cancellation per confirmed reservation, capacity fixed): the count is the
number of confirmed rows (`CountMatchesBookedHolds`), hence
`NoSeatLostHolds` and the refinement `LedgerRefinement`. The strengthening
relates each job and each cancellation to the status of its row: a row is
confirmed exactly while its job is past the commit and no cancellation has
committed. For `NoSeatLostHolds` the invariant adds that nothing happens before
the counter is first set, that compensations pass the capacity itself, and that
a job which never failed holds exactly one unit: a step then keeps the number
of seats accounted for, or meets a counter that is full. The findings show that
the assumption is needed.

*WaitingQueueProofs*: `TypeCorrect`; and, under the assumption `OneTab` of one tab per user,
`KnownKeepsPlaceHolds` and `UncountedAreCrashedHolds`. The inductive invariant
`Learned` says that what a handler read of its user (no status, no place in the
queue, a token just set) still holds when it acts on it, which is where a second
tab would break the argument.

*CamperPagesProofs*: of `Reminder` alone, `TypeCorrect`, `OrphansWithinCausesHolds`
and `RowNamesReminderHolds`. The step that leaves a reminder behind is often not the
one to blame: a message whose deletion failed is named by the row until the same
handler overwrites it. The proof therefore counts the *doomed* messages (the
orphans and those a handler passed over), and shows that each step that dooms
one is a failure or the end of a handler that met another. It rests on four
facts: a message is read nowhere before its call wrote it (`Fresh`), handlers
that run together have met (`Meet`), only a handler that met another finds a row
other than the one it read (`Stale`), and a started event has nothing pending
(`NothingLate`). `PagesImplementReminder` carries them to the pages
(`PagesReminderSafe`), and the pages have invariants of their own:

* `BellTells`: as long as nothing else touched the row, it is what the bell says or,
  while answers wait to be shown, what the one says that took effect last; and then
  no handlers run but those the card waits for (`BellFollows`), which is why a call
  that runs on behind a page that was left has to count as a cause, and so has an
  answer that is shown after that of a call which took effect later;
* `ListedReservationsStand`: what the page holds is followed through each stage of
  the list, after each of its two queries and once it is shown, and of the one
  cancellation that was answered and is not yet shown (`ListFollows`). It says
  `CANCELLED` only of rows that are, or that their job confirmed since: the one step
  that takes a cancellation back.

*EventPageProofs*: `PageInvariant`, hence `PageTypeCorrect`,
`BookingsKeepTheirSlotHolds` and `CacheMatchesRowsHolds`. That a booking keeps its
slot rests on the foreign key, which counts rows of any status, and not on the look
at the confirmed ones before it, which is stale when the DELETE comes (`Referenced`).
The cache is right because the flush of a writer overtakes whoever has read before
it: as long as no writer has its flush to do, the cache has what the rows say, and
so has each poll that is about to store and was not overtaken (`Current`).

*AccountsProofs* proves all five safety properties of `Accounts`, for any number
of people, invitations and requests, under every overlap and failure. Each has an
inductive invariant of its own over a common one:

* `Sound`: types, and that a request is where its kind can be (`AccountsTypeCorrect`);
* `Legitimate` (`InvitersLegitimate`): whoever holds a token of an administrator was
  a founder or accepted an invitation, and so was whoever sent a request;
* `Spared` (`AdministratorRemains`): while no two removals overlapped, there is an
  administrator besides the one whom a request that has counted will remove. A
  count is stale only through another removal, since logins only add
  administrators;
* `Single` (`OnePending`): an invitation about to be created has no pending rival,
  as long as its check overlapped with no other request about the name;
* `Unrevoked` (`RevokedIsVoid`): an invitation that a revocation has read and is about
  to write was accepted by nobody, unless a login of its addressee crossed it;
* `Once` (`PromotedOnce`) and `Settled` (`ShutOutWereDemoted`): a promotion that
  counts comes with an acceptance, and `acceptedUserId` allows one per person; who
  has accepted an invitation and is no administrator was removed.

*RosterProofs* is about pre-registrations and memberships, which no constraint of the
database ties, for sheets of any length. `RosterImplementsAccounts` brings what is
proved of the accounts. `RosterAndMembersAgree`, `FirstLoginGoesThrough` and
`NobodyIsKeptWaiting` follow from one inductive invariant (`RosterInv`), which says,
as long as none of the named causes occurred (`Calm`):

* `RosterSound`: each live row has a camper and a name of its own, a claimed row is
  its member's, and whoever has an account is invited by no row, but for the row that
  a request is about to claim and the membership it is about to write;
* `Separate`: the requests under way are about different campers and persons;
* `Informed`: what a request read is therefore still true when it writes, between
  any two of its queries; `Claiming` says the same of a first login.

An upload is one transaction that folds over the lines of a sheet. Its effect is
proved by induction over the lines, with a predicate on the tables that each line
preserves (the least line at which it failed would have failed by itself). An
attempt to prove `FirstLoginGoesThrough` failed for a good reason: between its two
writes `updateCamper` leaves the membership with the old camper id, which a login
may then meet, so what a request touches (`OfRow`) includes that id.
`SlackAccountIsKept` is an action property: whoever is about to write a Slack account
has seen it free, and only another request of the same member writes one
(`SlackFree`).

*OrganizationsProofs* states an invariant of the steps of `Organizations`. An update
computes what it will write when it reads, so each of its parts speaks of the rows
and, in the same words, of the calls that have read and still have to write.

*BackofficeProofs* composes: `BackofficeImplementsAccounts` and
`BackofficeImplementsRoster` map every step of the back office to a step of the
accounts and of the roster, or a stutter, so neither a page nor an organization adds
a way to become an administrator or to write a membership; `BackofficeAccountsSafe`
and `BackofficeRosterSafe` are all of the above for the composition. The others each
have an inductive invariant over it:

* `TemplatesListed`: the list of the page is the table with the answers that have
  not arrived replayed on it (`Catching`), whatever the order in which they arrive,
  unless others wrote or an answer was lost; and as long as no answer to an addition
  overtook an earlier one, the list is sorted, and what is written and not answered
  comes after all that is on it (`InOrder`);
* `OrganizationSavesStand` and `WorkspaceIsOne`, from *OrganizationsProofs*;
* `SlotsFitSchema`: as long as nothing strained the form, each row of a new event has
  values for the fields of the form and each stored slot for those of the event
  (`FormFits`). That the fields of a template have distinct ids is needed here;
* `AdminPageTells`: what the page shows, once the answers that have arrived are
  replayed, is the tables (`Agreeing`), also between the two reads of the opening;
  and, if only logins interfered, it errs to one side: a login adds administrators
  and takes invitations off, and the page has the old of each. It needs that a call
  of the page is the request it was sent as (`Traced`), and that an invitation which
  was just created is on no list and revoked by no call (`Novel`);
* `RosterPageTells`: what the list lacks of a line is what a call did and has not yet
  told (`Agreed`), the page in view has campers while there are any (`PageInView`: a
  deletion turns back when it empties the last page), and what is in view is as the
  list says, in each layout, but for the rows that are being edited there and those
  whose inputs were left behind (`EditorsTell`). The list is kept
  in the order of the table by `Sublist`, a recursive function for that reason;
* `BackofficeTypeCorrect`, the types of all of it.

So every invariant that a passing run checks is a theorem, and so are the refinement
of the ledger and the two action properties (`KnownKeepsPlace`, `SlackIdKept`).

Model-checked only:

* `HeldIsSettled`, `AttentiveServed` and `PageCatchesUp`: liveness under fairness,
  beyond the prover;
* `Rollout` and the other expected violations, where the run is the result.

## Findings

1. `pending`: cancelling a PENDING reservation lowers the count for a seat that
   was never counted, and the job confirms the row all the same: the slot is
   overbooked.
2. `rest`: every failed attempt returns a unit of stock, the attempt that
   succeeds takes none: the counter offers seats that are booked. They are
   refused later by the worker, after the user was told that the request is in.
3. `batch`: the limit on tokens is passed by handlers that count together.
4. `place`: polling does not renew the status, so a user who waits longer than
   a minute and reloads goes to the end of the queue.

5. `rollout`: the old backend is removed before nginx loads its configuration again,
   and until the frontend was replaced too, nginx forwards to an address that is
   gone. README.md of the repository promises a deployment without interruption.

Met while modelling, without a run:

* `rollback.sh:127` starts the image under the same tag that the failed deployment
  has just moved; `lib.sh:185` drains for less time than three health checks take;
  no shutdown hooks are enabled, so a job under way stalls; when `rolling_update`
  gives up, a second container may stay.
* The cleanup unregisters an event whose queue it saw empty (queue.service.ts:364),
  and a user who joined since is never cleaned up.
* Editing an event reads its date in UTC and its time in the zone of the browser
  (EventCreatePage.tsx:49); pressing twice saves it twice (line 83).
* A row of the page of organizations loses its counts when it is edited
  (ManageOrganization.tsx:56), and the answer of a save closes whichever form is
  open; a failed load leaves the pages of roster and organizations loading for ever.
* The server lets a reservation be cancelled after its event is over; only the page
  does not.
* `throttle.decorator.ts:21` says per user and slot; the key is the user.

## Hazards without a property

PROJECT.json names each at its line, with the reason.

* Some happen, and the property about that state excuses them by name: removals,
  invitations and logins that overlap (admin.service.ts:28 and 132,
  auth.service.ts:174), requests about one camper (organizations.service.ts:401, 566
  and 701), a refused reminder (notifications.service.ts:125), templates that come
  after the event (SlotOptionsSection.tsx:90). There the property shows that nothing
  else does it, and is no check of the hazard itself.
* Two tabs of one user (queue.service.ts:328), and a waiting user who comes back late
  (queue.service.ts:349): outside the instance and outside `AttentiveServed`.
* queue.service.ts:364: a property of abandoned users would need their cleanup to be
  fair, and they only lengthen the queue.
* event-slots.service.ts:238: a capacity that ends below the seats taken is what the
  code allows; only the bounds hold (`CountWithinLargestHolds`).
* events.service.ts:93 and 129: the start of an event is moved, or the event deleted,
  and its reminders stay at Slack. Every reminder of a deleted event is an orphan by
  construction, and times are not modelled.

## Not modelled

* Throttling: a limit per user kept in memory by a library, in front of `apply` and
  the internal login; it only takes requests away, which every model allows already.
* Metrics, client logs, load tests (`k6`), infrastructure as code: counters, lines
  and scripts outside the program. `prisma/seed.ts` is data; the initial states take
  its founders from it.
* The OAuth exchange with GitHub, the texts of Slack messages, encryption of tokens.
* Layout, wording and styles of the pages; dates and times in the form of events;
  the sheet of campers to download; statistics of organizations; the parsing of
  sheets into lines.
* A camper in two organizations at once: only a login reaches across, and it treats
  each row on its own.
* Wall-clock delays, in the deployment and elsewhere.

## Plan

What is left, in the order of its worth:

1. Deletion and moving of an event with its slots and reminders, over `EventPage`
   and `Reminder` together (`events.service.ts:79-130`).
2. That the rows of `EventPage`, slot by slot, implement `SeatLedger` as
   `Reservation` does.
3. What survives of `NoSeatLost` under failures: how many seats a given number of
   failures can lose.
4. Two tabs per user in `WaitingQueue`.
5. How far the limit on tokens is passed by handlers that count together, as a
   theorem for any number of tabs (`batch` shows that it is).
