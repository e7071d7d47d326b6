# A verification of the restaurant management system

The repository is a restaurant's server: guests, chefs and admins talk to a
multi-threaded TCP server, which keeps tables, menu, orders and users in a
database process of its own, reached through two System V message queues.
This directory holds TLA+ models of the system, from the browser tab to the index
file, the TLC runs that check them, and proofs that hold for every size of them.

## The system

| part | source | state | operations |
|---|---|---|---|
| storage engine | `DB_Service/DB_Engine/DB_File_IO_Handler.c` | an in-memory index per record type, a mutex over all of it, a reader-writer lock per slot, a data and an index file per type | `db_init`, `db_insert`, `db_update`, `db_delete`, `db_read`, `db_find`, `db_find_and_update` |
| engine workers | `DB_Service/DB_Engine/DB_engine.c` | ten threads, one request each | receive, execute, reply |
| database client | `DB_Service/DB_Client/DB_Client.c` | pid and request counter of the process; the two queues | one gateway per kind of call: stamp an id, send, wait for the reply of that type |
| guest handler | `Server/Handlers/guestHandler.c` | the session's order id | book a table, order an item, generate the bill, log out or be cut off |
| chef handler | `Server/Handlers/chefHandler.c` | the list of chefs' descriptors | dashboard, mark prepared, broadcast |
| admin handler | `Server/Handlers/adminHandler.c` | none | add and delete tables and menu items, delete orders, lists |
| connections | `Server/Server.c` | one thread and descriptor per client | accept, authenticate, dispatch |
| accounts | `Server/Utils/Auth.c` | the users file | log in, add and remove an account |
| terminal clients | `Client/` | the page, the order it is about, a chef's list of items | send a request and take the next thing that arrives for its answer |
| web terminal | `xtermWebServer/server.js` | a count of connections | a pseudo terminal with a client for each browser tab |

A handler runs its request as a few database calls with no lock in between.
A call blocks its thread until a worker of the engine has executed it.  The
workers share the index under one mutex and hold a slot's lock, without the
mutex, across `pread` and `pwrite`.

What is hard:

- **Locks.** `db_insert` takes the slot lock and then the mutex; all other
  operations take the mutex and wait for a slot lock with it.
- **Atomicity.** A table is claimed by one `find_and_update`; an order is
  changed by reading the whole record and writing the whole record back; an account
  is looked up by one call and added or removed by another.
- **Crashes.** There is no log: the index file is what a restart knows, and it
  may have holes.
- **Delivery.** Replies are found by type in one shared queue that is bounded
  and outlives the processes.  A call whose reply cannot be received answers FAILURE and may take effect all the same.  Updates to chefs are dropped when there is no room.
- **Sessions.** A connection may end between any two requests and must be
  billed; an admin may delete what a guest is using; an answer does not say what it answers.
- **Views.** A dashboard is read order by order while orders change, and updates overtake it.
- **Descriptors.** A thread and the list of chefs know a client by a number that the
  kernel gives out again as soon as it is closed, and some paths close it twice.

What makes each part correct: the engine executes each call at one instant, leaks
no lock and never deadlocks; the queues give each caller its own answer, once;
the handlers never seat two guests at a table and never strand one, and keep
an order's items, total and bill in agreement; a chef sees every item to cook; the connections
lose no descriptor and bill who leaves; a login is answered as the users file has it; every page
takes the answer that is its own, and closing a tab ends everything behind it.

## The modules

| module | models | proofs in |
|---|---|---|
| `DBEngine` | the engine's operations and locks, step by step | `DBEngineProofs` |
| `RecordStore` | what the engine promises: the abstract specification | |
| `DBEngineCrash` | `DBEngine` with kills and restarts (`db_init`) | `DBEngineCrashProofs` |
| `DBService` | the queues, request ids and workers | `DBServiceProofs` |
| `DBCalls` | what the queues promise their callers: the abstract specification | |
| `Restaurant` | the handlers of guests, chefs and admins over atomic calls | `RestaurantProofs` |
| `Seating` | what the handlers promise of the tables: the abstract specification | |
| `Kitchen` | dashboards, updates and the chefs' screens | `KitchenProofs` |
| `Connections` | the server's threads, descriptors and list of chefs | `ConnectionsProofs` |
| `Accounts` | logins, adding and removing accounts | `AccountsProofs` |
| `Terminals` | a session from the browser tab to the server's thread | `TerminalsProofs` |
| `MC...` | instances of these for TLC | |

They are layers.  `DBEngine` is shown to implement `RecordStore`, a database call that happens at one
instant; `DBService` to implement `DBCalls`, where a call begins, takes effect once and returns after that; `Restaurant`
and `Kitchen` use a call as one step on that ground, and `Restaurant` implements `Seating` until a bill is overwritten.  `Accounts` goes one layer deeper,
because it is about what a `db_find` sees between two slots.  `Connections` and `Terminals` stand beside
`Restaurant`: the same handlers, seen from the socket and from the user's end.

### DBEngine

A program point of a worker (`pc`) stands before the next place where it can be
suspended with an effect others see.  A critical section that cannot block is one step.
Where the code waits for a slot lock with the mutex held, the wait is a point
of its own (`acquire`): `Lookup`, `ScanStart` and `Rescan` take the mutex and choose a
slot, `UpdateLock`, `DeleteLock`, `ReadLock`, `FindLock` and `FindAndUpdateLock` get the
lock, re-validate and let the mutex go.  `num`, `index`, `data` and `idx` are
`num_records_*`, `index_*`, the `.db` and the `.idx` files; `writer` and `readers` are
the slot locks.  A record is its id field and its contents; the partial record
and the mask of a find are one predicate, the set of records it accepts.  Offsets are counted in
records.  `IOFail` is every `pread` or `pwrite` error path.  A `pwrite` is one step:
torn writes at a kill are not modelled.

The abstract store shows an insert when `InsertPublish` sets the entry, a delete when
`DeleteLock` marks it, an update at its `pwrite`.  A search drops the mutex between two slots, so
`RecordStore` promises of "not found" only that every cell was seen without a match
at some instant of the call.  FAILURE promises nothing: the effect may have happened.

### DBEngineCrash

`Crash` kills the process between any two steps and runs `db_init`: a slot below the
last written index entry that was never written itself is read as zero bytes, that
is, as a live entry with key 0 and offset 0 (`ZeroEntry`).  Such a ghost shares the place of record 0 but
not its lock.  A slot that no operation writes, nor has taken to write, is `Settled`: what its operations did was answered, so
`SettledSurvives` is about live and deleted records alike.  Two claims can then match one record and both succeed, although a comment in
`db_find_and_update` says that between match and write "no other thread saw this slot as available"; so
`ClaimHolds` and `NoConflictingIO` are not claimed after a kill.

### DBService

`Begin` is `make_request_id`.  The queues are sequences; `TakeReply` takes the first
message of the thread's type.  `serial`, `made` and `executed` are history variables: a call is
named by its thread and number, and a message carries the name, so that the
properties can tell whose answer it is.  With the default queue size of 16384 bytes
a queue holds two requests (7536 bytes each) or four replies (4024 bytes), so the queues of the
runs are about as small as the real ones.

For `DBCalls` a thread is inside a call from `Begin` to its return.  A return without an effect needs a fault or a new pid
of the caller's process, so that a reply given to the wrong thread is no step of it.  A call given up may still take effect,
even after the thread's next one: the engine's workers overtake each other.

### Restaurant

`pc` says which database call a handler makes next, `frame` holds its local variables,
`session` is `orderID` of `guest_handler`.  `BookRead` to `BookRollback` are
`book_table_and_create_order`; `OrderRead`, `OrderMenu`, `OrderUpdate` are `order_item`;
`BillRead`, `BillUpdate`, `BillFree` are `generate_bill`, run on request or on leaving;
`MarkRead`, `MarkUpdate` are `mark_prepared`; the admin's commands follow.
Requests that only read and print are `Terminals`' matter, the broadcasts to the chefs `Kitchen`'s.
Names, dates and times are left out.
Steps that only answer an error leave the state alone and have no action.

`CallFails` is a call answered FAILURE.  The request may have been sent before (`db_client_call` answers FAILURE as well when it
cannot receive the reply), so one that writes stays in `late`, with its caller's `frame`, and `LateWrite` executes it at any
later time, even after the thread's next calls, or never; a refused one is not kept.  `DBCalls` promises no more.  Such a claim takes a table for nobody, and such an item
opens a billed order again.  The admin's other commands need no `late`: one that takes effect after its FAILURE is the
same command given later.

`reopened` is history: an unbilled copy of an order has been written over its bill, by a chef or by a late call.
From then on a table may have two guests (see the violation below), so `NoDoubleBooking` and `ImplementsSeating` speak
of the time before; `BilledStaysBilled` says that nothing else reopens a bill: one that no older copy is left of (`Final`) stays.

An order that an admin deletes is billed by nobody, so its table stays occupied, although
`generate_bill` is said to "show the bill and free the table"; `delete_order` is therefore not among the
commands of `floor_service`, and `LeavingFreesTable` excepts it.

To `Seating` a guest is booking from the claim to the insert or the rollback, dining while its order is unpaid, and paid
until `BillFree`.  Who has paid frees the table it sat at, whatever its stale copy of the order says, and nobody else does.
A failed call lets `Seating` take a free table late (`TakeLate`), free late one that nobody has (`FreeLate`), and lose a guest whose bill was written
after it had been told that it was not (`Desert`).

### Kitchen

What a chef's terminal shows (`screen`) is fed by dashboards, which `send_chef_dashboard` reads order by
order and, for each unprepared item, dish by dish (`ScanStart`, `ScanOrder`, `ScanDish`, `ScanSend`), and by updates, which handlers broadcast after their write
(`OrderItem`, `MarkPrepared`) or before it (`GenerateBill`, `DeleteOrder`).  Both wait in `wire`.  `broadcast_to_chefs`
drops an update that finds no room, and sends it once for every entry of the chef in `chef_fds`, where one who
comes back under the same descriptor stands twice (`LogInAgain`).  `Receive` is `chef_listener`:
one `recv` may return several messages, and it looks at the first word only.
Two dashboards received together fill the list twice, until the next refresh.
`stored` and `lasting` are history variables.  Writes answered FAILURE may be executed late, as in `Restaurant`.

An admin may take a dish off the menu whoever has ordered it (`DeleteMenu`).  From then on no dashboard lists its items: `send_chef_dashboard`
skips an item whose dish it cannot read, although the order still has it unprepared.  No call has failed, and refreshing does not help.  So
`DashboardRegular` and `RefreshHeals` are about the items `Cookable` has, whose dish is on the menu; that a chef sees in the end every item
a guest has ordered is false.

Assumed: messages arrive whole, item names have no spaces (the parser splits at them), and the
buffers (16384 and 4096 bytes, about 60 items) and `MAX_ITEMS` are not reached.  A dish comes back to
the menu under a new number only, so `menu` just shrinks; a failed read of a dish leaves its item out too (`ScanFails`).  Chefs mark items their screen shows.  An order
that is not there yet looks the same to a chef as an open one without items, so orders start as that.

### Connections

A client has one connection at a time; `peer` is its end, `table` the descriptor table of the server,
and a thread reaches a connection only through `table[fd[c]]`, read at each call.  A `recv` that
blocks stays with the connection it found (`on`), as it does in the kernel, even if the descriptor is
closed under it.  `hello` to `last` are the places of a thread in `handle_client` and, from `ready` to
`closing`, in its handler: `billing` is a guest to be billed before the close, `broken` and `late` one whose
`recv` failed and who is billed after it, `closed` is back in `handle_client` with a closed descriptor.
A thread's role is the one its first line asks for, and what authentication answers is left open
(`Authenticated`, `Refuse`).  Commands keep only whom they send to.

External behaviour it assumes: `accept` takes the lowest free descriptor; a client that closes
leaves its end readable to the end (`left`), one that dies with answers unread resets it (`aborted`); a
`send` to either may or will lead to a reset, and the one after that raises SIGPIPE.  Nothing
guards against it, so it ends the server for all (`alive`), which is said to handle multiple clients
simultaneously.  The sends of one broadcast, or
of a broadcast and the answer after it, are one step.  Sending and blocking on a full socket buffer, and lines
that arrive together in one `recv`, are left to `Terminals`.

### Accounts

Each call of `Auth.c` begins with a `db_find` over the users file, which looks at one slot after the other and
lets other calls run in between (`FindNext`; the length was read when it began).  `Login` is `authenticate_*`:
the first account of the name and password must have the role, whatever stands behind it.  `AddFind`, `AddInsert` are
`add_*_user`, `RemoveFind`, `RemoveDelete` are `remove_*_user`, which takes the first of that name whatever its
role.  Names and passwords are compared without case (`Lower`), but only `add_admin_user` and `remove_admin_user` refuse
root, and only in its exact spelling.  A find that fails reads as "not there", so that an add goes on (`CallFails`).

Nothing in the repository calls the functions that add and remove; they are the interface of `Auth.h`, and
they are modelled as that.  `populate` inserts its users directly (`FirstUsers`).

### Terminals

A terminal is a tab, the client in it (`page`, `shown`), its connection (`requests`, `replies`) and the thread of
the server at its other end (`thread`, `session`).  A page in `Awaits` has sent a request and takes
the next thing that arrives for its answer: `GuestAwaits`, `StaffAwaits` and `Choices` are the client's
functions as a table.  `Hello` is `handle_client`; `ServeGuest`, `ServeAdmin`, `ServeChef` say of every request whether it is
answered, how often, and whether chefs are told.  `OpenTab`, `CloseTab`, `BreakTab`, `HangUp`, `ClientEnded` are `server.js`.
A message names the request it answers (`to`), which the real one does not, so that the properties can tell.

A terminal is also a descriptor, and the server does not keep descriptors to one client.  `listed` is `chef_fds`, which has those of chefs who left.
After `guest_handler` or `admin_handler` the thread is `closed`: its descriptor is free, and `handle_client` closes it once more (`LastClose`), which
may hit the next client under the same number, whose number then goes to a third while the second's thread still reads it.  How that comes about is in `Connections`;
here it is said what it can do to the terminal.  A terminal that connects under a listed descriptor is `recycled`; under one that a thread has still to close, or when
two threads share one already, it may be `mixed` as well (`Inherit`).  To a recycled one `Stray` sends updates at any time; for a mixed one it also sends answers,
takes its requests and closes its connection.  Such a terminal takes what is not its own for the answer to its request, and its pages and
thread are out of step from then on; the comment "broadcast to chefs that a new item has been added" is not true of it.  `OwnAnswer`, `ServedAsShown` and
`PagesAnswered` except recycled terminals by name, `ClosedTabsEnd` mixed ones.

`Die` is the SIGPIPE of a second send to a client that has gone: all threads end, nobody is billed any more, and new clients find no server.

What the model shows without a property: going back from the tables and logging in again keeps the old connection, whose thread answers
the logins with ERROR; a guest whose order an admin deleted is answered ERROR for ever; a tab
that raises error and close is counted out twice, so more than `MAX_CLIENTS` may be served later; `LOGOUT` is sent by no page.

Left out: answers longer than a client's buffer, the contents of lists, and the end of the whole bridge by a
write to a script that has gone.

## The runs

| run | checks | instance |
|---|---|---|
| `engine_store` | claims, the inductive invariant (types, locks, index), and that the engine implements `RecordStore` | 2 workers, 2 slots, all operations, failing I/O |
| `engine_locks` | no lock cycle, no conflicting I/O, index file durable, no revived record; every request a worker has is answered | 3 workers, 2 slots, inserts, claims, deletes and reads; fair |
| `crash_recovery` | settled slots, live or deleted, are as they were; lock invariants with ghost entries | 2 workers, 3 slots, 2 kills |
| `queue_calls` | types and bounds, own reply, at most one execution, nothing lost, calls return unless dead clients' replies fill the queue, and the calls of `DBCalls` are implemented | 3 threads of 2 processes, 2 workers, queues of one message, 3 calls, a client restart, a failed queue call or an engine kill; fair |
| `floor_service` | no double booking and `Seating` implemented until a bill is overwritten, no stranded table | 2 guests, 2 tables, 2 orders, an admin, a call that fails and may take effect late |
| `kitchen_orders` | types, the total of an order fits its items, a bill no older copy is left of stays, and who leaves frees its table | a guest, a chef, an admin, 2 items per order, a call that fails and may take effect late; fair |
| `kitchen_screens` | types, a dashboard misses nothing that was to cook throughout, no screen shows what was never stored | a handler, a chef, 2 orders of one item, a dish that may be deleted, a failing call |
| `kitchen_refresh` | a chef who keeps refreshing sees in the end what is to cook | a handler, a chef, an order of 2 items, a dish that may be deleted, 2 logins, room for 2 messages; fair |
| `connections` | types and the bound of the chefs' list, no descriptor lost, every guest billed, departures noticed | 2 clients in any role, who leave and come back, 2 descriptors, a list of one chef; fair |
| `accounts` | logins regular, namesakes only by a rush, removals of the right name | 2 callers, 2 slots, 5 accounts with spellings of root, a namesake of another role and a wrong password, a failing call |
| `terminals` | types, own answers, pages agree with the thread, nobody turned away, pages answered, closed tabs end | a terminal in any role that comes and goes, updates and threads of others, a server that may die, 2 orders, room for one message and its answer on the wire, 2 broken tabs; fair |
| `kitchen_double_booking` | a violation | 3 guests, a chef, a table |

Two slots let a search pass one and go on to the next, and an insert race one; three workers
let one hold a slot, one hold the mutex and one wait for it, the longest chain of waits there is.
Three slots are needed for a hole with a written entry on both sides.  Two orders for guests that
come again make the third booking fail and roll back.  One terminal is enough, for terminals meet only in updates, which
`OthersUpdate` sends, in shared descriptors, which are `Stray`'s, and in the bridge's count; the theorems on `Terminals` are about any number.

The bounds (`MaxRecords`, `MaxTables`, `MaxMenu`, `MaxOrders`, `MaxOrderItems`, `MaxUsers`, `MaxChefs`, `MaxClients`) are
the code's own limits made small: slots are never reused there either.  `MaxWire` stands for a socket's buffer.
`MaxCalls`, `MaxFaults`, `MaxFailures`, `MaxCrashes`, `MaxLogins`, `MaxAsked`, `MaxBreaks`
and the spare pids bound the length of behaviours, and only because `MaxCalls` ends a behaviour
does `queue_calls` not look for deadlocks.  `connections` does not either, for a killed server stays
dead, nor `terminals`, where an admin may wait for ever.  All other runs do.  Two descriptors let one be reused at once while its
thread still has a close to do; a list of one chef fills at the first login.  Properties that hold only without
failures say so (`faults = 0`, `failures = 0`), and the same run checks the others with them.

`kitchen_double_booking` ends in a violation.  The README of the repository says that the database "Prevents race
conditions and lost updates"; but `mark_prepared` writes back a copy of an order that it read before the bill.  The
order is open again, at a table that another guest has booked since: two guests answer for one table.
It takes no chef either: with `Chefs <- NoThread` and `MaxFailures = 1` the same run ends the same way, because an `order_item` whose write was
sent and whose reply could not be received is told FAILURE, and the write is executed after the guest has paid (`late`).

More disagreements were met and are told where their module is described: the ghosts of an index file
(`DBEngineCrash`), tables of deleted orders (`Restaurant`), items of deleted dishes (`Kitchen`), SIGPIPE (`Connections`) and the listed descriptors of chefs who
left (`Terminals`).  Three more need no run to be seen.  A comment in `db_update` calls its locks
"consistent with the lock order used in db_insert"; the orders are opposite, and `NoLockCycle` says why that does
no harm.  `generate_bill` frees a table with a record that has no capacity, which `structs.h` says
"can only be 2, 4, 8, or 12".  And guests and admins have their descriptor closed twice, the second time
perhaps when it is another client's; `Connections` has that behaviour, and its
properties are those that survive it; `Terminals` has what it does to a client.

Each property of the other runs is paired in `PROJECT.json` with a mutant of a definition, an
operator in front of it that says in its comment what is wrong with it, and the property fails with it.

## Fairness

`DBEngine`: weak fairness of a worker's own steps, for threads run and a slot lock that stays free is
granted; strong fairness of the steps that begin by taking the mutex, for a pthread mutex is not
a queue and a thread may find it taken again and again.  No request need ever come.
`DBService`: weak fairness of taking messages, strong fairness of `msgsnd`, whose waiting senders the kernel
serves in turn.  `Restaurant`: a handler goes on with the request it has begun; nobody has to
make one, and a guest need not leave.  `Connections`: threads run; nobody need connect, ask or leave.
`Kitchen`: a thread goes on with a command or a dashboard and a terminal reads what arrived; that the chef keeps
asking for dashboards is a premise of `RefreshHeals`, no fairness.  `Terminals`: the client, the thread and the bridge run;
no user has to do anything.

## What is proved

All theorems hold for every value of the constants under the module's `...Assumption` alone; the
extra premises of six of them are stated below.

**The engine** (`DBEngineProofs`).  `TypeCorrect`, `LocksCorrect`, `EngineCorrect`: `TypeOK`, `LockInv` and `EngineInv` are
invariants; `NoDeadlockByLockOrder`, `ClaimIsAtomic`, `NoTornRecord` are what they imply; `DeletedStaysDeleted` is the
action property `NoResurrection`.
`NoLockCycle` is not inductive: that nobody waits for an inserting slot needs that it is not
live (`InsertUnseen`) and that who owns the mutex waits for a live one (`LockTargetLive`); that it
is nobody else's needs that slots in use are counted (`Counted`); that the index does not
change under a waiting worker needs that locks and program points agree (`LockDiscipline`).
These with `TypeOK` are `LockInv`, which is inductive whatever the index holds, crash or not.
`IndexSound` on top of it says that two live slots never share a place in the data file, and only
then does a slot's lock protect its record: `ClaimHolds` and `NoConflictingIO`.
`EngineImplementsStore` (`ImplementsStore`): `StoreInv` adds to `EngineInv` that who works on a slot has a request of that kind and, at
its I/O, a record the store has too; then the step that shows an insert, delete, update, read or claim is the store's step, the
scan of a search is `Examine`, and all others are stutters.  Its `StoreAssumption` ties the requests to the types and the record's fields.
`IndexFileAgrees` (`IndexDurable`) needs, besides `LockInv`, that every entry of the file agrees with memory or a
worker stands before the write that makes it agree.

**Kills** (`DBEngineCrashProofs`).  `LocksSurviveKills`: `Crash` lets all locks go and keeps the types, ghosts or not, so
`LockInv` stays.  `SettledRecordsSurvive` (`SettledSurvives`), if `IOFaults` is false: an entry agrees with the file, or is a ghost, or is being
written (`CrashAgrees`); a ghost is loaded as the same ghost again, because the file only grows.  That a settled slot is counted after the restart needs that every
counted slot has an entry in the file, or one behind it has, or its insert or delete is unfinished (`CountedWritten`).

**The queues** (`DBServiceProofs`).  `QueuesBounded` is `TypeOK`.  `AnswersOwnCalls` (`OwnReply`), if
`MaxCalls <= IdBase`: an id is a pid and a count below `IdBase`, and can be split into the two again; pids are never given twice, so
an id on its way was stamped by the process that has that pid, or had it, at that count, and `IdsInv` ties it to the one call made then.  Beyond the
premise the ids of one process run into those of the next pid, and the theorem is false.  `ExecutedAtMostOnce` (`AtMostOnce`):
a call is on its way once at most, and with a count that fits the stage it is in (`OnceInv`).
`NoCallLost` (`NothingLost`), under the same premise: `LossInv` says that an executed call is in one worker's hands or once among the replies,
and that, while nothing failed, a call waited for is somewhere; with `OnceInv` the three counts of copies add up to one.
`ServiceImplementsCalls` (`ImplementsCalls`), under the same premise: `IdsInv` makes the answer the caller's own, `OnceInv` puts it after the effect.

**The handlers** (`RestaurantProofs`).  `SessionsApart`: an order's number is given once, so no two sessions
name one order (`OwnOrder`, which the next proofs need; no run checks it or the types of `Accounts`).  `NoTableTwice`
(`NoDoubleBooking`), `BillsStay` (`BilledStaysBilled`) and `HandlersImplementSeating` (`ImplementsSeating`) have no premise: chefs, deletions, failed and late calls are all in.
`FloorInv` adds to `HouseInv` where a guest can be in its requests, that its copy is of its own order, that every copy, a late call's too, names
the table of its order, and that, until a bill is overwritten, a billed copy other than the bill itself is of an order that is billed or gone.  `BillsStay` follows: what may
still be written over a final bill is a billed copy.  For the tables `HoldInv` adds that each is held by one holder at most, a guest that answers for it or
a failed call that may still release it, and that a held one was given out and is not free; so a late release frees no table that somebody answers for.
`NobodyStrands` (`NoStrandedTable`), if no admin has `delete_order`, which takes the order from under the guest who
would free its table: `MannedInv` finds for every occupied table a guest whose order is open in the file and in
every copy, so that no chef's write keeps it from its bill.  `HandlersImplementSeating` adds that who is gone has no unpaid order (`GoneInv`); then a step of
one thread changes what is seen of no other guest.
`HouseTypeCorrect` (`TypeOK`), by `HouseInv`, which adds the functions' domains and that who reads the menu knows how many portions.
`TotalsFit` (`BillMatchesItems`) needs that the copies in the frames fit too (`SumsInv`), and a lemma that the recursive sum over a longer
list is the old sum plus the new cost; sums are compared at the first place where they would differ, for the library's induction theorems
are out of reach here.

**The kitchen** (`KitchenProofs`).  `DashboardsComplete` (`DashboardRegular`): with the types of a scan the
property is inductive, since an item leaves `lasting` as soon as it is not pending or its dish is off the menu, and until then is in the list or in `todo` once its order is read.  `KitchenTypeCorrect` (`TypeOK`), by `KitchenInv`: the counts
of a screen stay natural through a whole batch of messages, which `Receive` folds.  `NobodyInvents` (`NothingInvented`): `InventInv` adds that
what a handler is about to store or announce, or a late call to write, is of its order, and that dashboards and messages name only what was stored.

**The connections** (`ConnectionsProofs`).  `DescriptorsKept`, `GuestsAreBilled`, `ServedChefsListed` and `ConnectionTypes`.  Their
inductive invariant `ConnectionInv` adds to them where a `recv` can block (a line is only read there), that a
running thread has a descriptor, and that only guests have an order; a guest whose order is open is never where a
thread can end.

**The accounts** (`AccountsProofs`).  `LoginsRegular`, `RemovesAsked`, `AccountTypes`, and `NamesakesByRush`, if the first
accounts have different names.  `Good` says of each call what its find has established: a login has passed no live account that fits;
an add has passed none of its name, unless another add of that name ran beside it or a call has failed; and a remove is
about to mark an account of its name.  A slot never changes but by being marked deleted (`Grown`), so other calls do not disturb that.

**The terminals** (`TerminalsProofs`).  `NobodyTurnedAway` (`NoFalseBusy`) counts the open tabs.  `AnswersInTurn` (`OwnAnswer`) and
`PagesOfTheSession` (`ServedAsShown`) need one invariant of both ends (`Good`): a waiting page has its request in `requests`, or its answer
in `replies`, or neither because an admin's list was not read or the connection has ended, and never more than one of them; a page that
does not wait has nothing on the wire.  It holds of every terminal that is not `recycled`, and needs
that a descriptor is listed only while a chef's thread has it, and after (`ListedInPlace`), for under any other a terminal comes back clean.

`SessionsTypeCorrect` (`TypeOK`) needs the exact count of the bridge, the open tabs less those that were counted out twice (`CountInv`), and what a
thread may send for one request, so that the wire never outgrows its room (`RoomInv`).

Every invariant, action property and refinement of the runs is proved.  Only model-checked is liveness, which is out of
the prover's reach: `EveryCallAnswered`, `EveryCallReturns`, `LeavingFreesTable`, `RefreshHeals`, `DepartureNoticed`, `PagesAnswered` and
`ClosedTabsEnd`.  The refinements are of safety; that the abstract calls return is again those properties.

## Not modelled

The test scripts and the build.  The scripts fill and print the database and are processes like
any other to `DBService`.  Below the modules: torn writes, the loss of data `fsync` has not reached, the removal of the
queues by the makefile, byte counts of messages and buffers, the text of pages and answers.

## Plan

1. A restart of the server, which forgets its sessions: their tables stay occupied and their orders open.
2. `Terminals` and `Connections` in one module, so that it is known which terminals share a descriptor, and not only which may.
3. The bytes of a connection: messages that arrive in parts, and lists longer than a buffer.
