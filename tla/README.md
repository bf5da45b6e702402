# A verification project for the coursework portfolio

The repository is a portfolio of five course projects. This directory holds TLA+
models of the parts of it that keep state, the TLC configurations that check them,
and proofs of the theorems that matter most. Modelled are the C router, by far the
most concurrent program of the five, the XML-RPC library, the seat reservations of
the airline's web application, and the menu-driven shop.

## The system

### Software router (`redes-de-computadoras/enrutamiento`)

One process per router, five threads:

| thread | code | what it does |
|---|---|---|
| main | `sr_main.c`, `sr_vns_comm.c:sr_read_from_server_expect`, `sr_router.c:sr_handlepacket` | reads frames and handles them one at a time |
| ARP sweep | `sr_arpcache.c:sr_arpcache_timeout` | every second: expires mappings, walks the request queue |
| RIP advertisement | `sr_rip.c:sr_rip_periodic_advertisement` | installs the direct routes after 2 s, advertises every 10 s |
| RIP timeout | `sr_rip.c:sr_rip_timeout_manager` | every second: invalidates routes not refreshed for 60 s |
| RIP garbage collection | `sr_rip.c:sr_rip_garbage_collection_manager` | every second: removes routes invalid for 40 s |

(A sixth, `sr_rip_send_requests`, asks the neighbours once, after 3 s, and ends.)

| component | state | operations | interacts with |
|---|---|---|---|
| ARP cache | 100 slots, a linked list of requests with their packets; recursive `cache->lock` | lookup, queuereq, insert, destroy, `handle_arpreq`, sweep | main and sweep; queues packets for IP forwarding and ICMP |
| RIP | routing table rows (metric, learned_from, valid, two timestamps) under `rip_metadata_lock` | update_route, send_response, handle_rip_packet, timeout and garbage passes | four threads, the neighbours' RIP, IP forwarding reads the table without the lock |
| IP forwarding, ICMP | the static start time of the 15 s window | handle_ip_packet, longest prefix match, errors, echo reply | ARP cache, routing table |
| VNS session, start-up | the socket, a handshake, the interface list | read and dispatch commands, load the table, send a packet | starts the threads, fills the interface list the RIP advertiser reads; every thread writes to the socket |

What makes it correct: no packet is forgotten and no neighbour is given up
early; the threads never touch a freed request; tables converge, are never
optimistic, and never lead in a circle once the network has settled; a lookup, which
takes no lock, misses no row that stays, and only dead rows are freed under it.

### The other projects

| component | state | hard behaviour | correct when |
|---|---|---|---|
| XML-RPC library (`Obligatorio1/server.py`, `client.py`) | per connection: a receive buffer, the registered functions | partial reads, pipelined requests, a thread per connection | no request is answered twice or out of order, a client that waits gets its result or a fault, nothing runs of an unfinished document |
| airline reservations (`taller-desarrollo-software`) | per flight two counters of seats and a list of reservations, per client a list | servlet threads without locks, check-then-act on seats, partly executed requests, rows loaded again on every visit | counters never show fewer seats than there are, a confirmed reservation exists, flights and accounts agree when requests come one by one |
| airline users, routes, packages (`taller-desarrollo-software`) | singletons with lists of users, routes, flights, packages | test-then-add without locks, states of a route | names are unique, a route changes state as its airline says |
| online shop (`programacion-orientada-a-objetos`) | controllers with users, products, promotions, purchases, comment trees | long sequences of menu operations that delete shared objects | stock and promotions agree, no reference to a deleted object |
| typed JSON (`programacion-funcional`) | none | pure functions | type inference agrees with its reference definition |
| robot controllers (`robotica-autonoma`) | the last sensor readings, controller modes | callbacks between timer ticks | the robot stops or avoids on fresh data |

The full list, with the reason for each part not modelled, is in `PROJECT.json`.

## Modules

| module | models | kind |
|---|---|---|
| `PacketFate` | what the ARP layer promises about a packet | abstract specification |
| `ArpCache` | `sr_arpcache.c` and the ARP and ICMP parts of `sr_router.c`, two threads | state machine |
| `RipRoute` | one routing-table row: `sr_rip_update_route`, the advertised metric, the timers | operators |
| `RipNetwork` | routers running `sr_rip.c` over links that delay, lose and reorder | state machine, uses `RipRoute` |
| `VnsSession` | main: handshake, commands, interfaces (`sr_main.c`, `sr_vns_comm.c`, `sr_if.c`) | state machine |
| `RouterProcess` | the routing table as a list (`sr_rt.c`), the threads that change it and the lookups that do not lock it | state machine, extends `VnsSession` |
| `RemoteCall` | what the XML-RPC pair promises a program that calls | abstract specification |
| `XmlRpc` | `server.py` and `client.py`: a thread per connection, requests in pieces | state machine |
| `SeatSale` | what the airline promises about the seats of one class | abstract specification |
| `Reservations` | booking: the form, the loader of the home page, `ingresarDatosVuelo`, `ingresarNombres`, `Vuelo`, `Cliente`; a thread per request | state machine |
| `ShopSales` | the shop's users, products, promotions, purchases, shipments | state machine |
| `Shop` | the same with the comments on products: the whole menu | state machine, extends `ShopSales` |
| `MCArpCache`, `MCRipNetwork`, `MCRouterProcess`, `MCXmlRpc`, `MCReservations`, `MCShop` | small instances | instances for TLC |
| `ArpCacheProofs` | invariants of `ArpCache`, and that it implements `PacketFate` | proofs |
| `RipNetworkProofs` | invariants of `RipNetwork` for every topology | proofs |
| `RouterProofs` | what is freed under a lookup, what a lookup passes over, the list, the direct routes | proofs |
| `XmlRpcProofs` | invariants of `XmlRpc`, and that it implements `RemoteCall` | proofs |
| `ReservationsProofs` | what holds of concurrent requests | proofs |
| `ReservationsSaleProofs` | one request at a time implements `SeatSale` and keeps the books | proofs |
| `ShopProofs` | keys, stock, subscribers, comment threads and NULLs of the shop | proofs |
| `Recursion` | induction by a least counterexample, existence of recursive functions, sums over finite sets | lemmas |

Definitions whose comment begins with "Fault" are plausible mistakes: mutated forms
of the operator that follows them, which `PROJECT.json` pairs with the property that
each of them breaks. No specification uses them.

### ArpCache

`entries` is the table (slots matter because it can be full), `requests` the
linked queue and `req` the structs by address, so that a pointer can outlive
what it points to. `fate` is the history of every packet. `pc`, `ref`, `now` and
`work` are the locals of the two threads inside `handle_arpreq` and
`host_unreachable`; `todo` is the rest of a sweep.

* A critical section of main is one action, enabled while the sweep does not
  hold the lock. `handle_arpreq` is called by main without the lock
  (`sr_router.c:449`) and is therefore split at its shared accesses: `Decide`
  reads `sent` and `times_sent`, `Probe` sends and writes them, `Report` visits
  one packet, `Destroy` frees. The sweep runs the same actions, lock in hand.
* `times_sent++` is not atomic: with both threads at it, two may count as one.
* Packets: `<<p, 0>>` is a datagram, `<<p, 1>>` the error about it, and so on. An
  error carries the router's own address as its source, so an error about an error
  waits for the router's *own* link address, which nobody answers; that chain is
  modelled up to the third error. Beyond it (`ErrorAbout(<<p, 3>>)`) an error is
  given up without a trace (`CanAnswer`), a bound.
* Time counts turns of the clock of `time(NULL)`. `CALL_SECONDS = 1` says that one call of
  `handle_arpreq` meets at most one turn.
* `Dangling` is the use of a freed request. It is undefined behaviour; the model
  stops there (`Collapsed`). Every other property is claimed of executions before
  it, which the code does not exclude (see What the models found).
* The order of waiting packets (a reply sends them last in, first out) is left out.
  `SweepStart` may expire any set of slots, which includes what 15 s do.
* `AnswerWithError` covers time exceeded, port unreachable and net unreachable
  alike; which one it is depends on IP forwarding (`RouterProcess`).
* `NothingOrphaned` and `InsertedIsMapped` are two more claims of the code's comments.
  No configuration lists them, because both fail (see What the models found); put one of
  them under `INVARIANT` in `ArpDangling.cfg` to see how.
* `ArpAssumption` asks for more request addresses than next hops, so that
  `calloc` never fails. The code's failure paths of `malloc` are not modelled.

### RipNetwork

A row has `valid`, `metric`, `from` (gateway, learned_from and interface, which
`sr_rip_update_route` always writes together on point-to-point links) and `age`
(since `last_updated` or `garbage_collection_time`, whichever the row's state uses).
Every thread's pass, and the handling of a packet with the triggered update it
ends in, is one action. What that hides, a response built before and sent after
another thread's, is brought back as `Overtake`.

* A link holds `MAX_FLIGHT` frames; one more makes the oldest drop.
* `Tick` is ten seconds. It happens when every living router has advertised, all
  frames have arrived and the managers have seen every row that is due: routers run
  in lockstep, delivery is fast against 10 s. `Lose`, `Overtake` and `Crash` are
  the exceptions, bounded by `MAX_FAULTS` and `MAX_CRASHES`.
* `Restart` starts the process anew with an empty table; the direct routes come
  back with `Connect`, 2 s later, and requests with `Ask`, 3 s later.
* Timers are counted in advertisement intervals, compared with `>` as in the code.
* Links are point to point, as in the project's topology (`pwospf_topo.py`);
  malformed RIP packets are not modelled.

### VnsSession and RouterProcess

One router process at the grain of its threads. `VnsSession` is main from the
handshake on: `stage` says which command it waits for or handles, `linked` and
`configured` how far `if_list` has been built, which VNSHWINFO does piece by piece
while other threads may look at it. `RouterProcess` adds the routing table as it is in
memory: `head`, `next`, `row`, and `memory` for what each node is (free, linked but
not written, a row), so that the two halves of `sr_add_rt_entry` and
`sr_del_rt_entry` are separate steps (`LinkRow`/`WriteRow`,
`TakeOut`/`FinishTakeOut`). `lock` is `rip_metadata_lock`.

* `reader[t]` is the lookup of main or of the ARP sweep: one turn of the loop of
  `sr_find_longest_prefix_match` per step (`LookAt`), no lock. When a step meets a node
  that is free or not written, the model ends (`undefined`): the code does not exclude
  it, and the properties are about executions before. `owed` is history: the best row
  when the lookup began, dropped when that row is taken out.
* `UpdateRoute`, `IgnoreRoute` and `LearnRoute` are `sr_rip_update_route` on a response of
  one entry; which metric and gateway win is the subject of `RipRoute`, so here a learned
  row may be renewed, invalidated or left. `TimeoutPass`, `StartToCollect` with
  `CollectRow` and `Collected`, and `Connect` with `Replace`, `Install` and `Connected` are
  the passes of the three RIP threads.
* A thread reads the time before it asks for the lock. The steps choose, when they
  get the lock, by how many turns (`Late`) that time is old.
* The 15 s in which no net unreachable is sent is a choice (`Silent`, `NoRoute`).
  The strict comparison of `sr_router.c:466` never takes a row of mask 0; `LongestMatch`
  leaves it out by name, and the instance has no such row.
* `COPIES` bounds the rows of one prefix in memory. A node is of one prefix and is
  not used again while a lookup stands on it. A table file without a row leaves the
  table empty; VNSHWINFO comes once, before the first packet.
* Left out: threads that go on while main spins at the end of the stream; the
  building of responses and the printing of the table (readers that change nothing);
  reads of a gateway torn by a concurrent `sr_rip_update_route`; what is written to the
  socket.

### XmlRpc

A request is a sequence of units, the smallest pieces a `recv` may end between: request line,
headers, bytes of the XML document, the two bytes of one character, blanks after the document's
last tag, which Content-Length may count. `written`, `received` and `from` say how many units of
`Stream[c]` have been sent, taken by `recv`, and thrown away with `buffer`; the buffer is what
lies between the last two. `thread[c]` is where `administrar_cliente` stands. `RecvHeaders` and
`RecvBody` are one `recv` with what is looked at after it, `Execute` is `administrar_pedido` with
the answer and the emptied buffer, `RecvNothing` is a `recv` that returns nothing:
`server.py:113-134` then goes on with the body it has, without comparing its length with
Content-Length. A body that lacks only blanks parses and is executed (`Document`); any other does
not parse, or ends inside a character. `Does[c][k]` says what comes of a call, in place of parsing
and of the procedure.

* `Waiting` clients are those of `client.py`: they send a request and read its answer.
  `Pipelined` ones send all at once, as HTTP allows; they are external. Those in `Quits`
  may leave or die in the middle of a request.
* `Serve`, `Accept`, `AcceptFails` and `Close` are the accepting thread and `close`, which does
  not wake a thread blocked in `accept`, but makes a later call fail. Other errors of `accept`
  (no descriptors left) are left out.
* `XmlRpcAssumption` says what a body that does not parse is: one that goes wrong before its
  last tag, so that no beginning of it parses either. client.py sends no blanks after its
  documents; a client that sends ahead may.
* An answer is decoded by the client only when it has come whole, so its pieces
  make no difference and it comes in one step. `sendall` does not fail.
* Timeouts: the code sets none.

### Reservations

A request, the post of a form or a visit of the home page, is a sequence of calls
of `ControladorRutaDeVuelo` (`Calls`): one for a single passenger; for a group of n
the calls for 2, 3, .. n, because `MostrarVueloServlet` calls `ingresarNombres`
inside the loop that collects the names; for a visit one call per row of
`2024Reservas.csv`, which `Home` loads again every time. A refused call ends a form
with the error page; the loader catches the exception and goes on (`Refuse`).

* `available` and `list` are the fields of `Vuelo` and `Cliente`. A call is split at
  its accesses to them: the test of the seats (`Refuse`, `PassOver`, `Accept`), the copy of the
  flight's reservations (`Copied`, `CopyFails`), the two adds, the counter's read and
  write. `MAX_ACTIVE` requests are served at the same time.
* `ArrayList.add` (`BeginAdd`, `EndAdd`) and the iterator are the library's, modelled by what they
  may do without synchronization: an add that ends after others came in between may lose any of
  its own element and theirs, may leave a null (`hole`), on which later copies fail, and may throw
  `ArrayIndexOutOfBoundsException` (`AddFails`), when the array it has read is too small for the
  size it finds. Nobody catches that: in the account's add it comes after the flight's list and
  counter have changed. The capacity of the array is abstracted, so all this may happen whenever
  others came in between. A copy fails when the list was added to after it began, unless the list
  is empty. The copy is taken as a whole, and visibility between threads is immediate: what a
  processor may delay shows as another order of the same steps.
* The form's own checks (names, date, bags) are one field, `ok`. The user's session,
  prices, tickets and the redirects are left out. `View` is the page that offers the form;
  that a client is recognised there by the first name is abstracted to the client.
* Flights and clients exist from the start (`Init` follows the first part of the loader,
  which creates them before any row). The form of `ReservaServlet` does not send a POST, so
  its `doPost` is not reached and not modelled.
* `ConfirmedIsReserved` is what the success page says. It fails (see What the models
  found), so no configuration lists it; it can be put in place of `NeverOversold` in
  `ReservationsOversold.cfg`.
* `sold` and `groups` are history variables: the persons who got a seat, and the bookings of
  several persons, each of which takes off one seat more than it has persons. `TakenOff` is their sum,
  what the counter would have lost if no update were lost.

`SoldOutIsTrue` measures a refusal by the seats nobody has, `Seats - sold`. In tourist class, which
groups never book, none of them is refused. In executive class up to one per booked group may stay
empty and be refused: in the instance, seven seats, the visit's pair takes 3 off and the group's first
call 3 more, and its second, for three persons, finds one left where three are empty.
`ErrorIsAtACall` excuses exactly the trace a failed add to the account leaves, the reservation in the
flight's list, and only for a client with several windows, whose requests alone can race for it.

`NeverUnderReports`, `SoldOutIsTrue`, `OwnerKeepsIt` and `ErrorIsAtACall` are what is
left of correctness under races: which side the books go wrong on, and what a client
may still rely on. `BooksBalance` and `SeatSale` need one request at a time.

### ShopSales and Shop

One person answers the questions of a menu. Each menu option, or each turn of its
loop, is an action named after the operation of the controller it calls. Answers
that the screen did not offer are allowed where the code does not ask again: the
variable `fuera` remembers that there was one. What is hard is what a long sequence
of answers leaves in the maps.

* Lookups with `operator[]` insert a NULL (`nulos`, `nulosProducto`, `nulosUsuario`, the
  state `null` of `colUsuarios`), and a later listing dereferences it (`Cae...`). A
  listing is the first thing most options do, hence the guards `UsersListed` and
  `ProductsListed`. `clienteAsociado` of a purchase that was not confirmed is never written
  (`Compra.cpp:16-20`), so the listing of menu j (`CaeAlListarCompras`) may find it NULL or wild.
* What is typed is any stock, minimum or amount of `Amount` (zero is asked for again, or refused by
  `HayStock`, where the code does so) and any code from 0, which none has, to one past the last (`Typed`).
* `productos[p].compraProd` is filled under the product's code and under the purchase's
  number, in one map (`ConCompraProd`). `item` holds the `CompraProd` objects
  themselves, also those that no key leads to any more.
* A comment is pointed to from its product or the comment it answers, from its
  author, and from `colComentario`, which is never cleaned: `deProducto`, `respuestas`,
  `deUsuario` and `comentario` with `vivos`. `Hilo` is the recursion of
  `EliminoComentarioYHijos`. `tema` is the product of a menu option that loops.
* The program may end by itself: `null`, `wild` (a pointer never written, or freed, is
  used) or `asks` (a loop asks for something that does not exist). Uninitialized
  pointers are a choice: `Producto::promo` and `Compra::clienteAsociado` may happen to be 0.
* `audience` and `alta` are history variables: who was subscribed when a promotion was
  made, and the first stock of a product.
* Sessions are bounded by `limit`. Left out are prices, dates (promotions do not
  expire in `aplicarDescuento` either; options o and p set and show the date), the wording
  of screens, and the test data of the other menu, which call the same operations.

## Runs

| run | question | states | bounds |
|---|---|---|---|
| `arp_cache` | does every interleaving keep the ARP layer's invariants, implement `PacketFate` and drain the queue? | 105 906 | 2 neighbours, 2 datagrams with 3 levels of errors, 1 slot, 3 probes |
| `arp_dangling` | does a request outlive its use? (no) | violation | the same |
| `rip_triangle` | are metrics safe, do direct routes stay, do next hops lead downhill? | 505 000 | 3 routers, 1 network, infinity 4, 2 frames per link, 1 crash |
| `rip_converges` | do the tables become right for good? | 97 797 | as above, 1 frame per link, fairness |
| `rip_line` | does poisoned reverse prevent counting to infinity? | 140 000 | a line of 3, infinity 6, 1 crash, 1 frame lost or overtaken |
| `router` | with lookups that take no lock: is no staying row missed, is nothing alive freed, do direct routes stay, does main come back? | 577 060 | 1 interface, 2 nested prefixes, 2 nodes each, timers 0, 1 turn late |
| `xmlrpc` | cut into any pieces: are requests executed once, in order, and not before their document is whole, do waiting clients get the right answers, does every call come back and every thread end? | 121 308 | 2 clients with 3 calls, one with blanks after its document, server may close, one client may die |
| `reservations` | what may races between requests do to the books, and what not? | 654 545 | 1 flight of 1 + 7 seats, 3 forms and 1 visit of 2 rows, 2 at a time |
| `reservations_serial` | do the books balance, and are tourist seats sold once? | 33 346 | 1 flight of 2 + 2 seats, 5 forms, 2 visits, 1 at a time |
| `reservations_oversold` | are there as many persons as seats at most? (no) | violation | 5 forms, 1 visit, 1 at a time |
| `shop` | after any session: is stock conserved, do the maps agree, is what is shown what is marked, is who subscribed told once? | 527 164 | 3 nicknames, 5 kinds of session (`MCSessions`), amounts 0 to 2 |
| `shop_reply` | can every comment on the screen be answered? (no) | violation | the same |

Why the bounds are enough. One slot makes the table full with the first mapping,
two neighbours make the queue hold more than one request, and p2, which comes
back out where it came in, makes an error wait on the request being destroyed. Three probes
separate the first, a middle one and the last. Only a cycle can count to infinity,
and a triangle is the smallest; infinity 4 leaves it one step to count. In
the line there is nothing to count along, so a larger infinity gives a wrong metric
room to appear. One network is enough because rows of different networks do not
influence each other, except that they share a frame. In `rip_triangle` v2 and v3
are interchangeable (symmetry); no liveness is checked there.

In `reservations` the group of three makes two calls, so one can fail between them; seven
executive seats let the group and the visit's row pass the same test at once and still make the
last call fail after other requests; three requests want the one tourist seat. One of them is
another window of the client of the visit's rows, so that two requests may race for one account;
the other clients have one window. Two requests at a time is the smallest race; a lost element or
a lost update needs no third. In `reservations_serial` two executive seats are the real number of
flight ZL15011350 in `2024Vuelos.csv`, which row RE04 fills.

In `router` the row for the interface's network may come from the file, from a neighbour and from
the interface, and has a longer mask than the other; with two prefixes the victim can be the head
or not, and a walk can stand before, on and behind it. Timers of 0 turns are the smallest that
still differ from "at once", because the code compares with `>`. One interface is enough for the
advertiser to meet it missing, half written and complete. In `xmlrpc` three calls are the least
with one before and one after the call whose buffer is thrown away; only the last call of the
waiting client has the long character, so that the properties about the others are not excused by
it; the first request of the other client ends in a blank, and that client may die between the
document and the blank. In `shop` a session is of one kind (buying, buying again, promoting,
commenting) as far as two purchases of two products, three of one, two promotions of three users,
or three comments of two users; purchase numbers and product codes overlap (three purchases of two
products are left to the proofs), and a comment can have two answers (an answer has none: see What
the models found). A fifth kind has one of everything, for the interplay. Nicknames are
interchangeable (symmetry, no liveness). Deadlock is not checked in `router`, `xmlrpc` and `shop`,
`shop_reply`: processes there end, by their rules or by undefined behaviour.

`RoutesDescend` says `faults = 0`: a lost triggered update does leave a temporary
loop, which the next advertisement repairs; `Converges` is about that.

### Fairness

`ArpCache`: the sweep thread and the clock go on (weak fairness). Main competes
for the lock with a thread that releases it and sleeps for a second, so what main
has begun is under strong fairness. Frames need not arrive: no fairness for
replies or new datagrams. `RipNetwork`: threads run and frames arrive (weak
fairness for `RouterStep` as a whole), and time goes on. Between two ticks there are
only finitely many steps, so fairness of the whole is enough. Nothing makes a dead
router start again. `RouterProcess`: a thread that can take a step of a lookup or
of what it does with the lock takes it (weak fairness), and main gets the lock some
time (strong fairness: the other threads release it and sleep for a second or more).
No packets, commands, passes of the timers or turns of the clock are promised.
`XmlRpc`: the threads of the server and of a client that has called run, and what was
sent arrives; nobody has to connect, to call, to leave or to close the server.

## Proofs

Proved with TLAPS for every value of the constants that satisfies the named
assumptions (`ArpAssumption`, `RipAssumption`, `NetworkAssumption`,
`DistAssumption`, `SessionAssumption`, `ProcessAssumption`, `XmlRpcAssumption`,
`WaitersAssumption`, `ShopAssumption` and those of the reservations, which TLC
evaluates on the instances).

`ArpCacheProofs`. The invariants the runs check are not inductive. `Inv` adds what
the queue, the fates and the threads know of each other: a request holds packets of
its own address (`Sound`), each pending or given up by a thread that is about to free
the request (`QueuedFates`, `GivenUpByReport`); an error about a packet is not made before the
packet is given up (`ErrorsInTurn`); a thread holds a request exactly while it is in
`handle_arpreq` (`References`); the sweep's list has no freed and no repeated request
(`Walk`); what `host_unreachable` has still to visit is on its request
(`WorkIsQueued`). For `GiveUpAfterAllProbes`, `CountedWasSent` says that the probes
really sent are at least `times_sent`: this is why `handle_arpreq` without the lock is
harmless for the count, a lost increment only makes `times_sent` too small.
`RoomToSend` bounds `times_sent` by `MAX_SENDS + 1` in spite of the two threads.
`Implementation` maps each action to a step of `PacketFate` or a stutter.

Induction. The library's induction rules take an operator as a parameter, which no
installed prover can instantiate. `Recursion` gets by with sets: a set of numbers that
holds n whenever it holds n + 1, and not 0, holds none (`NoCounterexample`, from the
well-foundedness of `<`). The lemma `RecursiveFunction` derives from it that a definition
`f[x \in D] == ..` whose right-hand side looks only at smaller ranks has a solution;
this is what the LET-functions in the models need before anything can be said of
`CHOOSE`. `DefinedTotals` does the same for the folds of the community modules. The
reachable part of a routing table, the thread of a comment and the sums over purchases
and reservations are handled this way.

`RipNetworkProofs`. `NoUnderestimate` is not inductive: a frame under way can
carry a metric into a table. The invariant adds that no metric in any frame
is below the sender's distance; `DistAssumption` (at most one link more than a
neighbour) carries it through `UpdateRoute`, and `SequenceTheorems` through a bounded
queue that loses and reorders. `DirectStays` follows from "metric = Cost is
minimal": no advertisement is strictly better, and a direct row is never timed out.

`NeverCounts` is proved for links without a cycle (`NoCycle`; TLC evaluates in
`TopologyAssumption` that the line has the property and the triangle has not). In
`TreeInv` a valid row has the distance as its metric and leads to a nearer
neighbour, and a response under way says the distance only to routers that are
farther away: to the one nearer neighbour there can be, poisoned reverse says
infinity. Losses, overtaking and crashes only remove frames and rows.

`RoutesDescend` needs what every link carries. In `DescentInv`, as long as nothing
was lost or overtaken, the last response under way on a link says what the
sender's table holds now, and when none is under way the receiver has heard it
(`Told`). The triggered updates re-establish this at every change of a learned row. It
breaks for a direct route, which is installed without an update, but nothing learned is as
near as that (`SoundRow`). The hypothesis is `MAX_FLIGHT > 1`: with a single slot on a link a
request would take the place of the response it follows, a loss that `faults`
does not count.

`ReservationsProofs`. The five properties hold for any flights, forms, rows and any
number of requests at a time. `CountersAreHigh` needs that a copy of a counter held between
read and write is itself not too low (`TakenOff` only grows, `EnteredSeats`); `RefusalsAreRight`
follows from it, because a refusal tests a counter that is never too low; a single seat is
refused at exactly zero. What is refused in spite of being empty is what groups took off beyond their
persons, and that tourist class has none of it is an invariant of its own (`GroupsAreExecutive`:
such a group is passed over). `OwnersKeepTheirs` and `ErrorsAreAtACall` share the invariant of the
lists: a client with one window is the only one to add to the account, so what an
add may lose (only what came after it began) cannot be hers, and no add to it fails; calls before
`at[r]` are whole, and the call `at[r]` is in a list only from its `EndAdd` on (`MayShow`). After that
one exception is left, that of the account's add (`AddFailsList`), which needs another window of
the client. `ReservationsSaleProofs` assumes `MAX_ACTIVE = 1` and proves the refinement:
the working request's test, copy and write see the same counter (`SerialInv`), and a tourist
counter stays at or above zero because groups in tourist class never reach it. The proof
works with the list of the flight: a reservation is in one flight's list only and holds
its seat once the counter is written.

`SerialBooks` adds the two halves of `BooksBalance` for the request at work: every
reservation in a flight's list but the one being booked is in one account
(`Accounts`), and seats plus what the list took off are the seats of the flight,
but for a reservation whose counter is still to be written (`Counters`, a sum over a list that
`ReservationsAreFew` shows to be finite). How one step changes the list
and the counter is stated once (`StepSeats`) and used for both theorems.

`RouterProofs`. That only dead rows are freed relates what the collector saw when
it got the lock to what it frees many steps later. The invariant says that the list
has a row under change only while the lock is held (`NothingYet`, `VictimIsLocked`),
that the rows still to be collected stay dead (`DoomedAreDead`: nobody may write a row
while the collector has the lock, and the clock only makes rows older) and that what
the advertiser takes out is of the network of its turn (`ReplacedIsOfTurn`). Nothing
about the shape of the list is needed for that, so it holds for any table.

The other invariants are about that shape. `ListInv` says that from `head` the links run through k
different nodes to the end and that all of them are written, except one under the hands of the
holder of the lock; `Walks` that the row a lookup is owed is on this list, and was seen already or
is still ahead of it (`Ahead`), also from a node that has just been taken out. From these follow
`TypeOK` (which says that `Listed`, a recursive function, holds only written rows) and
`NoStayingRowMissed`. For `DirectRoutesStay`, `RawIsDirect` says what a row that is linked but not
yet written is about to be. Two assumptions were added to `ProcessAssumption`: there are finitely
many prefixes and there is an address to look up; both hold of 32-bit addresses. The proof also
showed a case the model had left out: with two interfaces on one network the advertiser takes the
direct route of the first away and installs that of the second, and in between neither is there.
`DirectRoutesStay` now excuses exactly that moment (`Replacing`).

`XmlRpcProofs`. The invariant has a part for each fact about a connection: the counters are
ordered (`Bounds`), a thread in a body or about to parse works on the call its buffer begins with
(`Working`, `Parsing`), answers so far are of earlier calls than the buffer (`InOrder`), and a
client that waits has at most one call open and no byte of a later one on its way (`OneByOne`,
with `FirstUnits` on the cardinality of what `Call` sends). `NothingUnfinishedRuns` needs both
ways into `parse`: all the body has come, or the client is gone and the document has come
(`Parsing`), which later steps cannot undo. `RightAnswers` adds `RightSoFar`: as long as the
connection is alive, the buffer begins where a request begins and every answer so far was the
expected one. Hence emptying the whole buffer is harmless for `client.py`, and for no more than
it. `Refinement` maps `Call` to `Ask`, `Execute` to `Run` and what comes back to `Return`.

`ShopProofs`. The two kinds of key are kept apart by five facts (`Keys`): every entry
leads to a `CompraProd` (`EntriesExist`); a key other than the product's code is
the number of the purchase it leads to (`KeyedByPurchase`); what the code leads to is found
under its number as well (`OwnCodeIsAlias`) and is the latest (`OwnCodeIsLatest`);
nothing is lost but under the code (`Kept`). The second and third give
`ListedIsMarked`, the second and fifth `OnlyOwnCodeCollides`, the fourth `SummaryIsOwn`.

`SubscribersAreNotified` needs that the two sides of a subscription agree (`SidesAgree`:
the vendor's set and the client's map are changed by different calls), and says for every
client and promotion whether it is read or waiting once, or nowhere (`Delivered`).
`StockIsConserved` is a sum over the `CompraProd` objects of a product (`StockLeft`), each of
them of the product it is filed under. `MapsAgree` is made inductive by saying for each of
the four places of a comment who is there (`OfUser`, `OfProduct`, `OfComment`,
`Answered`); answers are later than what they answer, so the recursion of
`EliminoComentarioYHijos` is a recursion over IDs and `RecursiveFunction` applies to `Hilo`.
`NullNeedsAMiss` and `TypeOK` follow from all parts together (`All`): as long as
every answer was offered, only an answer to an answer leaves a NULL in a map, and only the
listing of a product with an unconfirmed purchase reads a pointer that was never written (`Misses`).

Every invariant, action property and refinement that a passing run checks is proved.
Model-checked only: `QueueDrains`, `Converges`, `MainComesBack`, `CallsReturn` and
`ThreadsEnd` (liveness under fairness is out of the prover's reach). The hypotheses
beyond the named assumptions are `NoCycle` (`NeverCounts`), `MAX_FLIGHT > 1`
(`RoutesDescend`) and `MAX_ACTIVE = 1` (`BooksBalance`, `SeatSale`); the runs of those
properties satisfy them.

## What the models found

Each of the first three is a run that expects a violation.

* **A request may be freed while main uses it** (`arp_dangling`).
  `sr_router.c:448-449` against `sr_arpcache.c:302-303`.
* **A group takes one seat too many and opens the class for ever**
  (`reservations_oversold`). `ManejadorCRutasDeVuelo.java:366` passes `numPasaje` after its last
  `++`; the counter jumps from 2 to -1 and the test `== 0` of
  `ControladorRutaDeVuelo.java:288` never refuses again.
* **An answer that is shown cannot be answered** (`shop_reply`). Menu h shows whole
  threads, but `Producto::estaComen` (`Producto.cpp:151`) knows only the first
  level, although the test data answer the answer with ID 2. Asked again and again,
  each refusal leaves a NULL in the product's map, and the next listing of its
  comments ends the program.

Three more have a property but no configuration of their own:

* **An ARP request drops the packets waiting for its sender** (`NothingOrphaned`).
  `sr_handle_arp_packet` ignores what `sr_arpcache_insert` returns at `sr_router.c:520`,
  although `sr_arpcache.h:29-33` says what to do with it.
* **A full table keeps no new mapping** (`InsertedIsMapped`). `sr_arpcache.c:413` against
  `sr_arpcache.c:378` and `:495`.
* **A group in tourist class is confirmed and not booked** (`ConfirmedIsReserved`).
  `ControladorRutaDeVuelo.java:318` stands inside the `else` of line 313, against the
  comment at line 307 and the page's "Reserva realizada con éxito" (`MostrarVueloServlet.java:112`).

And some the models state as what the code does, mostly with no text that says otherwise: a
lookup may stand on a row that is freed (`Misread`); main reads an ended stream for
ever (`EndOfStream`); the server drops requests that were sent ahead (`EmptyBuffer`), and
answers a fault to a header piece that ends inside a character; a request whose client is gone
before the blanks that end its body is executed all the same, because nobody compares what came with
Content-Length (`RecvNothing`); an account's add that fails leaves the seats taken and the
reservation in the flight's list only (`AddFails`); executive seats stay empty and are refused after
a group (`SoldOutIsTrue`); a purchase that
was not confirmed keeps its stock, and the listing of menu j reads its client,
which was never written, be it NULL or wild (`CaeAlListarCompras`); the `CompraProd` of a purchase
whose number is the code of one of its products is lost to the product's later purchases and can
never be sent, against the comment "la clave es el codigo de la compra" of `Producto.h:28`
(`OnlyOwnCodeCollides` says that no other is); menu i deletes a comment of another user
after it has reported that as an error (`EliminarComentario`).

## Not modelled

* **Packet dump, SHA-1, checksums, printing** of the router: data only.
* **Writes to the VNS socket** (`sr_send_packet`, five threads, no lock): a whole
  frame is one `write`, so interleaving needs a partial write.
* **Typed JSON**: pure functions over trees, covered by the course's own tests.
* **Robot controllers**: control laws on floating-point data; their few mode switches
  follow the sensors directly.
* **Airline users, routes, flights, packages**: see the plan.

## Plan

1. `ArpCache`, `RipNetwork`, `Reservations` with their runs and proofs (done).
2. `VnsSession` and `RouterProcess`: the threads of one router (done; open: the snapshot
   a response is built from, socket writers).
3. `XmlRpc` as a refinement of `RemoteCall`, with proofs (done).
4. `ShopSales` and `Shop`, with proofs about the keys (done; open: the date).
5. `Registration`: the airline's test-then-add of users, routes and flights, the states of a
   route, and the packages of routes.
6. Proofs of every safety property of the runs (done).

## Running

    tlc -workers 2 -config ArpCache.cfg MCArpCache            # and ArpDangling.cfg
    tlc -workers 2 -config RipTriangle.cfg MCRipNetwork       # RipConverges.cfg, RipLine.cfg
    tlc -workers 2 -config RouterProcess.cfg MCRouterProcess
    tlc -workers 2 -config XmlRpc.cfg MCXmlRpc
    tlc -workers 2 -config Reservations.cfg MCReservations    # ReservationsSerial.cfg, ReservationsOversold.cfg
    tlc -workers 2 -config Shop.cfg MCShop                    # and ShopReply.cfg
    for m in Recursion ArpCacheProofs RipNetworkProofs RouterProofs XmlRpcProofs \
             ReservationsProofs ReservationsSaleProofs ShopProofs; do tlapm $m.tla; done
