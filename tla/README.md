# Ambrosia in TLA+

A verification development for the ambrosia XMPP server: TLA+ modules translated
from its source, TLC configurations that model-check them on small instances, and
proofs checked by TLAPS. Paths below are paths of the repository.

## The system

One process, one Qt event loop. Every slot runs to its end before the next one
starts, so concurrency is the order in which events arrive: stanzas on many
streams, connections that open, fail and close, and calls that were queued
(`Qt::QueuedConnection`, `QTimer::singleShot`, `deleteLater`).

| Component | State | Operations | Interacts with |
|---|---|---|---|
| Presence manager (`src/main.cpp`) | items with their `dontsend`, directed presence list | broadcast, directed presence, probe, error, subscribe, subscribed | reads and writes rosters; writes stanzas to the router; loops stanzas for local users back into itself |
| Rosters (`src/main.cpp`) | one file per user: entries with `sub`, `ask` | get, set, the subscription handlers, load, save | presence manager, iq dispatch |
| Iq dispatch (`App::router_readyRead`) | none of its own | roster, session, vCard, version | router, user files |
| Router (`src/router.cpp`) | list of sessions; per session: direction, `active`, `ver_id`, pending stanzas | write, connection ready, stanza read, dialback callbacks, session done | streams (calls, signals), App (`readyRead`, `userSessionGone`) |
| Streams (`iris/xmpp-core/stream.cpp`) | protocol object, received stanzas, security layers | connect, accept, read, write, `processNext` | protocol, secure stream, connector |
| Protocol (`xmlprotocol.cpp`, `protocol.cpp`) | step, send list, track queue, dialback lists | `processStep`, `outgoingDataWritten` | parser, stream |
| Secure stream (`securestream.cpp`) | stack of TLS/SASL layers, byte accounting | write, read, layer events | TLS, SASL (`src/qca`), byte stream |
| Connector (`connector.cpp`) | mode, remaining SRV targets, probe state, the socket | connect, done, answers of lookups, socket events | resolvers, sockets, streams |
| Resolvers (`irisnet/legacy`, `netnames.cpp`) | the lookup under way, its timer | resolve, stop | name manager, connector |
| jdns (`irisnet/jdns`) | query records, cache, name servers, packets under way | query, cancel, set name servers, timer and socket steps | `JDnsShared`, the network |

What makes each correct, and hard:

* Presence: a contact sees a user available exactly when the rosters say so and
  the user is there. Three sources of presence (broadcast, probe, the push with a
  grant) meet, two users act in any order, and a lost session is reported after
  it left the table.
* Rosters: two files describe one subscription; handlers of different users write
  them; a crash can fall between any two writes; clients hold a copy kept up by
  pushes.
* Server-to-server: two hosts each wait for the other's answer, stanzas are queued
  meanwhile, sessions of three kinds share one list, and connections fail.
* Streams and protocol: parsed elements, queued writes and written-byte reports
  interleave in one step function; closing is a handshake.
* Secure stream: byte counts are translated through layers that are added midway;
  both ends must change layers at the same place of the stream.
* Connector: answers of lookups that were given up still come; an attempt has many
  ways to end and its user must hear of one.
* jdns: one query serves many requests, follows aliases by a child query, rotates
  over servers that fail and change, and records are freed while others point to
  them.

## Modules

| Module | Models | Status |
|---|---|---|
| `Presence` | `PresenceManager`, rosters, roster iq, client session table | checked; safety proved, part of it for one session of a user at a time |
| `MCPresence` | instances of `Presence` | |
| `PresenceProofs` | theorems about `Presence`: types, requests, grants; with one session of a user at a time: copies of the roster, who sees whom | proved |
| `Link` | abstract: a reliable FIFO link between two hosts | |
| `S2S` | the router's server sessions and dialback on two hosts | checked; refines `Link`; safety and the refinement's steps proved |
| `MCS2S` | instances of `S2S` | |
| `S2SProofs` | theorems about `S2S`: types, one outbound session, flushed queues, no stanza delivered twice | proved |
| `S2SAgreement` | theorems about `S2S`: the two ends of a dialback agree on its result; with one sender its steps are those of `Link` until a connection fails | proved |
| `XmlStream` | `processNext`, `BasicProtocol::doStep` and `XmlProtocol` at both ends of an open stream | checked; safety proved |
| `XmlStreamProofs` | theorems about `XmlStream`: types, accounting of bytes, no lost wakeup, order and loss | proved |
| `SecureStream` | the stack of layers and its byte accounting | checked and proved as part of `Login` |
| `Login` | the server's negotiation with a client, over `SecureStream` | checked; safety proved |
| `LoginProofs` | theorems about `Login`: types, accounting of bytes, names, agreement of the layers | proved |
| `Connector` | `AdvancedConnector`, `SrvResolver`, `NDns`, `BSocket`, late answers of the name manager | checked; safety proved |
| `MCConnector` | instances of `Connector` | |
| `ConnectorProofs` | theorems about `Connector` | proved |
| `Jdns` | the unicast resolver of `jdns.c` | checked; safety proved |
| `MCJdns` | instances of `Jdns` | |
| `JdnsProofs` | theorems about `Jdns`: types, nobody is forgotten, every server is asked | proved |
| `SequenceFacts` | lemmas about sequences and numbers the proofs share | proved |

### Presence

`sess[u]` is the list of u's sessions in the order of the router's list; the
record of a session holds what its client knows: the jids it was last told
available, its copy of the roster, and what it broadcast. `roster` is what is on
disk (`NoEntry` for no entry), `items` and `dplist` are the lists of
`PresenceManager`. `orphans` counts the items that `sess_done` makes for the empty
jid. `rsees`, `pushed` and `severed` are history: what a remote contact was last
told, which presence was handed over with a grant, and which links were cut.

A handler is one action. What it sends to a local user loops back into
`incomingFromOutside` within the same call, so the action contains it:
`ClientSubscribed` carries the local contact's `OutsideSubscribed`, and a
broadcast carries the `ProbeReply` of every probed contact. The order inside a
handler is the code's: a grant is saved and forwarded, the contact's handler saves
and pushes its entry, and only then does the outer handler push the item it copied
before (main.cpp:566-582). The contact may be the user itself: nothing in the code
keeps a user out of its own roster. A stanza is a record
`[from, to, type]`; "to" is a node because `sessionForUser` looks at nothing else.
`Login` inserts a session anywhere in the list, because a session enters the
router's list when its connection is accepted and gets its jid later. `Restart`
is a crash at any point: every roster file is as it was, or the grant was saved and
nothing else done, or the file was truncated and not written.

Bounds: `MaxSessions` sessions per user, `MaxOrphans` lost last sessions between
two restarts, `Contacts` (whose entries the clients edit, request or send directed
presence to) and `DirectedTo` (the targets of directed presence). The last two only
keep an instance small; the proofs are for any of them.

### Link and S2S

`list[h]` is the router's list of server sessions on host h. A connection is a
pair of FIFO channels (`wire`), numbered by `conns`; the number also stands for
the stream id. `Write` is `Router::write`; `Receive` hands the next message of a
stream to its session: `InOpen`, `dialbackRequest`, `dialbackVerifyRequest`,
`StanzaReceived` and `InGone` on the accepting side, `OutOpen`, `dialbackResult`,
`dialbackVerifyResult` and `OutGone` on the connecting side. `ConnectFailed` and
`Break` are the failures: each end of a broken connection sees a prefix of what
was under way, or nothing, and then a close or an error. The key is the constant
"123" in the code and is left out.

Bounds: `MaxStanzas` per host, `MaxConns` connections, `MaxBreaks` failures.

`Link` says what a host promises another: stanzas arrive once, in order, and if
nothing fails all of them do. `ImplementsLink` maps `sent` and `got` onto it.

### XmlStream

Both ends of one connection, from ready to reset: an end in client mode and one in
server mode, which share `processNext` but not its cases. `processNext` is a loop
of protocol steps; "running" names the end whose loop is going on and one action is
one step (`Step`), so that what a step does to the parser, the send list and the
track queue is visible between two steps. The events that start the loop are
actions: the call posted by `write()` (`RunPosted`), data (`ReadyRead`), a report of
any number of written bytes (`BytesWritten`), `close()`, `writeDirect()`, the queued
`doReadyRead`, the end of the connection. An element is a kind and a number; its
size only lets its bytes be reported in portions. Malformed text makes the other
end fail and answer with a stream error.

### SecureStream and Login

`SecureStream` is operators on a record: the layers, what each of them still has to
report (`LayerTracker`, `prebytes`), and the socket's buffer. `Sums` are the partial
sums of a list, `Covered` the number of its first items that n bytes cover, which is
where the loop of `LayerTracker::finished` stops. `Login` holds that
record and drives it: `ReadOpen`, `ReadStartTLS`, `ReadHandshake`, `ReadAuth`,
`ReadResponse`, `ReadBind`, `ReadAuthGet`, `ReadAuthSet` are the server's answers to
what a client sends, in the order of `CoreProtocol::normalStep`, with the features
it offers in each state. The client and the provider of SASL mechanisms are
external: a client that follows the protocol and chooses among what is offered, a
provider that takes some challenges and accepts or refuses. What is written carries
the layers it was written through, so the model sees when the two ends disagree
about them; it also carries how many bytes of it have left.

### Connector

One record for `AdvancedConnector::Private`, one for the resolver, the state of the
socket, and the set of lookups the name manager has not answered, each with the
number of its attempt. `stop()` and the destructor of `NameResolver` do nothing
(netnames.cpp:800-816), so a lookup that was given up is answered all the same:
`LateAnswer` says what the answer hits, a freed object or another attempt, and then
`fault` ends the behaviour. `Before`, `TakenBefore` and `SortSRVList` are
the order of `sortSRVList`.

Bounds: `MaxRecords` in an SRV answer, `MaxPriority` values of priority and weight,
`MaxAttempts` attempts.

### Jdns

Query records are numbered in the order of creation and stay in `qs` when they are
deleted, so that a pointer to one that is gone is a number that is not in `live`;
using it is a fault. The code's list of queries is `live` in the order of the numbers.
`TimerStep` is one pass of the event loop (`jdns_step`, `_unicast_do_writes`) for a
query whose timer has run out: cache, give up, next server. `Reply` is a packet that comes in, at any time, for a query that
may be gone (`_unicast_do_reads` to `_process_response`); `Query`, `Cancel`,
`SetNameservers` are the calls; `Expire` is time passing in the cache. Packets are
lost by not being answered and repeated by being answered again.

`untold` is history: the queries whose child gave up, which tells its parent nothing
(jdns.c:1767). `_intarray_remove` decrements the pointer to the count, not the count
(jdns.c:576-594): the new size of an array is read from what lies before its count, and
an array that is "shrunk" to 0 is freed and goes on to be used. `Cancel` (the size is
the id of the query) and `SetNameservers` (it is half of the pointer to the servers
tried) have both outcomes, and a freed array is a fault.

Bounds: `MaxQueries` records, `MaxChanges` changes of the servers, `GiveUpStep`
transmissions (8 in the code).

Definitions whose comment begins with "Mutation" are not part of the models: each
is a plausible mistake in the definition it stands before, and every property is
shown to fail under one of them.

## Runs

| Run | Instance | What it shows |
|---|---|---|
| `presence_local` | two local users, each the other's contact, one resource, one session each, directed presence to bare jids, one orphan | all properties of `Presence` but `SubscriptionGrows`, over every order of asking, granting, announcing, leaving, editing and crashing; 933 thousand states |
| `presence_remote` | one local user with two sessions of one resource, one remote contact with a bare and a full jid | the same towards another host; probes from bare and full jids, errors; subscriptions only grow; 537 thousand states |
| `presence_lost` | as local, no directed presence | violated: a lost connection leaves the user's presence (TODO:4) |
| `presence_grant_ghost` | as local, no directed presence | violated: presence pushed with a grant is never withdrawn |
| `s2s_link` | one sender, 6 stanzas, 2 connections, no failure | the sessions implement `Link` |
| `s2s_both` | both send 2 stanzas, 4 connections, 1 failure | agreement of the two ends, at most once, every exchange ends; 711 thousand states |
| `s2s_lost` | both send 1 stanza, no failure | violated: a stanza queued on a verify session is lost |
| `xml_stream` | the client writes 2 stanzas, the server 1, one malformed text or failed socket | bytes are credited exactly, no event is missed, order, bounded loss, both ends come to an end; 607 thousand states |
| `login` | TLS at once, on request or never; SASL of up to 3 challenges or iq:auth; 3 stanzas after it | written bytes are reported exactly through every change of layers, the two ends change at the same place, every login ends; 8 thousand states |
| `connect` | up to 3 SRV records with 2 priorities and weights, 2 attempts | one report per attempt, targets in order, the SSL flag, what late answers can do, every attempt ends; 1.7 million states |
| `dns` | 2 requests for 2 names that are aliases of each other, 2 servers, one change of the servers, 3 transmissions | nobody is forgotten, the rotation leaves no server out, every lookup ends but those whose alias was given up; 262 thousand states |
| `dns_null` | one request, 2 servers, 4 transmissions | violated: a query finds no server left |

Why the bounds are enough. Presence: each pair of a user and a contact is
independent of the others except for the loopback, which involves two users; two
local users and their entries for each other cover it, the remote contact covers the
other branch of `forThisHost`. A user that is its own contact is left to the proofs,
which are for any `Contacts`; before they were written, an instance of one user, its
own contact, with a remote contact and directed presence to itself (`Contacts` all
of `Users \X Names`, 397 thousand states) was checked for `ClientRosterInSync`,
`NoGhost` and `OnlyAuthorisedLearn`. Together with a second user it is too large for
TLC. The second session matters for `userSessionJid` alone and is in
`presence_remote`. `ClientRosterInSync` and `SubscribersSeePresence` are stated for
one session per user: everything for a user goes to the first session of the list,
so a second one has no part in them (the code knows: TODO:3). S2S: two outbound and
two verify sessions are the whole exchange of two hosts; with one failure a fifth
connection would only repeat it. `Link` needs more stanzas than the queue holds at
activation, and 6 gives every split of queued, flushed and directly written ones.
XmlStream: two stanzas one way and one the other let a received element meet a
queued send, and one trouble ends the stream; a second would meet a stream that is
already closing. Login: the layers are bounded by the code (one TLS, one SASL),
three challenges are more than the two in which every branch is taken, and one
stanza is enough to be under way at each change. Connector: a third record only
matters for the order of targets, which it is there for; a second attempt is the
only one a late answer of the first can meet. Jdns: aliases of each other give
chains of any length (a child and a parent, a child that is a parent's own name);
two servers give a round that is cut short by a failure or a change, and with one
more transmission than servers the second round begins.

`TypeOK` and `SubscriptionGrows` are proved for every instance; the first is checked in
`presence_local` alone, the second in `presence_remote`.

Fairness. `S2S` assumes weak fairness of each host's event loop
(`Progress(h)`: connect or receive): Qt's loop handles an event that is there, and
TCP completes a connection that is not refused. Users are not assumed to send.
`Presence` states no liveness: every handler runs to its end in one action.

`XmlStream` assumes that some event that is there is handled: reports of written
bytes and data come when the socket has them, posted calls and timers run. Nobody
is assumed to write or to close. `Login` assumes weak fairness of the server's
reads and of the client's steps, and of the socket's writes (`SocketRuns`, which is
weak fairness with its enabling condition written out, because evaluating ENABLED
of that step is slow in TLC): a client that has connected goes on with its login,
which is what a login that ends is about. `Connector` assumes that the
15 second timer goes off, that addresses are answered and sockets connect or fail;
an SRV answer is not assumed. `Jdns` assumes only its timer: no packet need ever
be answered.

`s2s_link` does not repeat the type invariant of `S2S`, which `s2s_both` checks on the
larger instance.

Deadlock is checked in the runs of `Presence`. The other runs stop when their
bounded users have done everything, or in a fault, so it is off there.

## Findings

* `presence_lost`: `Router::Private::sess_done` removes the session before it emits
  `userSessionGone`; the handler then asks the router for the jid of the user's
  session and gets none, or that of another session. The user stays available for
  its contacts. TODO:4 says a lost connection is handled as unavailable.
* `presence_grant_ghost`: on a grant the asking user's presence is pushed to the
  granting contact although the contact need not be subscribed to it; broadcasts
  go to from/both only (main.cpp:774), so it is never withdrawn. `NoGhost` states
  what does hold: these are the only ghosts besides cut links.
* `s2s_lost`: `ensureOutbound` takes any outbound session, a verify session
  included; what is queued there dies with it.
* `dns_null`: when a round over the servers has begun and the ones not yet asked
  have failed, or the list was changed, no server is left; `ns` is null and is
  handed on (jdns.c:1813). The comment at jdns.c:1797 says this is not possible.

Met while modelling and kept in the models, where a property says what does hold:

* A received element that is parsed in the step in which a queued stanza is sent is
  dropped (protocol.cpp:548). `InOrderAndLossBounded` bounds the loss by what the
  receiver sends.
* A mechanism that ends in its first step (PLAIN) never has its check passed on, and
  its session has no name (qca.cpp:1290). `Announced` says so.
* `starttls` is offered when there is no certificate; asking for it then ends the
  program (`crashed` in `Login`).
* A late answer of a lookup that was given up reaches a freed object or another
  lookup. `LateAnswers` says when.
* A child query that gives up does not tell its parent, which then waits for ever,
  and cancelling it reads the child that is gone (jdns.c:1258, 1767).
  `Served` and `EveryLookupEnds` except those lookups, by name (`untold`), and no others.
* `_intarray_remove` takes the new size of an array from the wrong place and may free the
  array of a query's requests or of the servers that failed it (jdns.c:576-594, 740-751):
  the fault `freed_array`, in which a behaviour of `Jdns` ends.
* A user that grants its own request has `both` and no `ask` on disk, while the last
  push to its client says `from` and `ask="subscribe"` (main.cpp:566-582).
  `ClientRosterInSync` excepts that entry, in that state, and nothing else.

## Proofs

`PresenceProofs` proves, for every set of users, contacts and resources and every
bound, from `PresenceAssumption` alone:

* `TypeCorrect`: `Spec => []TypeOK`. `TypeOK` is inductive; there is one lemma per
  action, on top of lemmas about the list of sessions (`InsertAtType`,
  `RemoveAtType`, `FirstReplaced`) and about what handlers write (`WriteAllType`,
  `BroadcastWritesType`, `ProbeReplyType`).
* `AskOutstanding`: `Spec => []AskInv`, inductive relative to `TypeOK`. Its core is
  `RosterStep`: every step, a restart included, changes an entry by one of seven
  operators; `ChangesKeep` shows what those keep.
* `SubscriptionsGrow`: `Spec => SubscriptionGrows`, from the same two lemmas.
* `GrantsAreMutual`: `Spec => GrantIsMutual`, by cases on the action (`StepGrant`):
  "to" is gained through `Accepted` only, and for a local contact that happens only
  inside the grant of the other user.

It also proves, from `PresenceAssumption` and `OneAtATime`
(`MaxSessions <= 1`), four properties that relate two users, their rosters and what
their clients were told:

* `CopiesInSync`: `Spec => []ClientRosterInSync`, from `OneEach` and `InSync`.
  `GrantSync` is the step that matters, a grant with the contact's handler nested in
  it: two files and two copies change in the order save, save, push, push. The last
  push is of an item copied before the nested call; `LatePush` shows that it can be
  behind the disk only when the contact is the user itself.
* `GhostsAreHeld`: `Spec => []NoGhost` and `AuthorisedLearn`:
  `Spec => OnlyAuthorisedLearn`, from `LInv`: what a session sees is held by an item, a
  directed presence, a grant's push or a cut link (`SeenIsHeld`), and a contact is left
  out of a broadcast only when its link was cut (`DontSendSevered`). `SightOf` bounds
  from above what a list of stanzas can show.
* `SubscribersSee`: `Spec => []SubscribersSeePresence`, from `SInv`. `ToWasGranted`
  excludes a `to` without its `from` where no link was cut; `SaidIsAvail` ties what a client said to the item that answers
  probes. `Shows` bounds from below what a list of stanzas shows.
* The hypothesis is a real restriction, not a convenience: everything for a user goes
  to the first session of the list. TLC finds `ClientRosterInSync` violated by two
  sessions of each of two local users (an older session, whose copy missed the pushes,
  is first again when the newer one goes), and `NoGhost` violated by two resources and
  two sessions (directed presence is recorded for the jid of the first session but
  written with the jid of the sender). `presence_remote` checks `NoGhost` and the roster
  properties for two sessions of one resource.

`ConnectorProofs` proves, for any targets, records and attempts, from
`ConnectorAssumption`:

* `ReportsOnce`: `Spec => []OneReport`; `FlagMatchesPort`: `Spec => []SslMatchesPort`;
  `LateOnlyWhenGivenUp`: `Spec => []LateAnswers`.
* All three follow from one inductive invariant, `IInv`. `Phase` and `Waiting` say
  what the connector waits for in each mode: in an attempt that goes on, exactly one
  lookup or the socket. Without them an answer could be taken twice. `Heard` counts
  the reports, `Ports` ties the SSL flag to the port through the probe and the
  fallback, and `GivenUp` says that a lookup nobody awaits was given up. `NextLookup`
  is the common step: an attempt that goes on with one more lookup.
* `TypeCorrect`: `Spec => []TypeOK` and `TargetsTried`: `Spec => []TargetsInOrder`,
  from `Order`, inductive relative to `IInv`: the targets that were tried are the first
  of the sorted answer, those in `servers` are the rest, and nothing is left when an
  attempt has failed. `SortedOnce` is about `sortSRVList` itself, for lists of any
  length: it returns the records it was given, each at one place. The code takes the
  first of the least records again and again; in the model a record's place is the
  number of records that are taken before it (`TakenBefore`, a strict linear order), so
  that this is a fact about finite sets and needs no induction.

`S2SProofs` proves, for any number of stanzas, connections and failures, from
`S2SAssumption`:

* `TypeCorrect`: `Spec => []TypeOK`. What makes it inductive is that stanzas on the
  wire have numbers in range (`Message`).
* `OutboundIsOne`: `Spec => []OneOutbound` and `ActiveIsFlushed`:
  `Spec => []ActiveHasNoPending`, from `Good`, which is kept by everything that
  happens to a list: a session replaced, appended, removed, validated
  (`GoodReplaced`, `GoodAppended`, `GoodRemoved`, `GoodValidated`).
* `DeliveredOnce`: `Spec => []NoDuplicates`. `NoDuplicates` only speaks of what was
  taken; the inductive invariant `DInv` says where each stanza is:

  * `Apart`: a stanza is in one place at most, the queue of a session (`Queued`), a wire
    that a session of the other host reads (`OnWire`) or the other host (`Took`), and
    none is anywhere that was not sent.
  * `SingleQueue`, `SingleWire`, `SingleGot`: it is there once.
  * `Numbered`: a connection has one session on the side that made it, and the other side
    only accepts it. Without this a flush could be of one queue onto another's wire.

  Most handlers move no stanza forward (`Quiet`): they keep, drop, or empty sessions
  (`Inherits`, `Drains`) and shorten or lengthen wires by what is no stanza
  (`Thinner`). Three do: a write (`OneNew`), the flush on the dialback result
  (`Flush`), and the other host's reading (`Take`).

`S2SAgreement` proves, from the same assumption, that the two ends of a dialback agree,
which is a fact about two hosts, the two channels between them and a third connection
on which the proof is asked for:

* `ActiveAgrees`: `Spec => []ActiveIsValidated` and `ValidatedAgrees`:
  `Spec => []ValidatedWasAsked`.
* Lists and channels are looked at as sets (`Sessions`, `Way`): who accepts a
  connection, who dials it, who asks about it, what is under way on it. `AInv` has a
  part for each way the agreement could fail. `OneAcceptor`, `DialledIsNew` and
  `NumbersAreNew`: a connection that is not yet accepted has no answers and nobody
  writing through, or an answer could meet the wrong session. `GrantedIsProven` and
  `LiveIsProven`: a grant under way, and a session that writes through, face a validated
  session; the second rests on the first, and on nothing taking validation back.
  `OutboundAsks`: only an outbound session's connection is ever asked about, so a verify
  session is never validated. `ProvenIsTold`: for a validated session the grant is under
  way or was taken, or the stream is ending or over.
* Most handlers are `Calm`, they bring nothing of this about, and `Faithful`, they end
  no session that writes through without its stream (`CalmKeeps`). The others have
  lemmas of their own: a new connection (`FreshAgrees`), its acceptance
  (`ConnectedAgrees`), the opening (`OpenAgrees`), the grant being taken (`GrantAgrees`),
  the verify answer that sends it (`VerifiedAgrees`) and a failure (`BreakAgrees`).

It also proves the safety of the refinement that `s2s_link` checks, for one sending
host (`OneSender`) and any number of stanzas, connections and failures:

* `LinkKept`: the initial states are the link's, and until a connection fails every
  step is a step of `Link` or leaves it alone. `LinkImplemented`: with `MaxBreaks = 0`
  this is `[][Next]_vars` of `Link`, whole. `OneSender` is needed: with two senders a
  stanza can be lost on a verify session without any failure (`s2s_lost`).
* `LInv` says what the network is while nothing has failed: `Idle`, or `Running` with
  one outbound session, on connection 1, in one of six stages (`Dialling`, `Greeting`,
  `Greeted`, `Asking`, `Awaiting`, `Sending`). Up to the grant every stanza sent is in
  its queue in order (`Counted`); afterwards exactly those that were not taken are on
  the wire in order (`Train`). `Kinds`, `NoTrain` and `AskedLate` keep the verify
  connections, which come and go beside it, from carrying a stanza or answering a
  request that was not read.
* Before it was proved, `LInv` and the step property were checked by TLC with 3
  stanzas, 4 connections and 1 failure. The proof splits the steps into those elsewhere
  (`ElsewhereKeeps`) and those of the sender's connection (`OneKeeps`); `MovesOfLink`
  maps the latter to `Send` and `Deliver` of `Link`.

`XmlStreamProofs` proves the safety of `XmlStream`, for any number of stanzas, sizes
and troubles:

* `TypeCorrect`: `Spec => []TypeOK` and `BytesAreAccounted`:
  `Spec => []BytesAccounted`, from `AccInv`. `StepKinds` and `EventKinds` reduce the
  protocol's steps and the events to record updates (`Sending`, `Crediting`,
  `Closing`...), so that later proofs need not open the actions again. `Divides` is
  the core: a report of any size splits the track queue into credited items and the
  rest, the first of which may be begun.
* `WakesUp`: `Spec => []NoLostWakeup`, from `WaitInv`: a stream whose loop is not
  running is `Asleep`, that is, what it still has to do waits for an event it asked
  for, for a posted call, or for the timer.
* `OrderKept`: `Spec => []InOrderAndLossBounded`, from `FlowInv`. What an application
  wrote and the other has not been given is one sequence, the `Pipe`: the receiver's
  stanzas, its parser, the wire and the sender's list. `Part(q, p, k)` says that p is q
  with at most k stanzas missing and none moved; joining, taking and losing an element
  of the pipe keep it. A stanza is dropped only in the step that sends one of the receiver's own,
  and each such step uses one of those up; `Heeds` excludes the other place where one
  could be dropped, the announcement of stanzas written.

`JdnsProofs` proves the safety of `Jdns`, for any aliases, requests, kinds of reply
and bounds, and any finite set of servers, from the assumptions of that module:

* `TypeCorrect`: `Spec => []TypeOK`; `NobodyForgotten`: `Spec => []Served`;
  `RotationComplete`: `Spec => []EveryServerAsked`.
* All three follow from `JdnsInv`. `Pointers` bounds the pointers of all records, of
  deleted ones too, and says that an alias is followed one step from a query that has
  no parent. `Kept` holds for each query that is alive; a part of it is that an inactive
  query serves nobody and has no parent. `Linked` says that a query's timer runs, or it
  has a child that is alive, or it is `untold`, and that a child that is alive points
  back; without the second half the report of a child could be taken by another query.
  `Listened` says that an open request is in the list of a query that is alive.
* What `NobodyForgotten` comes down to is that no handler deletes the child of a query
  that stays, without telling it, but the one that gives up: `WipedGood` and
  `DeletedGood` ask that the parent of what goes is gone too, or is the query at work.
  `BecomeUntoldInv` is the step that gives up.
* What the handlers do is proved on the record of a session, so that a handler that
  calls others is a chain of lemmas: `PutGood` and `WipedGood` for a query that is
  changed, `DeletedGood` and `AddedGood` for one that goes or comes, `FollowAliasGood`,
  `AnsweredGood`, `TellParentGood`, `ProcessResponseGood`, `AbandonGood`. `Good(s, x)`
  excepts one query from `Linked`, the one a handler is at work on. `BecomeInv` takes
  the result back to the variables.
* The rotation is a matter of counting: `Paced` says that while the list of servers
  is unchanged, a query has been sent to each server it tried or saw fail, that in its
  first round it tried as many as it sent packets, and that after it every server was
  asked. `ServerCount` relates the length of the list to the cardinality of the set;
  `SentKept` is the step in which the last server of the round is chosen.
* `TypeOK` bounds `ntried` by the packets sent (`step`), which each handler keeps by
  itself.

`LoginProofs` proves the safety of `Login`, for every size of an element, every
overhead of TLS and of SASL, any number of challenges and stanzas, from
`OverheadAssumption`, `ElementAssumption` and `BoundsAssumption`:

* `TypeCorrect`: `Spec => []TypeOK`; `BytesReported`: `Spec => []WritesReported`;
  `NamesAnnounced`: `Spec => []Announced`; `LayersAgree`: `Spec => []SameLayers`.
* All follow from `LoginInv` (`PhasesKept`), which TLC checked first. It has two
  halves: `Accounted(ss)`, about bytes, and the phase of the protocol.
* Sums of lists of any length are defined by recursive functions, whose values the
  provers know nothing of. `SumsStep` shows that such a function exists, by the least
  length for which there is none; `SumsRise`, `TotalRest`, `TotalAppend` and
  `CoveredFound` are what the accounting needs of sums.
* `Accounted` says which shapes a stack of layers has. A `Settled` stack is `Bare`,
  `Single` or `Double`: each layer has one item for each entry of the buffer, of the
  same bytes. While TLS is `Shaking` hands, what it sends counts for nothing. And a
  layer that was just put in place knows nothing of the element under way beneath it
  but its bytes: `BegunOnSocket` (`<proceed/>`, or `<success/>` without TLS) and
  `BegunOnTLS` (`<success/>` under TLS, whose bytes are an item of the layer below).
  There is never more than one element then, and nothing is written until it has
  left: without that the bytes of a later element could be taken for `prebytes`.
* A report of any size passes up through such a stack and gives what has left
  (`SocketWrote_Accounted`); a write (`SSWriteSettled`) and a new layer (`LayerPut`)
  keep the accounting.
* The phases say whose turn it is: `Begins`, `Opens`, `Chooses`, `Secures`,
  `Authenticates`, `Finishes`, then `Online` or `Ended`. What is on its way to the
  client is `Coming`: what it has not read, and what the buffer still carries.
  `SameLayers` compares the layers of what is on its way with those of the reader,
  so each phase says under which layers that is. `UserKnown` ties the user's name to
  the mechanism, which `Announced` needs.
* `UserKnown` had to be strengthened for the proof: a connection that is under TLS
  from the start has TLS at the client's end from its first step on. Without it a
  client could ask for TLS a second time.

Every invariant that a passing run checks is stated by a theorem. Only
model-checked are the liveness properties: `Settles`, `BothEnd`, `LoginEnds`,
`AttemptEnds`, `EveryLookupEnds`, and the liveness part of `ImplementsLink`. Liveness
under fairness is out of the prover's reach.

## Not modelled

* Names, groups and vCards, which move through the user file unchanged; XML text,
  encodings and stringprep (a jid is a pair, comparison is equality); the tables of
  libidn, which are a third of the repository's lines and hold no state.
* Failures of the file system other than a crash; unsubscribing, which the code
  ignores; the session, vCard and version iqs, which have no state.
* The proxies: their branches in the connector are commented out. The multicast half
  of jdns and the services of netnames, which the server never starts; the format of
  DNS packets.
* The client's half of `CoreProtocol::normalStep`, of TLS and of SASL: the server's
  own outgoing streams use dialback, which is in `S2S`; a client appears in `Login`
  as an external actor.
* Certificates, ciphers and hashes (QCA's providers); the Qt 3 classes carried along
  in `src/qtcompat`; the network interface plugins; the test programs.

The map covers the code that decides something. Most of the rest of the repository
is data tables, packet formats, vendored classes and client code.

## What is left

Proofs: four properties of `Presence` and the refinement of `Link` are proved under a
hypothesis, one session of a user at a time and one sending host. For the first TLC has
counterexamples without it; for the second, what holds with two senders is what
`NoDuplicates` and `ActiveIsValidated` say.

Models: the client's half of the negotiation, the closing of TLS, and the multicast
half of jdns.
