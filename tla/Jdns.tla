-------------------------------- MODULE Jdns --------------------------------
(***************************************************************************)
(* The unicast resolver of jdns.c: one session, which is one network       *)
(* interface of JDnsShared, asking several name servers over UDP.  A       *)
(* lookup is a query record that any number of requests listen to.  It is  *)
(* retransmitted to one server after the other until one answers, until    *)
(* all of them answered with an error, or until it gives up; an answer     *)
(* that is only an alias suspends it and starts a child query for the      *)
(* alias.                                                                  *)
(*                                                                         *)
(* A name stands for a name with a record type.  Query records are named   *)
(* by the order of their creation, which is also their order in the list   *)
(* of the session: the list is the set of their numbers.  A pointer to a   *)
(* deleted record is a number that is no longer in the list: using it is   *)
(* undefined in C and ends the behaviour here with a fault.  Packets are   *)
(* written at once (the socket never refuses one) and may be lost, delayed *)
(* or answered more than once.  Time is not counted: a running timer may   *)
(* go off at any moment.  A request is a handle of JDnsShared, which takes *)
(* the first event of a handle and ignores what comes later.               *)
(***************************************************************************)
EXTENDS Naturals, FiniteSets, Sequences, SequencesExt

CONSTANTS
    Names,      \* names looked up
    Alias,      \* Alias[n]: the name a CNAME record of n points to
    Requests,   \* lookups the program asks for
    Servers,    \* addresses of name servers
    Replies,    \* kinds of reply the servers give
    Lasting,    \* the replies with a time to live other than 0, which are cached
    GiveUpStep, \* transmissions before giving up: 8 in the code
    MaxQueries, \* bound: query records created
    MaxChanges  \* bound: changes of the list of name servers

ASSUME NamesAssumption == Alias \in [Names -> Names]
ASSUME RepliesAssumption ==
    Lasting \subseteq Replies /\ Replies \subseteq {"answer", "nxdomain", "cname", "error"}
ASSUME ServersAssumption == IsFiniteSet(Servers)
ASSUME BoundsAssumption == {GiveUpStep, MaxQueries, MaxChanges} \subseteq Nat

None == 0
MaxChain == 16
Inactive == GiveUpStep + 1

VARIABLES
    servers,    \* s->name_servers, in order
    qs,         \* the query records ever created
    live,       \* s->queries: the records that exist, in the order of their ids
    cache,      \* s->cache: per name the answer of its own type and the CNAMEs
    net,        \* packets sent: a server may answer each at any time
    answer,     \* what the owner of each request knows
    fault,      \* how the program failed, if it did
    changes,    \* changes of the list of name servers
    untold      \* history: the queries whose child gave up without telling them

vars == <<servers, qs, live, cache, net, answer, fault, changes, untold>>

Outcomes == {"success", "nxdomain", "error", "timeout"}

(***************************************************************************)
(* Query records.  step is Inactive for the code's -1; timer: time_start   *)
(* is not -1; asked: a packet id is assigned; ntried: the code's count of  *)
(* servers_tried, which need not be the number of servers listed.          *)
(***************************************************************************)
NewQuery(name) ==
    [name |-> name, reqs |-> <<>>, step |-> 0, timer |-> TRUE, asked |-> FALSE,
     tried |-> {}, ntried |-> 0, failed |-> {}, trycache |-> TRUE,
     chain |-> 0, parent |-> None, child |-> None]

Gone == [NewQuery(CHOOSE n \in Names : TRUE) EXCEPT !.timer = FALSE]

\* The part of the state the handlers pass on.
Session == [qs |-> qs, live |-> live, answer |-> answer, fault |-> fault]

Exists(s, id) == id \in s.live

Added(s, q) ==
    [s EXCEPT !.qs = Append(@, q), !.live = @ \cup {Len(s.qs) + 1}]

Deleted(s, id) ==
    [s EXCEPT !.qs[id] = Gone, !.live = @ \ {id}]

\* Every request listening gets the event; its owner takes the first.
Report(s, id, outcome) ==
    [s EXCEPT !.answer = [r \in Requests |->
        IF r \in ToSet(s.qs[id].reqs) /\ @[r] = "open" THEN outcome ELSE @[r]]]

\* The parent's requests are told, and the parent deleted.
TellParent(s, id, outcome) ==
    LET p == s.qs[id].parent
    IN  IF p = None THEN s
        ELSE IF Exists(s, p) THEN Deleted(Report(s, p, outcome), p)
        ELSE [s EXCEPT !.fault = "deleted_query"]

Answered(s, id, outcome, parentOutcome) ==
    Deleted(TellParent(Report(s, id, outcome), id, parentOutcome), id)

-----------------------------------------------------------------------------
(***************************************************************************)
(* Replies                                                                 *)
(***************************************************************************)
AllErrored(q) == ToSet(servers) \subseteq q.failed

\* Mutation: the link to the child is not made.
SuspendedLoose(q, child) == [q EXCEPT !.timer = FALSE, !.asked = FALSE]

\* A lookup that follows an alias sends nothing and handles no response.
Suspended(q, child) ==
    [q EXCEPT !.child = child, !.timer = FALSE, !.asked = FALSE]

\* Mutation: a child that meets another alias gets a child of its own.
FollowAliasNested(s, id) ==
    LET q == s.qs[id]
        next == [NewQuery(Alias[q.name]) EXCEPT !.chain = q.chain + 1, !.parent = id]
    IN  [Added(s, next) EXCEPT !.qs[id] = Suspended(q, Len(s.qs) + 1)]

\* A child that meets another alias hands its parent on to a new child, and
\* falls through to the report of a success, which deletes that parent.
FollowAlias(s, id) ==
    LET q == s.qs[id]
        new == Len(s.qs) + 1
        next == [NewQuery(Alias[q.name]) EXCEPT
                    !.chain = q.chain + 1,
                    !.parent = IF q.parent = None THEN id ELSE q.parent]
    IN  IF q.parent = None
        THEN [Added(s, next) EXCEPT !.qs[id] = Suspended(q, new)]
        ELSE IF ~Exists(s, q.parent) THEN [s EXCEPT !.fault = "deleted_query"]
        ELSE Answered([Added(s, next) EXCEPT !.qs[q.parent].child = new],
                      id, "success", "success")

ProcessResponse(s, id, reply) ==
    LET q == s.qs[id]
    IN  CASE reply = "error" ->
                IF AllErrored(q) THEN Answered(s, id, "error", "error") ELSE s
          [] reply = "nxdomain" -> Answered(s, id, "nxdomain", "error")
          [] reply = "cname" ->
                IF q.chain >= MaxChain THEN Answered(s, id, "error", "error")
                ELSE FollowAlias(s, id)
          [] reply = "answer" ->
                IF q.child # None THEN s ELSE Answered(s, id, "success", "success")

\* A second CNAME is added beside the first, an answer of the name's own type
\* replaces what was there.
Cached(name, reply) ==
    CASE reply = "nxdomain" -> [cache EXCEPT ![name].own = "nxdomain"]
      [] reply = "answer" ->
            [cache EXCEPT ![name].own = IF reply \in Lasting THEN "answer" ELSE "none"]
      [] reply = "cname" ->
            [cache EXCEPT ![name].own = "none",
                          ![name].cnames = IF reply \in Lasting /\ @ < 2 THEN @ + 1 ELSE @]
      [] reply = "error" -> cache

\* What the cache makes of a lookup: two CNAMEs are not "only a cname".
FromCache(name) ==
    CASE cache[name].own # "none" -> cache[name].own
      [] cache[name].own = "none" /\ cache[name].cnames = 1 -> "cname"
      [] cache[name].own = "none" /\ cache[name].cnames = 2 -> "answer"
      [] OTHER -> "none"

\* Replies to a deleted query are dropped, so its packets are not kept.
Become(s) ==
    /\ Len(s.qs) <= MaxQueries
    /\ net' = {p \in net : Exists(s, p.query)}
    /\ qs' = s.qs
    /\ live' = s.live
    /\ answer' = s.answer
    /\ fault' = s.fault

\* A packet from a known server is matched by its id with a query.
Reply(p, reply) ==
    LET q == qs[p.query]
        failing == [Session EXCEPT !.qs[p.query].failed = @ \cup {p.server}]
    IN  /\ fault = "none"
        /\ Exists(Session, p.query) /\ q.asked
        /\ p.server \in ToSet(servers)
        /\ cache' = Cached(q.name, reply)
        /\ Become(ProcessResponse(IF reply = "error" THEN failing ELSE Session,
                                  p.query, reply))
        /\ UNCHANGED <<servers, changes, untold>>

-----------------------------------------------------------------------------
(***************************************************************************)
(* Timers                                                                  *)
(***************************************************************************)
\* The timer of an inactive query is a minute, longer than any child lives.
Due(id) ==
    LET q == qs[id]
    IN  /\ fault = "none"
        /\ Exists(Session, id) /\ q.timer
        /\ q.step = Inactive => ~Exists(Session, q.child)

Hit(q) == q.trycache /\ FromCache(q.name) # "none"

\* A cached answer that is about to expire is asked for again beside the
\* lookup (as far as MaxQueries allows); a cached nxdomain lives a minute, so
\* it always is.
UseCache(id, requery) ==
    LET q == qs[id]
        again == [NewQuery(q.name) EXCEPT !.trycache = FALSE]
    IN  /\ Due(id) /\ Hit(q)
        /\ FromCache(q.name) = "nxdomain" /\ Len(qs) < MaxQueries => requery
        /\ Become(ProcessResponse(IF requery THEN Added(Session, again) ELSE Session,
                                  id, FromCache(q.name)))
        /\ UNCHANGED <<servers, cache, changes, untold>>

Forget(id) ==
    /\ Due(id) /\ ~Hit(qs[id])
    /\ qs[id].step = Inactive
    /\ Become(Deleted(Session, id))
    /\ UNCHANGED <<servers, cache, changes, untold>>

GivesUp(q) == q.step = GiveUpStep \/ servers = <<>>

\* Those who listen are told; a parent is not.
GiveUp(id) ==
    /\ Due(id) /\ ~Hit(qs[id])
    /\ qs[id].step # Inactive /\ GivesUp(qs[id])
    /\ Become(Deleted(Report(Session, id, "timeout"), id))
    /\ untold' = untold \cup ({qs[id].parent} \ {None})
    /\ UNCHANGED <<servers, cache, changes>>

\* Mutation: the round ends one server early.
RoundOverEarly(q) ==
    IF q.ntried + 1 = Len(servers) THEN [q EXCEPT !.tried = {}, !.ntried = 0] ELSE q

\* Out of name servers: start over, more slowly.
RoundOver(q) ==
    IF q.ntried = Len(servers) THEN [q EXCEPT !.tried = {}, !.ntried = 0] ELSE q

\* The places of the servers neither tried in this round nor seen to fail.
Askable(q) == {k \in DOMAIN servers : servers[k] \notin q.tried \cup q.failed}

First(places) == CHOOSE k \in places : \A j \in places : k <= j

\* Mutation: the transmission is not counted.
SentUncounted(q, ns) ==
    RoundOver([q EXCEPT !.tried = @ \cup {ns}, !.ntried = @ + 1])

Sent(q, ns) ==
    RoundOver([q EXCEPT !.tried = @ \cup {ns}, !.ntried = @ + 1, !.step = @ + 1])

\* The next server is taken without a look at whether there is one.
Send(id) ==
    LET q == RoundOver([qs[id] EXCEPT !.asked = TRUE])
        ns == servers[First(Askable(q))]
    IN  /\ Due(id) /\ ~Hit(qs[id])
        /\ qs[id].step # Inactive /\ ~GivesUp(qs[id])
        /\ IF Askable(q) = {}
           THEN fault' = "no_server" /\ UNCHANGED <<qs, net>>
           ELSE /\ qs' = [qs EXCEPT ![id] = Sent(q, ns)]
                /\ net' = net \cup {[query |-> id, server |-> ns]}
                /\ UNCHANGED fault
        /\ UNCHANGED <<servers, live, cache, answer, changes, untold>>

-----------------------------------------------------------------------------
(***************************************************************************)
(* The calls of JDnsShared                                                 *)
(***************************************************************************)
\* The first active query for the name, after deleting the inactive ones
\* before it, or a new one.
GetQuery(s, name) ==
    LET same == {id \in s.live : s.qs[id].name = name}
        active == {id \in same : s.qs[id].step # Inactive}
        nuked == {id \in same \ active : \A a \in active : id < a}
        left == [s EXCEPT !.live = @ \ nuked,
                          !.qs = [id \in DOMAIN @ |-> IF id \in nuked THEN Gone ELSE @[id]]]
    IN  IF active # {}
        THEN [session |-> left, id |-> First(active)]
        ELSE [session |-> Added(left, NewQuery(name)), id |-> Len(s.qs) + 1]

Query(r, name) ==
    LET found == GetQuery(Session, name)
    IN  /\ fault = "none"
        /\ answer[r] = "unused"
        /\ Become([found.session EXCEPT !.qs[found.id].reqs = Append(@, r),
                                        !.answer[r] = "open"])
        /\ UNCHANGED <<servers, cache, changes, untold>>

\* _intarray_remove moves the tail down but decrements the pointer to the
\* count, not the count, unless the array becomes empty.
ArrayRemove(array, x) ==
    LET pos == CHOOSE k \in DOMAIN array : array[k] = x
                    /\ \A j \in 1..(k - 1) : array[j] # x
        n == Len(array)
    IN  IF n > 1 THEN [k \in 1..n |-> IF k < pos \/ k = n THEN array[k] ELSE array[k + 1]]
        ELSE <<>>

\* A query that was never sent is deleted, another stays for a minute.
UnicastCancel(s, id) ==
    IF s.qs[id].step = 0 THEN Deleted(s, id)
    ELSE [s EXCEPT !.qs[id].step = Inactive, !.qs[id].timer = TRUE]

\* Nobody listens any more: the child goes first, unless it has listeners.
Abandon(s, id) ==
    LET child == s.qs[id].child
    IN  IF child = None THEN UnicastCancel(s, id)
        ELSE IF ~Exists(s, child) THEN [s EXCEPT !.fault = "deleted_query"]
        ELSE IF s.qs[child].reqs # <<>> THEN UnicastCancel(s, id)
        ELSE UnicastCancel(
                [UnicastCancel([s EXCEPT !.qs[child].parent = None], child)
                    EXCEPT !.qs[id].child = None], id)

\* The request's owner lost interest, as when another interface answered.
\* The array's new size is read from beside its count: if that happens to be
\* 0 (the first query has the id 0) the array itself is freed.
Cancel(r, freed) ==
    LET id == CHOOSE i \in live : r \in ToSet(qs[i].reqs)
        s == [Session EXCEPT !.qs[id].reqs = ArrayRemove(@, r),
                             !.answer[r] = "cancelled"]
    IN  /\ fault = "none"
        /\ answer[r] = "open"
        /\ freed => Len(qs[id].reqs) > 1
        /\ Become(CASE freed -> [s EXCEPT !.fault = "freed_array"]
                    [] ~freed /\ s.qs[id].reqs = <<>> /\ qs[id].parent = None -> Abandon(s, id)
                    [] OTHER -> s)
        /\ UNCHANGED <<servers, cache, changes, untold>>

\* The servers that stay keep their order, the new ones follow in any.
Relisted(new) ==
    {order \in SetToSeqs(new) :
        \A j, k \in DOMAIN order :
            j < k /\ order[k] \in ToSet(servers) =>
                \E m, n \in DOMAIN servers :
                    m < n /\ servers[m] = order[j] /\ servers[n] = order[k]}

\* The count of the servers tried is not adjusted unless the array becomes
\* empty, nor is that of the servers that failed; the number of a server is
\* never used again, so what is left behind of a list is not found.
ServerGone(q, gone) ==
    [q EXCEPT !.tried = @ \ gone, !.failed = @ \ gone,
              !.ntried = IF @ = 1 /\ q.tried \cap gone # {} THEN 0 ELSE @]

\* The list of name servers changes.  With no server left every query is
\* given up.  A query that loses one of several replies of failure shrinks its
\* array of them by a size read from beside their count, here from the pointer
\* to the servers tried: if that happens to be 0 the array itself is freed.
SetNameservers(new, freed) ==
    LET gone == ToSet(servers) \ new
        told == {r \in Requests : \E id \in live : r \in ToSet(qs[id].reqs)}
    IN  /\ fault = "none"
        /\ new # ToSet(servers)
        /\ changes < MaxChanges
        /\ freed => \E id \in live : qs[id].failed \cap gone # {}
        /\ changes' = changes + 1
        /\ servers' \in Relisted(new)
        /\ fault' = IF freed THEN "freed_array" ELSE fault
        /\ IF new = {}
           THEN /\ qs' = [id \in DOMAIN qs |-> Gone]
                /\ live' = {}
                /\ answer' = [r \in Requests |->
                        IF r \in told /\ answer[r] = "open" THEN "timeout" ELSE answer[r]]
                /\ net' = {}
           ELSE /\ qs' = [id \in DOMAIN qs |-> ServerGone(qs[id], gone)]
                /\ UNCHANGED <<live, answer, net>>
        /\ UNCHANGED <<cache, untold>>

Expire(name, kind) ==
    /\ fault = "none"
    /\ \/ kind = "own" /\ cache[name].own # "none"
          /\ cache' = [cache EXCEPT ![name].own = "none"]
       \/ kind = "cname" /\ cache[name].cnames > 0
          /\ cache' = [cache EXCEPT ![name].cnames = @ - 1]
    /\ UNCHANGED <<servers, qs, live, net, answer, fault, changes, untold>>

-----------------------------------------------------------------------------
Init ==
    /\ servers = SetToSeq(Servers)
    /\ qs = <<>>
    /\ live = {}
    /\ cache = [n \in Names |-> [own |-> "none", cnames |-> 0]]
    /\ net = {}
    /\ answer = [r \in Requests |-> "unused"]
    /\ fault = "none"
    /\ changes = 0
    /\ untold = {}

Timeout(id) ==
    \/ \E requery \in BOOLEAN : UseCache(id, requery)
    \/ Forget(id)
    \/ GiveUp(id)
    \/ Send(id)

TimerStep == \E id \in DOMAIN qs : Timeout(id)

Next ==
    \/ \E p \in net, reply \in Replies : Reply(p, reply)
    \/ TimerStep
    \/ \E r \in Requests, n \in Names : Query(r, n)
    \/ \E r \in Requests, freed \in BOOLEAN : Cancel(r, freed)
    \/ \E new \in SUBSET Servers, freed \in BOOLEAN : SetNameservers(new, freed)
    \/ \E n \in Names, kind \in {"own", "cname"} : Expire(n, kind)

\* QJDns sleeps for as long as the earliest timer says, so some timer that
\* runs goes off.
Spec == Init /\ [][Next]_vars /\ WF_vars(TimerStep)

-----------------------------------------------------------------------------
(***************************************************************************)
(* Properties                                                              *)
(***************************************************************************)
QueryRecords ==
    [name : Names, reqs : Seq(Requests), step : 0..Inactive, timer : BOOLEAN,
     asked : BOOLEAN, tried : SUBSET Servers, ntried : Nat, failed : SUBSET Servers,
     trycache : BOOLEAN, chain : 0..MaxChain, parent : Nat, child : Nat]

\* The state is well typed, a query never has both a parent and a child, and
\* it has not tried more servers than it has sent packets.
TypeOK ==
    /\ servers \in Seq(Servers) /\ IsInjective(servers)
    /\ qs \in Seq(QueryRecords) /\ Len(qs) <= MaxQueries
    /\ live \subseteq DOMAIN qs
    /\ cache \in [Names -> [own : {"none", "answer", "nxdomain"}, cnames : 0..2]]
    /\ net \subseteq [query : DOMAIN qs, server : Servers]
    /\ answer \in [Requests -> {"unused", "open", "cancelled"} \cup Outcomes]
    /\ fault \in {"none", "deleted_query", "no_server", "freed_array"}
    /\ changes \in 0..MaxChanges
    /\ untold \subseteq 1..MaxQueries
    /\ \A id \in live :
          /\ qs[id].ntried <= qs[id].step
          /\ qs[id].parent = None \/ qs[id].child = None

\* Waits(id): the query's own timer runs, or it has a child that exists and
\* reports to it.
Waits(id) ==
    \/ qs[id].timer
    \/ Exists(Session, qs[id].child) /\ qs[qs[id].child].parent = id

\* A lookup that is not answered is not forgotten: whatever is cancelled,
\* shared, followed or deleted around it, some query still has its request and
\* either its own timer or a child, in the list, that reports to it.  The one
\* way to be forgotten is that the child of a query gave up (untold).
Served ==
    fault = "none" =>
        \A r \in Requests : answer[r] = "open" =>
            \E id \in live : r \in ToSet(qs[id].reqs) /\ (Waits(id) \/ id \in untold)

\* The rotation leaves no server out: after as many transmissions as there are
\* servers, each has been asked, whichever of them have failed meanwhile.
EveryServerAsked ==
    changes = 0 =>
        \A id \in live :
            qs[id].step # Inactive /\ qs[id].step >= Len(servers) =>
                \A x \in Servers : [query |-> id, server |-> x] \in net

\* Abandoned(r): the request's query follows an alias, and the child that
\* should report to it gave up, which it tells nobody.
Abandoned(r) == \E id \in untold \cap live : r \in ToSet(qs[id].reqs)

\* A lookup ends: servers that stay silent, refuse, point elsewhere or answer
\* late can not keep a request waiting, except that a parent is never told
\* that its child gave up.
EveryLookupEnds ==
    \A r \in Requests :
        answer[r] = "open" ~> answer[r] # "open" \/ fault # "none" \/ Abandoned(r)

\* "in theory, it is not possible for 'ns' to be null here" (jdns.c): a query
\* that sends finds a server that it has neither tried nor seen fail.
ServerAlwaysFound == fault # "no_server"
=============================================================================
