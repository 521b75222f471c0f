----------------------------- MODULE Connector ------------------------------
(***************************************************************************)
(* AdvancedConnector (src/iris/xmpp-core/connector.cpp) with the           *)
(* SrvResolver and NDns it asks (src/iris/irisnet/legacy), the BSocket it  *)
(* opens (src/cutestuff/network/bsocket.cpp), and the NameResolver behind  *)
(* them (src/iris/irisnet/netnames.cpp), whose stop() does nothing: a      *)
(* lookup that was given up is still answered.                             *)
(*                                                                         *)
(* A user (ClientStream) starts an attempt, hears connected() or error(),  *)
(* calls done(), and destroys the connector.  Every lookup has the number  *)
(* of its attempt.  When an answer reaches a freed object, or is taken for *)
(* the answer to a later lookup, "fault" says so and the behaviour stops   *)
(* there.                                                                  *)
(***************************************************************************)
EXTENDS Naturals, SequencesExt

CONSTANTS
    Targets,      \* names that SRV records point to
    MaxRecords,   \* bound: records in an SRV answer
    MaxPriority,  \* bound: priorities and weights are below it
    MaxAttempts   \* bound: calls of connectToServer

ASSUME ConnectorAssumption ==
    /\ IsFiniteSet(Targets)
    /\ MaxRecords \in Nat /\ MaxPriority \in Nat /\ MaxAttempts \in Nat

VARIABLES
    opt,      \* what setOptHostPort, setOptProbe and setOptSSL have set
    conn,     \* AdvancedConnector::Private
    srv,      \* SrvResolver::Private
    sock,     \* the state of the BSocket "bs", or "none"
    lookups,  \* the lookups the name manager has not answered
    attempt,  \* how many attempts were started
    reports,  \* [connected, error: how often the user heard it in this attempt]
    answer,   \* the SRV records of this attempt, as they came
    tried,    \* the names of SRV targets looked up in this attempt, in order
    given,    \* lookups given up without an answer: "timeout", "abort"
    alive,    \* FALSE when the connector is destroyed
    fault     \* "none", "freed" or "stale"

vars == <<opt, conn, srv, sock, lookups, attempt, reports, answer, tried, given, alive, fault>>

Domain == "domain"
OptHost == "opthost"
Record == [name : Targets, priority : 0 .. MaxPriority - 1, weight : 0 .. MaxPriority - 1]
Lookup == [by : {"srv", "dns", "sock"}, attempt : 1 .. MaxAttempts]
Options == [host : BOOLEAN, probe : BOOLEAN, ssl : BOOLEAN]

Conn == [mode : {"Idle", "Connecting", "Connected"},
         servers : Seq(Record),
         host : Targets \cup {Domain, OptHost},
         port : {"srv", "opt", "5222", "5223", "5269"},
         multi : BOOLEAN, using_srv : BOOLEAN, will_be_ssl : BOOLEAN,
         probe_mode : {"none", "0", "1"},
         useSSL : BOOLEAN]

\* Mutation: cleanup() forgets the mode.
CleanKeepsMode(c) == [c EXCEPT !.multi = FALSE, !.using_srv = FALSE,
                               !.will_be_ssl = FALSE, !.probe_mode = "none", !.useSSL = FALSE]

\* cleanup(): "servers", "host" and "port" keep their values.
Clean(c) == [c EXCEPT !.mode = "Idle", !.multi = FALSE, !.using_srv = FALSE,
                      !.will_be_ssl = FALSE, !.probe_mode = "none", !.useSSL = FALSE]

SrvIdle == [busy |-> FALSE, timer |-> FALSE]

\* Mutation: the query has no timer.
SrvQueryUntimed == [busy |-> TRUE, timer |-> FALSE]

\* resolveSrvOnly(): the query and its 15 second timer.
SrvQuery == [busy |-> TRUE, timer |-> TRUE]

Init ==
    /\ opt \in Options
    /\ conn = [mode |-> "Idle", servers |-> <<>>, host |-> Domain, port |-> "srv",
               multi |-> FALSE, using_srv |-> FALSE, will_be_ssl |-> FALSE,
               probe_mode |-> "none", useSSL |-> FALSE]
    /\ srv = SrvIdle
    /\ sock = "none"
    /\ lookups = {}
    /\ attempt = 0
    /\ reports = [connected |-> 0, error |-> 0]
    /\ answer = <<>>
    /\ tried = <<>>
    /\ given = {}
    /\ alive = TRUE
    /\ fault = "none"

-----------------------------------------------------------------------------
(* The pieces of the handlers.                                             *)

L(by) == [by |-> by, attempt |-> attempt]

\* Mutation: ties on the priority are not looked at.
BeforeByPriority(a, b) == a.priority < b.priority

\* sortSRVList puts the smaller priority first, then the smaller weight.
Before(a, b) == a.priority < b.priority \/ (a.priority = b.priority /\ a.weight < b.weight)

\* Which of two records is taken first: of equals, the one that came first.
TakenBefore(list, i, j) ==
    Before(list[i], list[j]) \/ (~Before(list[j], list[i]) /\ i < j)

\* sortSRVList takes the first of what is left again and again: a record comes
\* after those that are taken before it.
SortSRVList(list) ==
    LET earlier(i) == {j \in DOMAIN list : TakenBefore(list, j, i)} IN
    [k \in DOMAIN list |-> list[CHOOSE i \in DOMAIN list : Cardinality(earlier(i)) = k - 1]]

\* Which answers are awaited; the manager gives any other one all the same.
Awaited(l) ==
    /\ alive /\ fault = "none" /\ l.attempt = attempt /\ conn.mode # "Idle"
    /\ l.by = "srv" => srv.busy

\* cleanup() stops what is under way; the lookups stay with the name manager.
\* The stream error of a connected connector does not come here.
CleanupOthers(left) ==
    /\ srv' = SrvIdle
    /\ sock' = "none"
    /\ lookups' = left
    /\ given' = IF \E l \in left : Awaited(l) THEN given \cup {"abort"} ELSE given

\* The attempt fails: cleanup, and error() to the user.
Fail(left) ==
    /\ conn' = Clean(conn)
    /\ CleanupOthers(left)
    /\ reports' = [reports EXCEPT !.error = @ + 1]
    /\ UNCHANGED tried

\* tryNextSrv: the next target is looked up.
TryNextSrv(c, left) ==
    /\ conn' = [c EXCEPT !.host = Head(c.servers).name, !.port = "srv", !.servers = Tail(@)]
    /\ lookups' = left \cup {L("dns")}
    /\ tried' = Append(tried, Head(c.servers).name)
    /\ UNCHANGED <<reports, given>>

\* do_connect: a new BSocket, which looks the address up once more.
DoConnect(c, left) ==
    /\ conn' = c
    /\ sock' = "HostLookup"
    /\ lookups' = left \cup {L("sock")}
    /\ UNCHANGED <<reports, tried, given>>

-----------------------------------------------------------------------------
(* The user's calls.                                                       *)

ConnectToServer ==
    /\ alive /\ fault = "none"
    /\ conn.mode = "Idle" /\ attempt < MaxAttempts
    /\ attempt' = attempt + 1
    /\ reports' = [connected |-> 0, error |-> 0]
    /\ answer' = <<>> /\ tried' = <<>>
    /\ \/ /\ opt.host
          /\ conn' = [conn EXCEPT !.mode = "Connecting", !.host = OptHost, !.port = "opt"]
          /\ lookups' = lookups \cup {[by |-> "dns", attempt |-> attempt + 1]}
          /\ UNCHANGED srv
       \/ /\ ~opt.host
          /\ conn' = [conn EXCEPT !.mode = "Connecting", !.multi = TRUE]
          /\ srv' = SrvQuery
          /\ lookups' = lookups \cup {[by |-> "srv", attempt |-> attempt + 1]}
    /\ UNCHANGED <<opt, sock, given, alive, fault>>

\* done(), at any time.
Done ==
    /\ alive /\ fault = "none" /\ attempt > 0
    /\ conn' = Clean(conn)
    /\ CleanupOthers(lookups)
    /\ UNCHANGED <<opt, attempt, reports, answer, tried, alive, fault>>

\* The user deletes the connector, which cleans up first.
Destroy ==
    /\ alive /\ fault = "none" /\ attempt > 0
    /\ alive' = FALSE
    /\ conn' = Clean(conn)
    /\ CleanupOthers(lookups)
    /\ UNCHANGED <<opt, attempt, reports, answer, tried, fault>>

-----------------------------------------------------------------------------
(* Answers of the name manager.                                            *)

\* The manager still has the pointer of a resolver that is gone; NDns and BSocket
\* take what comes; SrvResolver takes it when it is busy.
LateAnswer(l) ==
    /\ ~Awaited(l)
    /\ lookups' = lookups \ {l}
    /\ fault' = IF ~alive \/ l.by = "sock" THEN "freed"
                ELSE IF l.by = "srv" /\ ~srv.busy THEN "none" ELSE "stale"
    /\ UNCHANGED <<opt, conn, srv, sock, attempt, reports, answer, tried, given, alive>>

\* Mutation: the port is only set when probing.
FallbackPortless(c) ==
    [c EXCEPT !.using_srv = FALSE, !.host = Domain, !.servers = <<>>, !.will_be_ssl = opt.probe,
              !.probe_mode = IF opt.probe THEN "0" ELSE "1",
              !.port = IF opt.probe THEN "5223" ELSE "0"]

\* Without SRV records: the domain itself, on the ssl port first when probing.
Fallback(c) ==
    [c EXCEPT !.using_srv = FALSE, !.host = Domain, !.servers = <<>>, !.will_be_ssl = opt.probe,
              !.probe_mode = IF opt.probe THEN "0" ELSE "1",
              !.port = IF opt.probe THEN "5223" ELSE "5269"]

WithServers(c, list) == [c EXCEPT !.using_srv = TRUE, !.servers = SortSRVList(list)]

\* srv_done with the records of an answer, none for an error or a timeout.
SrvDone(list, left) ==
    /\ srv' = SrvIdle
    /\ answer' = list
    /\ \/ /\ list = <<>>
          /\ conn' = Fallback(conn)
          /\ lookups' = left \cup {L("dns")}
          /\ UNCHANGED <<reports, tried>>
       \/ /\ list # <<>>
          /\ TryNextSrv(WithServers(conn, list), left)
    /\ UNCHANGED sock

Lists == {list \in BoundedSeq(Record, MaxRecords) :
            \A i, j \in DOMAIN list : list[i].name = list[j].name => i = j}

\* SrvResolver::nndns_resultsReady and nndns_error.
SrvAnswer(l) ==
    /\ Awaited(l) /\ l.by = "srv"
    /\ \E list \in Lists : SrvDone(list, lookups \ {l})
    /\ UNCHANGED <<opt, attempt, given, alive, fault>>

\* Mutation: a resolver that times out stays busy.
AfterTimeoutBusy(s) == [s EXCEPT !.timer = FALSE]

\* t_timeout: stop(), which leaves the lookup with the name manager.
AfterTimeout(s) == SrvIdle

SrvTimeout ==
    /\ alive /\ fault = "none" /\ srv.timer
    /\ conn' = Fallback(conn)
    /\ srv' = AfterTimeout(srv)
    /\ lookups' = lookups \cup {L("dns")}
    /\ given' = given \cup {"timeout"}
    /\ UNCHANGED <<opt, sock, attempt, reports, answer, tried, alive, fault>>

\* Is there another SRV target to try?
TargetsLeft(c) == c.using_srv /\ c.servers # <<>>

\* dns_done: the address is found, or it is not.
DnsAnswer(l) ==
    /\ Awaited(l) /\ l.by = "dns"
    /\ LET left == lookups \ {l} IN
       \/ DoConnect(conn, left) /\ UNCHANGED srv
       \/ /\ TargetsLeft(conn)
          /\ TryNextSrv(conn, left)
          /\ UNCHANGED <<srv, sock>>
       \/ /\ ~TargetsLeft(conn)
          /\ Fail(left)
    /\ UNCHANGED <<opt, attempt, answer, alive, fault>>

\* BSocket::ndns_done: an address that is looked up as a name is always found.
SockAnswer(l) ==
    /\ Awaited(l) /\ l.by = "sock"
    /\ lookups' = lookups \ {l}
    /\ sock' = "Connecting"
    /\ UNCHANGED <<opt, conn, srv, attempt, reports, answer, tried, given, alive, fault>>

Answer(l) == fault = "none" /\ (LateAnswer(l) \/ SrvAnswer(l) \/ DnsAnswer(l) \/ SockAnswer(l))

-----------------------------------------------------------------------------
(* The socket.                                                             *)

BsConnected ==
    /\ fault = "none" /\ sock = "Connecting"
    /\ sock' = "Connected"
    /\ conn' = [conn EXCEPT !.mode = "Connected",
                            !.useSSL = (opt.host /\ opt.ssl) \/ conn.will_be_ssl]
    /\ reports' = [reports EXCEPT !.connected = @ + 1]
    /\ UNCHANGED <<opt, srv, lookups, attempt, answer, tried, given, alive, fault>>

\* Mutation: the second probe keeps the ssl of the first.
ProbePlainKeepsSSL(c) == [c EXCEPT !.probe_mode = "1", !.port = "5222"]

\* The ssl port refused: the plain port of the same address.
ProbePlain(c) == [c EXCEPT !.probe_mode = "1", !.port = "5222", !.will_be_ssl = FALSE]

Probing(c) == ~c.using_srv /\ opt.probe /\ c.probe_mode = "0"

\* bs_error before the connection is up: the socket has reset itself.
BsRefused ==
    /\ fault = "none" /\ sock = "Connecting"
    /\ \/ /\ conn.multi /\ TargetsLeft(conn)
          /\ TryNextSrv(conn, lookups)
          /\ sock' = "Idle"
          /\ UNCHANGED srv
       \/ /\ conn.multi /\ ~TargetsLeft(conn) /\ Probing(conn)
          /\ DoConnect(ProbePlain(conn), lookups)
          /\ UNCHANGED srv
       \/ /\ ~conn.multi \/ ~(TargetsLeft(conn) \/ Probing(conn))
          /\ Fail(lookups)
    /\ UNCHANGED <<opt, attempt, answer, alive, fault>>

\* bs_error of a connection that is up: error(), and nothing is cleaned up.
BsBroken ==
    /\ fault = "none" /\ sock = "Connected"
    /\ sock' = "Idle"
    /\ reports' = [reports EXCEPT !.error = @ + 1]
    /\ UNCHANGED <<opt, conn, srv, lookups, attempt, answer, tried, given, alive, fault>>

-----------------------------------------------------------------------------
Next ==
    \/ ConnectToServer \/ Done \/ Destroy
    \/ SrvTimeout
    \/ \E l \in lookups : Answer(l)
    \/ BsConnected \/ BsRefused \/ BsBroken

\* Addresses are answered and sockets connect or fail in time; of an SRV lookup
\* only its 15 second timer is sure.
Fairness ==
    /\ WF_vars(SrvTimeout)
    /\ WF_vars(\E l \in lookups : DnsAnswer(l) \/ SockAnswer(l))
    /\ WF_vars(BsConnected \/ BsRefused)

Spec == Init /\ [][Next]_vars /\ Fairness

-----------------------------------------------------------------------------
(* Properties.                                                             *)

\* Every variable has its type.
TypeOK ==
    /\ opt \in Options /\ conn \in Conn
    /\ srv \in [busy : BOOLEAN, timer : BOOLEAN]
    /\ sock \in {"none", "HostLookup", "Connecting", "Connected", "Idle"}
    /\ lookups \subseteq Lookup
    /\ attempt \in 0 .. MaxAttempts
    /\ reports \in [connected : Nat, error : Nat]
    /\ answer \in Seq(Record) /\ tried \in Seq(Targets)
    /\ given \subseteq {"timeout", "abort"}
    /\ alive \in BOOLEAN
    /\ fault \in {"none", "freed", "stale"}

\* One attempt, one report: the user hears connected() or error() once, an error
\* after connected() only of the connection itself, and nothing while the attempt
\* goes on; a failed attempt leaves the connector free for the next one.
OneReport ==
    /\ reports.connected <= 1 /\ reports.error <= 1
    /\ conn.mode = "Connecting" => reports.connected = 0 /\ reports.error = 0
    /\ reports.error = 1 /\ sock # "Idle" => conn.mode = "Idle"

\* The targets of an SRV answer are tried in the order of their priority and
\* weight (sortSRVList), each once, and the attempt is given up only when each
\* of them was tried.
TargetsInOrder ==
    /\ \A i, j \in DOMAIN tried : i < j =>
         \E a, b \in ToSet(answer) :
            /\ a.name = tried[i] /\ b.name = tried[j] /\ a # b
            /\ \/ a.priority < b.priority
               \/ a.priority = b.priority /\ a.weight <= b.weight
    /\ reports.error = 1 /\ reports.connected = 0 =>
         ToSet(tried) = {r.name : r \in ToSet(answer)}

\* A connection is taken for an SSL one exactly when the user asked for that at a
\* given host, or the port it was made to is the SSL port of a probe.
SslMatchesPort ==
    conn.mode = "Connected" =>
        (conn.useSSL <=> (opt.host /\ opt.ssl) \/ conn.port = "5223")

\* The connector waits for one thing at a time, and a late answer does harm only
\* after a lookup was given up: to a freed object; or as the answer to something
\* else, when a connector is used again or done() came during a lookup.
LateAnswers ==
    /\ fault = "none" =>
         Cardinality({l \in lookups : Awaited(l)})
            + (IF sock \in {"Connecting", "Connected"} THEN 1 ELSE 0) <= 1
    /\ fault = "freed" => given # {}
    /\ fault = "stale" => given # {} /\ (attempt > 1 \/ "abort" \in given)

\* Every attempt ends: with a report, by done(), or in a fault.
AttemptEnds == conn.mode = "Connecting" ~> (conn.mode # "Connecting" \/ fault # "none")
=============================================================================
