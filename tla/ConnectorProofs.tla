--------------------------- MODULE ConnectorProofs --------------------------
(***************************************************************************)
(* Theorems about Connector for every set of targets and every bound: its  *)
(* types, one report per attempt, the SSL flag agrees with the port, late  *)
(* answers do harm only after a lookup was given up, and the targets of an *)
(* answer are tried in order, each once.                                   *)
(***************************************************************************)
EXTENDS Connector, SequenceFacts, FiniteSetTheorems, TLAPS

\* The lookups of this attempt that are not for SRV records.
Current == {l \in lookups : l.attempt = attempt /\ l.by # "srv"}

\* The types, but for what an answer brings.
ConnWith(c) ==
    [mode : {"Idle", "Connecting", "Connected"}, servers : {c.servers}, host : {c.host},
     port : {"srv", "opt", "5222", "5223", "5269"},
     multi : BOOLEAN, using_srv : BOOLEAN, will_be_ssl : BOOLEAN,
     probe_mode : {"none", "0", "1"}, useSSL : BOOLEAN]

Shape ==
    /\ opt \in Options /\ conn \in ConnWith(conn)
    /\ srv \in [busy : BOOLEAN, timer : BOOLEAN]
    /\ sock \in {"none", "HostLookup", "Connecting", "Connected", "Idle"}
    /\ lookups \subseteq Lookup
    /\ attempt \in 0 .. MaxAttempts
    /\ reports \in [connected : Nat, error : Nat]
    /\ given \subseteq {"timeout", "abort"}
    /\ alive \in BOOLEAN
    /\ fault \in {"none", "freed", "stale"}

\* What the connector waits for: the SRV records, an address, or the socket.
Waiting ==
    /\ srv.busy => sock = "none" /\ Current = {}
    /\ ~srv.busy /\ sock = "HostLookup" => Current = {L("sock")}
    /\ ~srv.busy /\ sock = "Connecting" => Current = {}
    /\ ~srv.busy /\ sock \in {"none", "Idle"} => Current = {L("dns")}

Phase ==
    /\ srv.timer = srv.busy
    /\ srv.busy => conn.mode = "Connecting"
    /\ ~alive => conn.mode = "Idle"
    /\ conn.mode = "Idle" => sock = "none"
    /\ conn.mode # "Idle" => attempt > 0
    /\ conn.mode = "Connected" => sock \in {"Connected", "Idle"} /\ Current = {}
    /\ conn.mode = "Connecting" => sock # "Connected" /\ Waiting

Heard ==
    /\ reports.connected \in {0, 1} /\ reports.error \in {0, 1}
    /\ conn.mode = "Connecting" => reports.connected = 0 /\ reports.error = 0
    /\ conn.mode = "Connected" => reports.error = IF sock = "Connected" THEN 0 ELSE 1

Ports ==
    /\ conn.will_be_ssl => conn.port = "5223" /\ ~conn.using_srv
    /\ conn.mode = "Idle" \/ srv.busy => ~conn.will_be_ssl /\ ~conn.using_srv
    /\ conn.mode # "Idle" /\ ~srv.busy /\ conn.port = "5223" => conn.will_be_ssl
    /\ conn.mode = "Connected" => (conn.useSSL <=> (opt.host /\ opt.ssl) \/ conn.will_be_ssl)

\* A lookup that nobody awaits was given up; only SRV lookups time out.
GivenUp ==
    /\ \A l \in lookups : l.attempt <= attempt
    /\ fault = "none" => \A l \in lookups : ~Awaited(l) =>
          given # {} /\ (l.by # "srv" => "abort" \in given)
    /\ fault = "freed" => given # {}
    /\ fault = "stale" => given # {} /\ (attempt > 1 \/ "abort" \in given)

IInv == Shape /\ Phase /\ Heard /\ Ports /\ GivenUp

-----------------------------------------------------------------------------
\* A connector is created idle, with nothing asked.
LEMMA InitHolds == Init => IInv
<1> SUFFICES ASSUME Init PROVE IInv
  OBVIOUS
<1> USE DEF Init
<1>1. Shape
  BY ConnectorAssumption DEF Shape, ConnWith, SrvIdle, ConnectorAssumption
<1>2. Phase /\ Heard /\ Ports /\ GivenUp
  BY DEF Phase, Heard, Ports, GivenUp, SrvIdle
<1> QED BY <1>1, <1>2 DEF IInv

\* cleanup() and what it does to the lookups that are left.
LEMMA CleanedUp ==
    ASSUME IInv, fault = "none", NEW left, left \subseteq lookups,
           conn' = Clean(conn), CleanupOthers(left),
           \/ alive' = alive /\ UNCHANGED reports
           \/ alive' = FALSE /\ UNCHANGED reports
           \/ alive' = alive /\ reports' = [reports EXCEPT !.error = @ + 1]
              /\ conn.mode = "Connecting",
           UNCHANGED <<opt, attempt, fault>>
    PROVE  IInv'
<1>1. /\ conn' \in ConnWith(conn') /\ conn'.mode = "Idle" /\ ~conn'.will_be_ssl /\ ~conn'.using_srv
  BY DEF IInv, Shape, ConnWith, Clean
<1>2. /\ srv' = [busy |-> FALSE, timer |-> FALSE] /\ sock' = "none"
      /\ lookups' = left /\ given \subseteq given'
      /\ given' \subseteq {"timeout", "abort"}
      /\ (\E l \in left : Awaited(l)) => "abort" \in given'
  BY DEF IInv, Shape, CleanupOthers, SrvIdle
<1>3. Heard' /\ reports' \in [connected : Nat, error : Nat]
  BY <1>1 DEF IInv, Shape, Heard
<1>4. Shape'
  BY <1>1, <1>2, <1>3 DEF IInv, Shape
<1>5. Phase' /\ Ports'
  BY <1>1, <1>2 DEF Phase, Ports
<1>6. GivenUp'
  BY <1>2 DEF IInv, GivenUp
<1> QED BY <1>3, <1>4, <1>5, <1>6 DEF IInv

\* done() and the destructor clean up.
LEMMA UserEnds == IInv /\ (Done \/ Destroy) => IInv'
<1>1. ASSUME IInv, Done PROVE IInv'
  <2> lookups \subseteq lookups
    OBVIOUS
  <2> QED BY <1>1, CleanedUp DEF Done
<1>2. ASSUME IInv, Destroy PROVE IInv'
  BY <1>2, CleanedUp DEF Destroy
<1> QED BY <1>1, <1>2

\* The first lookup of a new attempt is the only one of its number.
LEMMA Starts == IInv /\ ConnectToServer => IInv'
<1> SUFFICES ASSUME IInv, ConnectToServer PROVE IInv'
  OBVIOUS
<1>0. /\ alive /\ fault = "none" /\ conn.mode = "Idle" /\ sock = "none" /\ ~srv.busy /\ ~srv.timer
      /\ ~conn.will_be_ssl /\ ~conn.using_srv
      /\ \A l \in lookups : l.attempt <= attempt
      /\ attempt \in Nat /\ attempt' = attempt + 1 /\ attempt' \in 1 .. MaxAttempts
  BY ConnectorAssumption DEF IInv, Shape, Phase, Ports, GivenUp, ConnectToServer, ConnectorAssumption
<1>1. reports' = [connected |-> 0, error |-> 0]
      /\ UNCHANGED <<opt, sock, given, alive, fault>>
  BY DEF ConnectToServer
<1>2. PICK by \in {"srv", "dns"} :
        /\ lookups' = lookups \cup {[by |-> by, attempt |-> attempt + 1]}
        /\ conn' \in ConnWith(conn') /\ conn'.mode = "Connecting"
        /\ ~conn'.will_be_ssl /\ ~conn'.using_srv
        /\ by = "srv" => srv' = [busy |-> TRUE, timer |-> TRUE]
        /\ by = "dns" => srv' = srv /\ conn'.port = "opt"
  <2>1. CASE opt.host
    BY <2>1 DEF IInv, Shape, ConnWith, ConnectToServer, Ports
  <2>2. CASE ~opt.host
    BY <2>2 DEF IInv, Shape, ConnWith, ConnectToServer, Ports, SrvQuery
  <2> QED BY <2>1, <2>2
<1>3. Shape'
  <2>1. srv' \in [busy : BOOLEAN, timer : BOOLEAN]
    <3>1. srv \in [busy : BOOLEAN, timer : BOOLEAN]
      BY DEF IInv, Shape
    <3>2. CASE by = "srv"
      <4>1. srv' = [busy |-> TRUE, timer |-> TRUE]
        BY <3>2, <1>2
      <4> QED BY <4>1
    <3>3. CASE by = "dns"
      BY <3>1, <3>3, <1>2
    <3> QED BY <3>2, <3>3
  <2>2. lookups' \subseteq Lookup
    BY <1>0, <1>2 DEF IInv, Shape, Lookup
  <2>3. attempt' \in 0 .. MaxAttempts
    BY <1>0
  <2> QED BY <2>1, <2>2, <2>3, <1>1, <1>2 DEF IInv, Shape
<1>4. Current' = IF by = "srv" THEN {} ELSE {[by |-> "dns", attempt |-> attempt']}
  <2>1. \A l \in lookups : l.attempt # attempt'
    BY <1>0 DEF IInv, Shape, Lookup
  <2> QED BY <2>1, <1>0, <1>2 DEF Current
<1>5. Phase'
  <2>0. /\ alive' /\ sock' = "none" /\ conn'.mode = "Connecting" /\ attempt' > 0
    BY <1>0, <1>1, <1>2
  <2>1. CASE by = "srv"
    <3>1. srv' = [busy |-> TRUE, timer |-> TRUE] /\ Current' = {}
      BY <2>1, <1>2, <1>4
    <3> QED BY <3>1, <2>0 DEF Phase, Waiting
  <2>2. CASE by = "dns"
    <3>1. ~srv'.busy /\ srv'.timer = srv'.busy /\ Current' = {[by |-> "dns", attempt |-> attempt']}
      BY <2>2, <1>2, <1>4, <1>0 DEF IInv, Phase
    <3> QED BY <3>1, <2>0 DEF Phase, Waiting, L
  <2> QED BY <2>1, <2>2
<1>6. Heard' /\ Ports'
  BY <1>0, <1>1, <1>2 DEF Heard, Ports
<1>7. GivenUp'
  <2>1. \A l \in lookups : ~Awaited(l)
    BY <1>0 DEF Awaited
  <2>2. \A m \in lookups' : m \in lookups \/ m = [by |-> by, attempt |-> attempt']
    BY <1>0, <1>2
  <2>3. \A m \in lookups' : m \notin lookups => Awaited(m)' /\ m.attempt = attempt'
    BY <2>2, <1>0, <1>1, <1>2 DEF Awaited
  <2>4. \A m \in lookups : m \in Lookup
    BY DEF IInv, Shape
  <2>5. \A m \in lookups : m.attempt <= attempt' /\ given # {} /\ (m.by # "srv" => "abort" \in given)
    BY <2>1, <2>4, <1>0 DEF IInv, GivenUp, Lookup
  <2>6. \A m \in lookups' : m.attempt <= attempt'
    BY <2>3, <2>5, <1>0
  <2>7. \A m \in lookups' : ~Awaited(m)' => given # {} /\ (m.by # "srv" => "abort" \in given)
    BY <2>3, <2>5
  <2> QED BY <2>6, <2>7, <1>0, <1>1 DEF GivenUp
<1> QED BY <1>3, <1>5, <1>6, <1>7 DEF IInv

\* An answer that nobody awaits changes nothing, or ends the behaviour.
LEMMA Late ==
    ASSUME IInv, fault = "none", NEW l \in lookups, LateAnswer(l)
    PROVE  IInv'
<1>1. Shape'
  BY DEF IInv, Shape, LateAnswer
<1>2. Phase' /\ Heard' /\ Ports'
  <2>1. conn.mode # "Idle" => Current' = Current
    BY DEF IInv, Phase, LateAnswer, Current, Awaited
  <2>2. UNCHANGED <<opt, conn, srv, sock, attempt, reports, alive>>
    BY DEF LateAnswer
  <2> QED BY <2>1, <2>2 DEF IInv, Phase, Waiting, L, Heard, Ports
<1>3. GivenUp'
  <2>1. lookups' \subseteq lookups /\ UNCHANGED <<conn, srv, attempt, given, alive>> /\ ~Awaited(l)
    BY DEF LateAnswer
  <2>2. l.attempt <= attempt /\ given # {} /\ (l.by # "srv" => "abort" \in given)
    BY <2>1 DEF IInv, GivenUp
  <2>3. CASE fault' = "freed" \/ fault' = "none"
    BY <2>1, <2>2, <2>3 DEF IInv, GivenUp, Awaited
  <2>4. CASE fault' = "stale"
    <3>1. l.by = "srv" => l.attempt # attempt
      BY <2>4 DEF IInv, Phase, LateAnswer, Awaited
    <3>2. l.by = "srv" => attempt > 1
      BY <3>1, <2>2 DEF IInv, Shape, Lookup
    <3> QED BY <3>2, <2>1, <2>2, <2>4 DEF IInv, GivenUp
  <2>5. fault' \in {"none", "freed", "stale"}
    BY <1>1 DEF Shape
  <2> QED BY <2>3, <2>4, <2>5
<1> QED BY <1>1, <1>2, <1>3 DEF IInv

\* The attempt goes on with one more lookup, and waits for nothing else.
LEMMA NextLookup ==
    ASSUME IInv, fault = "none", conn.mode = "Connecting",
           NEW by \in {"dns", "sock"}, NEW left, left \subseteq lookups,
           lookups' = left \cup {L(by)},
           \A l \in left : l.attempt = attempt => l.by = "srv" /\ given' # {},
           given \subseteq given', given' \subseteq {"timeout", "abort"},
           srv' = [busy |-> FALSE, timer |-> FALSE],
           sock' \in IF by = "sock" THEN {"HostLookup"} ELSE {"none", "Idle"},
           conn' \in ConnWith(conn'), conn'.mode = "Connecting",
           conn'.will_be_ssl <=> conn'.port = "5223",
           conn'.will_be_ssl => ~conn'.using_srv,
           UNCHANGED <<opt, attempt, reports, alive, fault>>
    PROVE  IInv'
<1>1. /\ alive /\ reports.connected = 0 /\ reports.error = 0
      /\ L(by) \in Lookup /\ L(by).by = by /\ L(by).attempt = attempt /\ attempt > 0
  <2>1. alive /\ reports.connected = 0 /\ reports.error = 0
    BY DEF IInv, Shape, Phase, Heard
  <2>2. attempt \in 1 .. MaxAttempts
    BY ConnectorAssumption DEF IInv, Shape, Phase, ConnectorAssumption
  <2> QED BY <2>1, <2>2 DEF L, Lookup
<1>2. ~srv'.busy /\ srv'.timer = srv'.busy /\ srv' \in [busy : BOOLEAN, timer : BOOLEAN]
  OBVIOUS
<1>3. Shape'
  BY <1>1, <1>2 DEF IInv, Shape
<1>4. Current' = {L(by)}
  BY <1>1 DEF Current
<1>5. L(by)' = L(by)
  BY DEF L
<1>6. Phase'
  <2>1. Waiting'
    <3>1. CASE by = "sock"
      BY <3>1, <1>2, <1>4, <1>5 DEF Waiting
    <3>2. CASE by = "dns"
      BY <3>2, <1>2, <1>4, <1>5 DEF Waiting
    <3> QED BY <3>1, <3>2
  <2>2. sock' # "Connected"
    OBVIOUS
  <2> QED BY <2>1, <2>2, <1>1, <1>2 DEF Phase
<1>7. Heard' /\ Ports'
  BY <1>1, <1>2 DEF IInv, Heard, Ports
<1>8. GivenUp'
  <2>2. \A m \in left : m.attempt <= attempt /\ (m.attempt # attempt => ~Awaited(m))
    BY DEF IInv, GivenUp, Awaited
  <2>3. \A m \in left : given' # {} \/ m.attempt # attempt
    OBVIOUS
  <2>4. \A m \in left : m.attempt # attempt => given' # {} /\ (m.by # "srv" => "abort" \in given')
    BY <2>2 DEF IInv, GivenUp
  <2>5. \A m \in left : given' # {} /\ (m.by # "srv" => "abort" \in given')
    BY <2>3, <2>4
  <2>6. \A m \in lookups' : m \in left \/ m = L(by)
    OBVIOUS
  <2>7. L(by).attempt <= attempt
    BY <1>1 DEF IInv, Shape
  <2>8. \A m \in lookups' : m.attempt <= attempt'
    BY <2>2, <2>6, <2>7
  <2>9. \A m \in lookups' : ~Awaited(m)' => given' # {} /\ (m.by # "srv" => "abort" \in given')
    <3> TAKE m \in lookups'
    <3>1. CASE m \in left
      BY <3>1, <2>5
    <3>2. CASE m = L(by)
      <4>1. Awaited(m)'
        BY <3>2, <1>1 DEF Awaited
      <4> QED BY <4>1
    <3> QED BY <3>1, <3>2, <2>6
  <2> QED BY <2>8, <2>9 DEF GivenUp
<1> QED BY <1>3, <1>6, <1>7, <1>8 DEF IInv

\* The SRV answer and the SRV timer.
LEMMA SrvEnds ==
    IInv /\ fault = "none" /\ (SrvTimeout \/ \E l \in lookups : SrvAnswer(l)) => IInv'
<1>1. ASSUME IInv, fault = "none", srv.busy
      PROVE  /\ conn.mode = "Connecting" /\ sock = "none"
             /\ ~conn.will_be_ssl /\ ~conn.using_srv
             /\ \A l \in lookups : l.attempt = attempt => l.by = "srv"
  BY <1>1 DEF IInv, Phase, Waiting, Current, Ports
<1>2. ASSUME IInv
      PROVE  /\ Fallback(conn) \in ConnWith(Fallback(conn))
             /\ Fallback(conn).mode = conn.mode
             /\ Fallback(conn).will_be_ssl <=> Fallback(conn).port = "5223"
             /\ ~Fallback(conn).using_srv
  BY <1>2 DEF IInv, Shape, Options, ConnWith, Fallback
<1>3. ASSUME IInv, fault = "none", SrvTimeout PROVE IInv'
  <2>1. srv.busy
    BY <1>3 DEF IInv, Phase, SrvTimeout
  <2>2. /\ conn' = Fallback(conn) /\ srv' = [busy |-> FALSE, timer |-> FALSE]
        /\ lookups' = lookups \cup {L("dns")} /\ given' = given \cup {"timeout"}
        /\ UNCHANGED <<opt, sock, attempt, reports, alive, fault>>
    BY <1>3 DEF SrvTimeout, AfterTimeout, SrvIdle
  <2>3. given' \subseteq {"timeout", "abort"} /\ given' # {} /\ given \subseteq given'
    BY <2>2, <1>3 DEF IInv, Shape
  <2> QED BY <2>1, <2>2, <2>3, <1>1, <1>2, <1>3, NextLookup
<1>4. ASSUME IInv, fault = "none", NEW l \in lookups, SrvAnswer(l) PROVE IInv'
  <2> DEFINE left == lookups \ {l}
  <2>1. srv.busy /\ l = L("srv")
    BY <1>4 DEF SrvAnswer, Awaited, IInv, Shape, L, Lookup
  <2>2. left \subseteq lookups /\ \A m \in left : m.attempt # attempt
    BY <2>1, <1>1, <1>4 DEF IInv, Shape, L, Lookup
  <2>3. PICK list \in Lists : SrvDone(list, left)
    BY <1>4 DEF SrvAnswer
  <2>4. srv' = [busy |-> FALSE, timer |-> FALSE] /\ UNCHANGED <<sock, opt, attempt, given, alive, fault>>
    BY <1>4, <2>3 DEF SrvAnswer, SrvDone, SrvIdle
  <2>5. lookups' = left \cup {L("dns")} /\ UNCHANGED reports
    BY <2>3 DEF SrvDone, TryNextSrv
  <2>6. /\ conn' \in ConnWith(conn') /\ conn'.mode = "Connecting"
        /\ conn'.will_be_ssl <=> conn'.port = "5223"
        /\ conn'.will_be_ssl => ~conn'.using_srv
    <3>1. CASE conn' = Fallback(conn)
      BY <3>1, <1>1, <1>2, <1>4, <2>1
    <3>2. CASE TryNextSrv(WithServers(conn, list), left)
      BY <3>2, <1>1, <1>4, <2>1 DEF TryNextSrv, WithServers, IInv, Shape, ConnWith
    <3> QED BY <3>1, <3>2, <2>3 DEF SrvDone
  <2>7. given' \subseteq {"timeout", "abort"} /\ given \subseteq given'
    BY <2>4, <1>4 DEF IInv, Shape
  <2> HIDE DEF left
  <2> QED BY <2>1, <2>2, <2>4, <2>5, <2>6, <2>7, <1>1, <1>4, NextLookup
<1> QED BY <1>3, <1>4

\* What TryNextSrv and DoConnect make of the attempt.
LEMMA NextTarget ==
    ASSUME IInv, fault = "none", conn.mode = "Connecting", ~srv.busy, conn.using_srv,
           NEW left, left \subseteq lookups, TryNextSrv(conn, left),
           \A l \in left : l.attempt = attempt => l.by = "srv",
           sock' \in {"none", "Idle"}, UNCHANGED <<opt, srv, attempt, alive, fault>>
    PROVE  IInv'
<1>1. /\ lookups' = left \cup {L("dns")} /\ UNCHANGED <<reports, given>>
      /\ conn' \in ConnWith(conn') /\ conn'.mode = "Connecting"
      /\ conn'.will_be_ssl <=> conn'.port = "5223"
      /\ ~conn'.will_be_ssl
  BY DEF TryNextSrv, IInv, Shape, ConnWith, Ports
<1>2. \A l \in left : l.attempt = attempt => given' # {}
  BY <1>1 DEF IInv, GivenUp, Awaited
<1>3. srv' = [busy |-> FALSE, timer |-> FALSE]
  BY DEF IInv, Shape, Phase
<1>4. given \subseteq given' /\ given' \subseteq {"timeout", "abort"}
  BY <1>1 DEF IInv, Shape
<1> QED BY <1>1, <1>2, <1>3, <1>4, NextLookup

LEMMA NextSocket ==
    ASSUME IInv, fault = "none", conn.mode = "Connecting", ~srv.busy,
           NEW left, left \subseteq lookups, NEW c, c \in {conn, ProbePlain(conn)}, DoConnect(c, left),
           \A l \in left : l.attempt = attempt => l.by = "srv",
           UNCHANGED <<opt, srv, attempt, alive, fault>>
    PROVE  IInv'
<1>1. /\ lookups' = left \cup {L("sock")} /\ UNCHANGED <<reports, given>> /\ sock' = "HostLookup"
      /\ conn' \in ConnWith(conn') /\ conn'.mode = "Connecting"
      /\ conn'.will_be_ssl <=> conn'.port = "5223"
      /\ conn'.will_be_ssl => ~conn'.using_srv
  BY DEF DoConnect, IInv, Shape, ConnWith, Ports, ProbePlain
<1>2. \A l \in left : l.attempt = attempt => given' # {}
  BY <1>1 DEF IInv, GivenUp, Awaited
<1>3. srv' = [busy |-> FALSE, timer |-> FALSE]
  BY DEF IInv, Shape, Phase
<1>4. given \subseteq given' /\ given' \subseteq {"timeout", "abort"}
  BY <1>1 DEF IInv, Shape
<1> QED BY <1>1, <1>2, <1>3, <1>4, NextLookup

\* An address is the only thing awaited when it comes.
LEMMA Addresses ==
    ASSUME IInv, fault = "none", NEW l \in lookups, DnsAnswer(l) \/ SockAnswer(l)
    PROVE  IInv'
<1> DEFINE left == lookups \ {l}
<1>1. Awaited(l) /\ l.attempt = attempt /\ l.by \in {"dns", "sock"} /\ l \in Current
  BY DEF DnsAnswer, SockAnswer, Awaited, Current
<1>2. conn.mode = "Connecting" /\ ~srv.busy /\ Waiting
  BY <1>1 DEF IInv, Shape, ConnWith, Phase, Waiting, Awaited
<1>3. Current = {l} /\ left \subseteq lookups
  BY <1>1, <1>2 DEF Waiting, IInv, Shape, Phase
<1>4. \A m \in left : m.attempt = attempt => m.by = "srv"
  BY <1>3 DEF Current
<1>5. CASE DnsAnswer(l)
  <2>1. sock \in {"none", "Idle"}
    BY <1>1, <1>2, <1>5 DEF DnsAnswer, Waiting, IInv, Shape, Phase, L
  <2>2. UNCHANGED <<opt, attempt, alive, fault>>
    BY <1>5 DEF DnsAnswer
  <2>3. CASE DoConnect(conn, left) /\ UNCHANGED srv
    BY <2>2, <2>3, <1>2, <1>3, <1>4, NextSocket
  <2>4. CASE TargetsLeft(conn) /\ TryNextSrv(conn, left) /\ UNCHANGED <<srv, sock>>
    BY <2>1, <2>2, <2>4, <1>2, <1>3, <1>4, NextTarget DEF TargetsLeft
  <2>5. CASE Fail(left)
    BY <2>2, <2>5, <1>2, <1>3, CleanedUp DEF Fail
  <2> QED BY <1>5, <2>3, <2>4, <2>5 DEF DnsAnswer
<1>6. CASE SockAnswer(l)
  <2>1. /\ sock' = "Connecting" /\ lookups' = left
        /\ UNCHANGED <<opt, conn, srv, attempt, reports, given, alive, fault>>
    BY <1>6 DEF SockAnswer
  <2>2. Current' = {}
    BY <2>1, <1>4 DEF Current
  <2>3. Shape' /\ Heard' /\ Ports' /\ GivenUp'
    BY <2>1, <1>2, <1>3 DEF IInv, Shape, Heard, Ports, GivenUp, Awaited
  <2>4. Phase'
    BY <2>1, <2>2, <1>2 DEF IInv, Phase, Waiting
  <2> QED BY <2>3, <2>4 DEF IInv
<1> QED BY <1>5, <1>6

\* The socket connects, is refused, or breaks.
LEMMA Socket ==
    ASSUME IInv, fault = "none", BsConnected \/ BsRefused \/ BsBroken
    PROVE  IInv'
<1>1. CASE BsConnected \/ BsBroken
  <2>1. /\ UNCHANGED <<opt, srv, lookups, attempt, given, alive, fault>>
        /\ conn'.mode = "Connected" /\ conn' \in ConnWith(conn')
        /\ conn.mode # "Idle" /\ UNCHANGED <<conn.will_be_ssl, conn.port, conn.using_srv>>
        /\ conn'.useSSL <=> (opt.host /\ opt.ssl) \/ conn.will_be_ssl
        /\ ~srv.busy /\ Current = {}
    <3>1. CASE BsConnected
      BY <3>1 DEF BsConnected, IInv, Shape, ConnWith, Options, Phase, Waiting
    <3>2. CASE BsBroken
      BY <3>2 DEF BsBroken, IInv, Shape, ConnWith, Phase, Waiting, Ports
    <3> QED BY <3>1, <3>2, <1>1
  <2>2. Shape' /\ Heard'
    <3>1. CASE BsConnected
      BY <3>1, <2>1 DEF BsConnected, IInv, Shape, Heard, Phase, Waiting, ConnWith
    <3>2. CASE BsBroken
      BY <3>2, <2>1 DEF BsBroken, IInv, Shape, Heard, Phase, Waiting, ConnWith
    <3> QED BY <3>1, <3>2, <1>1
  <2>3. Phase'
    <3>1. sock' \in {"Connected", "Idle"} /\ Current' = Current
      BY <2>1, <1>1 DEF BsConnected, BsBroken, Current
    <3> QED BY <3>1, <2>1 DEF IInv, Phase
  <2>4. Ports'
    BY <2>1 DEF IInv, Ports
  <2>5. GivenUp'
    BY <2>1 DEF IInv, GivenUp, Awaited
  <2> QED BY <2>2, <2>3, <2>4, <2>5 DEF IInv
<1>2. CASE BsRefused
  <2>1. conn.mode = "Connecting" /\ ~srv.busy /\ Current = {} /\ UNCHANGED <<opt, attempt, alive, fault>>
    BY <1>2 DEF BsRefused, IInv, Shape, ConnWith, Phase, Waiting
  <2>2. lookups \subseteq lookups /\ \A m \in lookups : m.attempt = attempt => m.by = "srv"
    BY <2>1 DEF Current
  <2>3. CASE TargetsLeft(conn) /\ TryNextSrv(conn, lookups) /\ sock' = "Idle" /\ UNCHANGED srv
    BY <2>1, <2>2, <2>3, NextTarget DEF TargetsLeft
  <2>4. CASE DoConnect(ProbePlain(conn), lookups) /\ UNCHANGED srv
    BY <2>1, <2>2, <2>4, NextSocket
  <2>5. CASE Fail(lookups)
    BY <2>1, <2>2, <2>5, CleanedUp DEF Fail
  <2> QED BY <1>2, <2>3, <2>4, <2>5 DEF BsRefused
<1> QED BY <1>1, <1>2

-----------------------------------------------------------------------------
\* The invariant is inductive.
LEMMA StepHolds == IInv /\ [Next]_vars => IInv'
<1> SUFFICES ASSUME IInv, [Next]_vars PROVE IInv'
  OBVIOUS
<1>1. CASE ConnectToServer
  BY <1>1, Starts
<1>2. CASE Done \/ Destroy
  BY <1>2, UserEnds
<1>3. CASE SrvTimeout
  BY <1>3, SrvEnds DEF SrvTimeout
<1>4. ASSUME NEW l \in lookups, Answer(l) PROVE IInv'
  BY <1>4, Late, SrvEnds, Addresses DEF Answer
<1>5. CASE BsConnected \/ BsRefused \/ BsBroken
  BY <1>5, Socket DEF BsConnected, BsRefused, BsBroken
<1>6. CASE UNCHANGED vars
  BY <1>6 DEF vars, IInv, Shape, Phase, Waiting, Current, L, Heard, Ports, GivenUp, Awaited
<1> QED BY <1>1, <1>2, <1>3, <1>4, <1>5, <1>6 DEF Next

\* Every reachable state satisfies it.
LEMMA Reachable == Spec => []IInv
  BY InitHolds, StepHolds, PTL DEF Spec

\* One attempt, one report, for any number of attempts, targets and lookups.
THEOREM ReportsOnce == Spec => []OneReport
<1>1. IInv => OneReport
  BY DEF IInv, Shape, ConnWith, Phase, Heard, OneReport
<1> QED BY <1>1, Reachable, PTL

\* The SSL flag of a connection agrees with the port it was made to.
THEOREM FlagMatchesPort == Spec => []SslMatchesPort
<1>1. IInv => SslMatchesPort
  BY DEF IInv, Phase, Ports, SslMatchesPort
<1> QED BY <1>1, Reachable, PTL

\* The connector waits for one thing at a time, and late answers do harm only
\* after a lookup was given up.
THEOREM LateOnlyWhenGivenUp == Spec => []LateAnswers
<1>1. ASSUME IInv PROVE LateAnswers
  <2> DEFINE A == {l \in lookups : Awaited(l)}
             n == IF sock \in {"Connecting", "Connected"} THEN 1 ELSE 0
  <2>1. /\ fault = "freed" => given # {}
        /\ fault = "stale" => given # {} /\ (attempt > 1 \/ "abort" \in given)
    BY <1>1 DEF IInv, GivenUp
  <2>2. ASSUME fault = "none" PROVE Cardinality(A) + n <= 1
    <3>1. CASE A = {}
      BY <3>1, FS_EmptySet
    <3>2. CASE A # {}
      <4>1. PICK l \in lookups : Awaited(l)
        BY <3>2
      <4>2. \A m \in lookups : m = [by |-> m.by, attempt |-> m.attempt]
        BY <1>1 DEF IInv, Shape, Lookup
      <4>3. CASE srv.busy
        <5>1. sock = "none" /\ Current = {}
          BY <4>3, <1>1 DEF IInv, Phase, Waiting
        <5>2. \A m \in A : m.attempt = attempt /\ m.by = "srv"
          BY <5>1 DEF Awaited, Current
        <5>3. A = {l}
          BY <4>1, <4>2, <5>2
        <5> QED BY <5>1, <5>3, FS_Singleton
      <4>4. CASE ~srv.busy
        <5>1. A \subseteq Current
          BY <4>4 DEF Awaited, Current
        <5>2. conn.mode = "Connecting" /\ Waiting
          BY <4>1, <5>1, <1>1 DEF IInv, Shape, ConnWith, Phase, Awaited
        <5>3. sock \in {"none", "Idle", "HostLookup"}
          BY <4>1, <4>4, <5>1, <5>2, <1>1 DEF IInv, Shape, Phase, Waiting
        <5>4. A = {l}
          BY <4>1, <4>4, <5>1, <5>2, <5>3 DEF Waiting
        <5>5. n = 0
          BY <5>3
        <5>6. Cardinality(A) = 1
          BY <5>4, FS_Singleton
        <5> HIDE DEF A, n
        <5> QED BY <5>5, <5>6
      <4> QED BY <4>3, <4>4
    <3> QED BY <3>1, <3>2
  <2> QED BY <2>1, <2>2 DEF LateAnswers
<1> QED BY <1>1, Reachable, PTL

-----------------------------------------------------------------------------
(* The order of the targets.                                               *)

\* Of two records one is taken before the other, and never in a circle.
LEMMA TakingIsLinear ==
    ASSUME NEW list \in Seq(Record)
    PROVE  \A i, j, k \in DOMAIN list :
              /\ ~TakenBefore(list, i, i)
              /\ i # j => TakenBefore(list, i, j) \/ TakenBefore(list, j, i)
              /\ TakenBefore(list, i, j) => ~TakenBefore(list, j, i)
              /\ TakenBefore(list, i, j) /\ TakenBefore(list, j, k) => TakenBefore(list, i, k)
<1> SUFFICES ASSUME NEW i \in DOMAIN list, NEW j \in DOMAIN list, NEW k \in DOMAIN list
             PROVE  /\ ~TakenBefore(list, i, i)
                    /\ i # j => TakenBefore(list, i, j) \/ TakenBefore(list, j, i)
                    /\ TakenBefore(list, i, j) => ~TakenBefore(list, j, i)
                    /\ TakenBefore(list, i, j) /\ TakenBefore(list, j, k) => TakenBefore(list, i, k)
  OBVIOUS
<1>1. \A r \in Record : r.priority \in Int /\ r.weight \in Int
  BY DEF Record
<1>2. \A l \in DOMAIN list : l \in Int /\ list[l].priority \in Int /\ list[l].weight \in Int
  BY <1>1
<1> QED BY <1>2 DEF TakenBefore, Before

\* sortSRVList returns the records it was given, each once, those first that are
\* to be taken first.
LEMMA SortedOnce ==
    ASSUME NEW list \in Seq(Record)
    PROVE  /\ SortSRVList(list) \in Seq(Record) /\ Len(SortSRVList(list)) = Len(list)
           /\ \E f \in Bijection(DOMAIN list, DOMAIN list) :
                /\ \A k \in DOMAIN list : SortSRVList(list)[k] = list[f[k]]
                /\ \A j, k \in DOMAIN list : j < k => TakenBefore(list, f[j], f[k])
<1> DEFINE n == Len(list)
           D == DOMAIN list
           earlier(i) == {j \in D : TakenBefore(list, j, i)}
           f == [k \in D |-> CHOOSE i \in D : Cardinality(earlier(i)) = k - 1]
<1>1. n \in Nat /\ D = 1 .. n /\ IsFiniteSet(D) /\ Cardinality(D) = n
  <2>1. n \in Nat /\ D = 1 .. n
    BY LenProperties
  <2> HIDE DEF n, D
  <2>2. IsFiniteSet(1 .. n) /\ Cardinality(1 .. n) = IF 1 > n THEN 0 ELSE n - 1 + 1
    BY <2>1, FS_Interval
  <2> QED BY <2>1, <2>2
<1>2. \A i \in D : IsFiniteSet(earlier(i)) /\ Cardinality(earlier(i)) \in 0 .. n - 1
  <2> SUFFICES ASSUME NEW i \in D
               PROVE  IsFiniteSet(earlier(i)) /\ Cardinality(earlier(i)) \in 0 .. n - 1
    OBVIOUS
  <2>1. earlier(i) \in SUBSET (D \ {i})
    BY TakingIsLinear
  <2>2. IsFiniteSet(D \ {i}) /\ Cardinality(D \ {i}) = n - 1
    BY <1>1, FS_RemoveElement
  <2> HIDE DEF earlier, D, n
  <2>3. IsFiniteSet(earlier(i)) /\ Cardinality(earlier(i)) <= n - 1
    BY <2>1, <2>2, FS_Subset
  <2> QED BY <2>3, <1>1, FS_CardinalityType
<1>3. \A i, j \in D : TakenBefore(list, i, j) => Cardinality(earlier(i)) < Cardinality(earlier(j))
  <2> SUFFICES ASSUME NEW i \in D, NEW j \in D, TakenBefore(list, i, j)
               PROVE  Cardinality(earlier(i)) < Cardinality(earlier(j))
    OBVIOUS
  <2>1. earlier(i) \in SUBSET earlier(j)
    BY TakingIsLinear
  <2>2. i \in earlier(j) /\ i \notin earlier(i)
    BY TakingIsLinear
  <2> HIDE DEF earlier, D, n
  <2>3. /\ Cardinality(earlier(i)) <= Cardinality(earlier(j))
        /\ Cardinality(earlier(j)) = Cardinality(earlier(i)) => earlier(j) = earlier(i)
    BY <2>1, <1>2, FS_Subset
  <2>4. Cardinality(earlier(i)) # Cardinality(earlier(j))
    BY <2>2, <2>3
  <2> QED BY <2>3, <2>4, <1>1, <1>2
<1> HIDE DEF earlier
<1>4. PICK rank \in [D -> D] : \A i \in D : Cardinality(earlier(i)) = rank[i] - 1
  <2> DEFINE r == [i \in D |-> Cardinality(earlier(i)) + 1]
  <2>1. \A i \in D : Cardinality(earlier(i)) + 1 \in D /\ Cardinality(earlier(i)) = r[i] - 1
    BY <1>1, <1>2
  <2>2. r \in [D -> D]
    BY <2>1
  <2> QED BY <2>1, <2>2
<1> HIDE DEF D, n
<1>5. \A i \in D : rank[i] \in Int
  BY <1>1, <1>4
<1>5a. \A i, j \in D : TakenBefore(list, i, j) => rank[i] < rank[j]
  BY <1>3, <1>4, <1>5
<1>5b. \A i, j \in D : rank[i] = rank[j] => i = j
  BY <1>5, <1>5a, TakingIsLinear DEF D
<1>6. rank \in Injection(D, D)
  BY <1>4, <1>5b DEF Injection, IsInjective
<1>7. rank \in Surjection(D, D)
  BY <1>1, <1>6, FS_Injection
<1>8. \A k \in D : \E i \in D : rank[i] = k
  BY <1>7 DEF Surjection
<1>9. \A k \in D : f[k] \in D /\ rank[f[k]] = k
  <2> SUFFICES ASSUME NEW k \in D PROVE f[k] \in D /\ rank[f[k]] = k
    OBVIOUS
  <2>1. PICK i \in D : rank[i] = k
    BY <1>8
  <2>2. k \in Int
    BY <1>1
  <2>3. \A l \in D : rank[l] = k <=> Cardinality(earlier(l)) = k - 1
    <3> SUFFICES ASSUME NEW l \in D PROVE rank[l] = k <=> Cardinality(earlier(l)) = k - 1
      OBVIOUS
    <3> HIDE DEF f
    <3>1. PICK x \in Int : x = rank[l]
      BY <1>5
    <3>2. x = k <=> x - 1 = k - 1
      BY <2>2
    <3> QED BY <3>1, <3>2, <1>4
  <2>4. f[k] = CHOOSE l \in D : Cardinality(earlier(l)) = k - 1
    OBVIOUS
  <2>5. \E l \in D : Cardinality(earlier(l)) = k - 1
    BY <2>1, <2>3
  <2> HIDE DEF f
  <2>6. f[k] \in D /\ Cardinality(earlier(f[k])) = k - 1
    BY <2>4, <2>5
  <2> QED BY <2>3, <2>6
<1>10. f \in [D -> D]
  BY <1>9
<1> HIDE DEF f
<1>11. f \in Bijection(D, D)
  <2>1. \A i, j \in D : f[i] = f[j] => i = j
    BY <1>9
  <2>2. \A i \in D : f[rank[i]] = i
    BY <1>4, <1>5b, <1>9
  <2>3. \A i \in D : \E k \in D : f[k] = i
    BY <2>2, <1>5
  <2> QED BY <2>1, <2>3, <1>10 DEF Bijection, Injection, IsInjective, Surjection
<1>12. \A j, k \in D : j < k => TakenBefore(list, f[j], f[k])
  <2> SUFFICES ASSUME NEW j \in D, NEW k \in D, j < k PROVE TakenBefore(list, f[j], f[k])
    OBVIOUS
  <2>1. PICK a \in D, b \in D : a = f[j] /\ b = f[k] /\ rank[a] = j /\ rank[b] = k
    BY <1>9
  <2>2. j \in Int /\ k \in Int
    BY <1>1
  <2>3. ~(rank[b] < rank[a]) /\ a # b
    BY <2>1, <2>2
  <2>4. ~TakenBefore(list, b, a)
    BY <2>3, <1>5a
  <2>5. TakenBefore(list, a, b)
    BY <2>3, <2>4, TakingIsLinear DEF D
  <2> QED BY <2>1, <2>5
<1>13. SortSRVList(list) = [k \in D |-> list[f[k]]]
  BY DEF SortSRVList, f, D, earlier
<1>14. SortSRVList(list) \in Seq(Record) /\ Len(SortSRVList(list)) = n
  <2>1. \A k \in 1 .. n : list[f[k]] \in Record
    <3>1. \A i \in D : list[i] \in Record
      BY DEF D
    <3> QED BY <3>1, <1>1, <1>9
  <2>2. [k \in 1 .. n |-> list[f[k]]] \in [1 .. n -> Record]
    BY <2>1
  <2> QED BY <2>2, <1>1, <1>13
<1>15. \A k \in D : SortSRVList(list)[k] = list[f[k]]
  BY <1>13
<1> QED BY <1>11, <1>12, <1>14, <1>15 DEF n, D

-----------------------------------------------------------------------------
\* The targets that were tried are the first of the sorted answer, and those
\* left are the others; none are left when the attempt has failed.
Sorted == SortSRVList(answer)

Order ==
    /\ answer \in Seq(Record) /\ tried \in Seq(Targets)
    /\ \A i, j \in DOMAIN answer : answer[i].name = answer[j].name => i = j
    /\ conn.host \in Targets \cup {Domain, OptHost} /\ conn.servers \in Seq(Record)
    /\ Len(tried) <= Len(Sorted) /\ \A i \in DOMAIN tried : tried[i] = Sorted[i].name
    /\ srv.busy => conn.multi
    /\ srv.busy \/ (conn.mode # "Idle" /\ ~conn.using_srv) => answer = <<>>
    /\ conn.using_srv =>
         conn.multi /\ conn.servers = SubSeq(Sorted, Len(tried) + 1, Len(Sorted))
    /\ conn.mode = "Connected" => reports.connected = 1
    /\ reports.error = 1 /\ reports.connected = 0 => Len(tried) = Len(Sorted)

\* Nothing is sorted to nothing.
LEMMA SortedEmpty == <<>> \in Seq(Record) /\ SortSRVList(<<>>) = <<>>
<1>1. <<>> \in Seq(Record)
  OBVIOUS
<1>2. SortSRVList(<<>>) \in Seq(Record) /\ Len(SortSRVList(<<>>)) = 0
  BY <1>1, SortedOnce
<1> QED BY <1>1, <1>2, EmptySeq

\* The first of what is left of a sequence, and the rest.
LEMMA RestOfSeq ==
    ASSUME NEW S, NEW q \in Seq(S), NEW k \in 1 .. Len(q)
    PROVE  LET x == SubSeq(q, k, Len(q)) IN
             /\ Head(x) = q[k] /\ q[k] \in S
             /\ Tail(x) = SubSeq(q, k + 1, Len(q)) /\ Tail(x) \in Seq(S)
<1> DEFINE x == SubSeq(q, k, Len(q))
<1>1. Len(q) \in Nat /\ Len(q) \in k .. Len(q)
  BY LenProperties
<1>2. Head(x) = q[k] /\ Tail(x) = SubSeq(q, k + 1, Len(q))
  BY <1>1, HeadTailOfSubSeq
<1>3. q[k] \in S /\ \A i \in k + 1 .. Len(q) : q[i] \in S
  BY <1>1, ElementOfSeq
<1>4. SubSeq(q, k + 1, Len(q)) \in Seq(S)
  BY <1>1, <1>3, SubSeqProperties
<1> QED BY <1>2, <1>3, <1>4

\* Nothing is sorted before an attempt, and nothing is tried.
LEMMA OrderInit == Init => Order
<1> SUFFICES ASSUME Init PROVE Order
  OBVIOUS
<1> QED BY SortedEmpty DEF Init, Order, Sorted, SrvIdle

\* The next target of an answer, the first of a new one or another of the old.
LEMMA OrderNextTarget ==
    ASSUME IInv, NEW c, NEW left, TryNextSrv(c, left),
           c.using_srv, c.multi, c.mode = "Connecting", c \in ConnWith(c), c.servers # <<>>,
           reports.error = 0, reports.connected = 0,
           NEW t \in Seq(Targets), tried' = Append(t, Head(c.servers).name),
           answer' \in Seq(Record),
           \A i, j \in DOMAIN answer' : answer'[i].name = answer'[j].name => i = j,
           c.servers = SubSeq(Sorted', Len(t) + 1, Len(Sorted')),
           \A i \in DOMAIN t : t[i] = Sorted'[i].name,
           ~srv'.busy
    PROVE  Order'
<1>1. PICK s \in Seq(Record) : s = Sorted'
  BY SortedOnce DEF Sorted
<1>0. s \in Seq(Record) /\ Len(t) \in Nat /\ Len(s) \in Nat
  BY LenProperties
<1>2. /\ conn'.host = Head(c.servers).name /\ conn'.servers = Tail(c.servers)
      /\ conn'.using_srv /\ conn'.multi /\ conn'.mode = "Connecting"
      /\ UNCHANGED reports
  BY DEF TryNextSrv, ConnWith
<1>3. c.servers = SubSeq(s, Len(t) + 1, Len(s)) /\ \A i \in DOMAIN t : t[i] = s[i].name
  BY <1>1
<1>4. Len(t) < Len(s)
  BY <1>0, <1>3, SubSeqEmpty
<1>5. /\ Head(c.servers) = s[Len(t) + 1] /\ Tail(c.servers) = SubSeq(s, Len(t) + 2, Len(s))
      /\ s[Len(t) + 1] \in Record /\ Tail(c.servers) \in Seq(Record)
  <2>1. PICK m \in 1 .. Len(s) : m = Len(t) + 1
    BY <1>0, <1>1, <1>4
  <2>2. PICK r : r = c.servers
    OBVIOUS
  <2>3. r = SubSeq(s, m, Len(s))
    BY <1>3, <2>1, <2>2
  <2>4. /\ Head(r) = s[m] /\ s[m] \in Record
        /\ Tail(r) = SubSeq(s, m + 1, Len(s)) /\ Tail(r) \in Seq(Record)
    BY <2>3, RestOfSeq
  <2>5. m + 1 = Len(t) + 2
    BY <1>0, <1>1, <2>1
  <2> QED BY <2>1, <2>2, <2>4, <2>5
<1>8. Head(c.servers).name \in Targets
  BY <1>5 DEF Record
<1>9. /\ tried' \in Seq(Targets) /\ Len(tried') = Len(t) + 1
      /\ \A i \in DOMAIN tried' : tried'[i] = s[i].name
  <2> DEFINE x == Head(c.servers).name
  <2>1. x = s[Len(t) + 1].name /\ tried' = Append(t, x)
    BY <1>5
  <2>2. x \in Targets
    BY <1>8
  <2> HIDE DEF x
  <2>3. /\ tried' \in Seq(Targets) /\ Len(tried') = Len(t) + 1
        /\ \A i \in 1 .. Len(t) : tried'[i] = t[i]
        /\ tried'[Len(t) + 1] = x
    BY <2>1, <2>2, AppendProperties
  <2>4. DOMAIN tried' = 1 .. Len(t) + 1 /\ DOMAIN t = 1 .. Len(t)
    BY <2>3, LenProperties
  <2> QED BY <1>0, <1>1, <1>3, <2>1, <2>3, <2>4
<1>10. Len(tried') <= Len(s) /\ Len(tried') + 1 = Len(t) + 2
  BY <1>0, <1>1, <1>4, <1>9
<1>11. /\ conn'.servers \in Seq(Record)
       /\ conn'.servers = SubSeq(Sorted', Len(tried') + 1, Len(Sorted'))
  BY <1>0, <1>1, <1>2, <1>5, <1>10
<1>12. Len(tried') <= Len(Sorted') /\ \A i \in DOMAIN tried' : tried'[i] = Sorted'[i].name
  BY <1>0, <1>1, <1>9, <1>10
<1>13. conn'.host \in Targets \cup {Domain, OptHost}
  BY <1>2, <1>8
<1>14. conn'.mode # "Connected" /\ reports'.error = 0 /\ (srv'.busy => conn'.multi)
       /\ (srv'.busy \/ (conn'.mode # "Idle" /\ ~conn'.using_srv) => answer' = <<>>)
  BY <1>2
<1>15. /\ answer' \in Seq(Record)
       /\ \A i, j \in DOMAIN answer' : answer'[i].name = answer'[j].name => i = j
  OBVIOUS
<1>16. conn'.using_srv => conn'.multi /\ conn'.servers = SubSeq(Sorted', Len(tried') + 1, Len(Sorted'))
  BY <1>2, <1>11
<1>17. tried' \in Seq(Targets) /\ conn'.servers \in Seq(Record)
  BY <1>9, <1>11
<1> QED BY <1>12, <1>13, <1>14, <1>15, <1>16, <1>17 DEF Order

\* The attempt fails only when there is nothing left to try.
LEMMA OrderFails ==
    ASSUME IInv, Order, conn.mode # "Idle", ~srv.busy, ~TargetsLeft(conn),
           NEW left, Fail(left), UNCHANGED answer
    PROVE  Order'
<1>1. Len(tried) = Len(Sorted)
  <2>1. CASE ~conn.using_srv
    BY <2>1, SortedEmpty, LenProperties DEF Order, Sorted
  <2>2. CASE conn.using_srv
    <3>1. conn.servers = <<>> /\ conn.servers = SubSeq(Sorted, Len(tried) + 1, Len(Sorted))
      BY <2>2 DEF TargetsLeft, Order
    <3>2. Sorted \in Seq(Record) /\ Len(Sorted) \in Nat /\ Len(tried) \in Nat
          /\ Len(tried) <= Len(Sorted)
      BY SortedOnce, LenProperties DEF Order, Sorted
    <3>3. \A i \in Len(tried) + 1 .. Len(Sorted) : Sorted[i] \in Record
      BY <3>2, ElementOfSeq
    <3>4. Len(conn.servers) = IF Len(tried) + 1 <= Len(Sorted)
                              THEN Len(Sorted) - (Len(tried) + 1) + 1 ELSE 0
      BY <3>1, <3>2, <3>3, SubSeqProperties
    <3> QED BY <3>1, <3>2, <3>4, EmptySeq
  <2> QED BY <2>1, <2>2
<1>2. /\ conn'.mode = "Idle" /\ ~conn'.using_srv
      /\ conn'.host = conn.host /\ conn'.servers = conn.servers
      /\ ~srv'.busy /\ UNCHANGED tried
  BY DEF Fail, Clean, CleanupOthers, SrvIdle, IInv, Shape, ConnWith
<1> QED BY <1>1, <1>2 DEF Order, Sorted

\* The targets left stay those of the sorted answer.
LEMMA OrderKept == IInv /\ Order /\ [Next]_vars => Order'
<1> SUFFICES ASSUME IInv, Order, [Next]_vars PROVE Order'
  OBVIOUS
<1>0. ASSUME conn.using_srv \/ conn.mode = "Connecting" \/ srv.busy
      PROVE  conn.mode # "Idle" /\ ~(srv.busy /\ conn.using_srv)
  BY <1>0 DEF IInv, Phase, Ports
<1>1. CASE ConnectToServer
  <2>1. /\ reports' = [connected |-> 0, error |-> 0] /\ answer' = <<>> /\ tried' = <<>>
        /\ conn'.mode = "Connecting" /\ ~conn'.using_srv /\ conn'.servers = conn.servers
        /\ conn'.host \in {conn.host, OptHost}
    BY <1>1 DEF ConnectToServer, IInv, Shape, ConnWith, Ports
  <2>2. srv'.busy => conn'.multi
    BY <1>1 DEF ConnectToServer, IInv, Shape, ConnWith, Phase
  <2>3. Sorted' = <<>> /\ answer' \in Seq(Record) /\ tried' \in Seq(Targets)
    BY <2>1, SortedEmpty DEF Sorted
  <2>4. conn'.host \in Targets \cup {Domain, OptHost} /\ conn'.servers \in Seq(Record)
    BY <2>1 DEF Order
  <2> QED BY <2>1, <2>2, <2>3, <2>4 DEF Order
<1>2. CASE Done \/ Destroy
  <2>1. /\ conn'.mode = "Idle" /\ ~conn'.using_srv
        /\ conn'.host = conn.host /\ conn'.servers = conn.servers
        /\ ~srv'.busy /\ UNCHANGED <<tried, answer, reports>>
    <3>1. conn' = Clean(conn) /\ srv' = SrvIdle /\ UNCHANGED <<tried, answer, reports>>
      BY <1>2 DEF Done, Destroy, CleanupOthers
    <3> QED BY <3>1 DEF Clean, SrvIdle, IInv, Shape, ConnWith
  <2> QED BY <2>1 DEF Order, Sorted
<1>3. CASE SrvTimeout
  <2>1. srv.busy /\ conn.mode = "Connecting"
    BY <1>3 DEF SrvTimeout, IInv, Phase
  <2>2. /\ conn'.host = Domain /\ conn'.servers = <<>> /\ ~conn'.using_srv
        /\ conn'.mode = "Connecting" /\ UNCHANGED <<tried, answer, reports>> /\ ~srv'.busy
    BY <1>3, <2>1 DEF SrvTimeout, Fallback, AfterTimeout, SrvIdle, IInv, Shape, ConnWith
  <2>3. answer = <<>> /\ Sorted' = Sorted /\ conn'.servers \in Seq(Record)
    BY <2>1, <2>2, SortedEmpty DEF Order, Sorted
  <2> QED BY <2>2, <2>3 DEF Order
<1>4. ASSUME NEW l \in lookups, fault = "none", LateAnswer(l) \/ SockAnswer(l) PROVE Order'
  <2>1. UNCHANGED <<conn, srv, reports, answer, tried>>
    BY <1>4 DEF LateAnswer, SockAnswer
  <2> QED BY <2>1 DEF Order, Sorted
<1>5. ASSUME NEW l \in lookups, SrvAnswer(l) PROVE Order'
  <2>1. srv.busy /\ conn.mode = "Connecting" /\ reports.error = 0 /\ reports.connected = 0
    BY <1>5 DEF SrvAnswer, Awaited, IInv, Phase, Heard
  <2>2. answer = <<>> /\ tried = <<>>
    <3>1. answer = <<>>
      BY <2>1 DEF Order
    <3>2. Len(tried) <= 0 /\ Len(tried) \in Nat /\ tried \in Seq(Targets)
      BY <3>1, SortedEmpty, LenProperties DEF Order, Sorted
    <3> QED BY <3>1, <3>2, EmptySeq
  <2>3. PICK list \in Lists : SrvDone(list, lookups \ {l})
    BY <1>5 DEF SrvAnswer
  <2>4. ~srv'.busy /\ answer' = list
    BY <2>3 DEF SrvDone, SrvIdle
  <2>5. list \in Seq(Record) /\ \A i, j \in DOMAIN list : list[i].name = list[j].name => i = j
    BY DEF Lists, BoundedSeq, SeqOf
  <2>6. CASE list = <<>>
    <3>1. /\ conn'.host = Domain /\ conn'.servers = <<>> /\ ~conn'.using_srv
          /\ conn'.mode = "Connecting" /\ UNCHANGED <<tried, reports>>
      BY <2>1, <2>3, <2>6 DEF SrvDone, Fallback, IInv, Shape, ConnWith
    <3> QED BY <2>1, <2>2, <2>4, <2>6, <3>1, SortedEmpty DEF Order, Sorted
  <2>7. CASE list # <<>>
    <3> DEFINE c == WithServers(conn, list)
               s == SortSRVList(list)
    <3>1. TryNextSrv(c, lookups \ {l})
      BY <2>3, <2>7 DEF SrvDone
    <3>2. s \in Seq(Record) /\ Len(s) = Len(list) /\ Len(list) \in Nat
      BY <2>5, SortedOnce, LenProperties
    <3>3. s # <<>> /\ s = SubSeq(s, 1, Len(s))
      <4> HIDE DEF s
      <4> QED BY <2>5, <2>7, <3>2, EmptySeq, SubSeqFull
    <3>4. /\ c.using_srv /\ c.multi /\ c.mode = "Connecting" /\ c \in ConnWith(c)
          /\ c.servers = s
      <4>1. conn.multi
        BY <2>1 DEF Order
      <4> QED BY <4>1, <2>1 DEF WithServers, IInv, Shape, ConnWith
    <3>5. tried' = Append(<<>>, Head(c.servers).name)
      BY <2>2, <3>1 DEF TryNextSrv
    <3>6. /\ <<>> \in Seq(Targets) /\ Len(<<>>) + 1 = 1
          /\ \A i \in DOMAIN <<>> : <<>>[i] = s[i].name
      OBVIOUS
    <3> HIDE DEF c, s
    <3>7. /\ c.servers = SubSeq(Sorted', Len(<<>>) + 1, Len(Sorted'))
          /\ \A i \in DOMAIN <<>> : <<>>[i] = Sorted'[i].name
      BY <2>4, <3>3, <3>4, <3>6 DEF s, Sorted
    <3> QED BY <2>1, <2>4, <2>5, <3>1, <3>3, <3>4, <3>5, <3>6, <3>7, OrderNextTarget
  <2> QED BY <2>6, <2>7
<1>6. ASSUME conn.mode = "Connecting", ~srv.busy, TargetsLeft(conn),
             NEW left, TryNextSrv(conn, left), UNCHANGED <<answer, srv>>
      PROVE  Order'
  <2> DEFINE s == SortSRVList(answer)
  <2>1. /\ conn.using_srv /\ conn.servers # <<>> /\ conn \in ConnWith(conn)
        /\ reports.error = 0 /\ reports.connected = 0
        /\ conn.multi /\ conn.servers = SubSeq(s, Len(tried) + 1, Len(s))
        /\ \A i \in DOMAIN tried : tried[i] = s[i].name
        /\ tried \in Seq(Targets)
        /\ answer \in Seq(Record)
        /\ \A i, j \in DOMAIN answer : answer[i].name = answer[j].name => i = j
    BY <1>6 DEF TargetsLeft, IInv, Shape, Heard, Order, Sorted
  <2>2. tried' = Append(tried, Head(conn.servers).name) /\ ~srv'.busy /\ answer' = answer
    BY <1>6 DEF TryNextSrv
  <2>3. PICK c : c = conn
    OBVIOUS
  <2>4. PICK t : t = tried
    OBVIOUS
  <2>5. /\ c.servers = SubSeq(Sorted', Len(t) + 1, Len(Sorted'))
        /\ \A i \in DOMAIN t : t[i] = Sorted'[i].name
    BY <2>1, <2>2, <2>3, <2>4 DEF Sorted
  <2>6. /\ TryNextSrv(c, left) /\ t \in Seq(Targets) /\ tried' = Append(t, Head(c.servers).name)
        /\ c.using_srv /\ c.multi /\ c.mode = "Connecting" /\ c \in ConnWith(c) /\ c.servers # <<>>
    BY <1>6, <2>1, <2>2, <2>3, <2>4
  <2>7. answer' \in Seq(Record)
        /\ \A i, j \in DOMAIN answer' : answer'[i].name = answer'[j].name => i = j
    BY <2>1, <2>2
  <2> QED BY <2>1, <2>2, <2>5, <2>6, <2>7, OrderNextTarget
<1>7. ASSUME NEW c \in {conn, ProbePlain(conn)}, NEW left, DoConnect(c, left),
             ~srv.busy, UNCHANGED <<srv, answer>>
      PROVE  Order'
  <2>1. /\ conn'.host = conn.host /\ conn'.servers = conn.servers /\ conn'.mode = conn.mode
        /\ conn'.using_srv = conn.using_srv /\ conn'.multi = conn.multi
        /\ UNCHANGED <<reports, tried>>
    BY <1>7 DEF DoConnect, ProbePlain, IInv, Shape, ConnWith
  <2> QED BY <2>1, <1>7 DEF Order, Sorted
<1>8. ASSUME NEW l \in lookups, DnsAnswer(l) PROVE Order'
  <2>1. l.by = "dns" /\ conn.mode # "Idle" /\ l.attempt = attempt /\ UNCHANGED answer
    BY <1>8 DEF DnsAnswer, Awaited
  <2>2. l \in Current
    BY <2>1 DEF Current
  <2>3. conn.mode = "Connecting" /\ ~srv.busy
    BY <2>1, <2>2 DEF IInv, Shape, ConnWith, Phase, Waiting
  <2> QED BY <1>6, <1>7, <1>8, <2>1, <2>3, OrderFails DEF DnsAnswer
<1>9. CASE BsConnected
  <2>1. /\ sock = "Connecting" /\ UNCHANGED <<srv, answer, tried>>
        /\ reports' = [reports EXCEPT !.connected = reports.connected + 1]
        /\ conn'.host = conn.host /\ conn'.servers = conn.servers /\ conn'.mode = "Connected"
        /\ conn'.using_srv = conn.using_srv /\ conn'.multi = conn.multi
    BY <1>9 DEF BsConnected, IInv, Shape, ConnWith
  <2>2. conn.mode = "Connecting" /\ ~srv.busy /\ reports.connected = 0
    BY <2>1 DEF IInv, Shape, ConnWith, Phase, Waiting, Heard
  <2>3. reports'.connected = 1
    BY <2>1, <2>2 DEF IInv, Shape
  <2> QED BY <2>1, <2>2, <2>3 DEF Order, Sorted
<1>10. CASE BsRefused
  <2>1. sock = "Connecting" /\ UNCHANGED answer
    BY <1>10 DEF BsRefused
  <2>2. conn.mode = "Connecting" /\ ~srv.busy
    BY <2>1 DEF IInv, Shape, ConnWith, Phase, Waiting
  <2>3. ~conn.multi => ~TargetsLeft(conn)
    BY DEF Order, TargetsLeft
  <2> QED BY <1>6, <1>7, <1>10, <2>1, <2>2, <2>3, OrderFails DEF BsRefused
<1>11. CASE BsBroken
  <2>1. /\ sock = "Connected" /\ UNCHANGED <<conn, srv, answer, tried>>
        /\ reports' = [reports EXCEPT !.error = reports.error + 1]
    BY <1>11 DEF BsBroken
  <2>2. conn.mode = "Connected" /\ reports'.connected = reports.connected
    BY <2>1 DEF IInv, Shape, ConnWith, Phase
  <2> QED BY <2>1, <2>2 DEF Order, Sorted
<1>12. CASE UNCHANGED vars
  BY <1>12 DEF vars, Order, Sorted
<1> QED BY <1>1, <1>2, <1>3, <1>4, <1>5, <1>8, <1>9, <1>10, <1>11, <1>12 DEF Next, Answer

\* Every reachable state satisfies both.
LEMMA OrderReachable == Spec => [](IInv /\ Order)
  BY InitHolds, StepHolds, OrderInit, OrderKept, PTL DEF Spec

\* The types hold in every reachable state, whatever the answers.
THEOREM TypeCorrect == Spec => []TypeOK
<1>1. IInv /\ Order => TypeOK
  BY DEF IInv, Shape, ConnWith, Conn, Order, TypeOK
<1> QED BY <1>1, OrderReachable, PTL

\* The targets of an answer of any length are tried by priority and weight, each
\* once, and an attempt that fails has tried them all.
THEOREM TargetsTried == Spec => []TargetsInOrder
<1>1. ASSUME Order PROVE TargetsInOrder
  <2> DEFINE D == DOMAIN answer
  <2>1. answer \in Seq(Record) /\ Len(answer) \in Nat /\ D = 1 .. Len(answer)
    BY <1>1, LenProperties DEF Order
  <2>2. Sorted \in Seq(Record) /\ Len(Sorted) = Len(answer)
    BY <2>1, SortedOnce DEF Sorted
  <2>3. PICK f \in Bijection(D, D) :
          /\ \A k \in D : Sorted[k] = answer[f[k]]
          /\ \A j, k \in D : j < k => TakenBefore(answer, f[j], f[k])
    BY <2>1, SortedOnce DEF Sorted
  <2>4. f \in [D -> D] /\ (\A j, k \in D : f[j] = f[k] => j = k) /\ \A k \in D : \E j \in D : f[j] = k
    BY DEF Bijection, Injection, IsInjective, Surjection
  <2>5. /\ Len(tried) \in Nat /\ DOMAIN tried = 1 .. Len(tried) /\ Len(tried) <= Len(answer)
        /\ \A i \in DOMAIN tried : i \in D /\ tried[i] = answer[f[i]].name
    <3>1. Len(tried) \in Nat /\ DOMAIN tried = 1 .. Len(tried) /\ Len(tried) <= Len(answer)
      BY <1>1, <2>2, LenProperties DEF Order
    <3>2. \A i \in DOMAIN tried : i \in D
      BY <2>1, <3>1
    <3> QED BY <1>1, <2>3, <3>1, <3>2 DEF Order
  <2>6. \A k \in D : answer[k] \in Record /\ answer[k] \in ToSet(answer)
    BY <2>1, ElementOfSeq DEF ToSet
  <2>7. \A r \in Record : r.priority \in Int /\ r.weight \in Int
    BY DEF Record
  <2>8. ASSUME NEW i \in DOMAIN tried, NEW j \in DOMAIN tried, i < j
        PROVE  \E a, b \in ToSet(answer) :
                 /\ a.name = tried[i] /\ b.name = tried[j] /\ a # b
                 /\ \/ a.priority < b.priority
                    \/ a.priority = b.priority /\ a.weight <= b.weight
    <3>1. PICK a, b \in ToSet(answer) : a = answer[f[i]] /\ b = answer[f[j]]
      BY <2>4, <2>5, <2>6
    <3>2. f[i] \in D /\ f[j] \in D /\ f[i] # f[j] /\ TakenBefore(answer, f[i], f[j])
      <4>1. i \in D /\ j \in D /\ i # j
        BY <2>5, <2>8
      <4> QED BY <4>1, <2>3, <2>4, <2>8
    <3>3. a.name = tried[i] /\ b.name = tried[j] /\ a # b
      BY <1>1, <2>5, <3>1, <3>2 DEF Order
    <3>4. a.priority \in Int /\ b.priority \in Int /\ a.weight \in Int /\ b.weight \in Int
      BY <2>6, <2>7, <3>1, <3>2
    <3>5. a.priority < b.priority \/ (a.priority = b.priority /\ a.weight <= b.weight)
      BY <3>1, <3>2, <3>4 DEF TakenBefore, Before
    <3> QED BY <3>3, <3>5
  <2>9. ASSUME reports.error = 1, reports.connected = 0
        PROVE  ToSet(tried) = {r.name : r \in ToSet(answer)}
    <3>1. DOMAIN tried = D
      BY <1>1, <2>1, <2>2, <2>5, <2>9 DEF Order
    <3>2. ToSet(tried) = {tried[i] : i \in D}
      BY <3>1 DEF ToSet
    <3>3. {tried[i] : i \in D} = {answer[f[i]].name : i \in D}
      BY <2>5, <3>1
    <3>4. {answer[f[i]].name : i \in D} = {answer[k].name : k \in D}
      BY <2>4
    <3>5. {answer[k].name : k \in D} = {r.name : r \in ToSet(answer)}
      BY DEF ToSet
    <3> QED BY <3>2, <3>3, <3>4, <3>5
  <2> QED BY <2>8, <2>9 DEF TargetsInOrder
<1> QED BY <1>1, OrderReachable, PTL
=============================================================================
