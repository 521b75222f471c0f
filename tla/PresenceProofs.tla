--------------------------- MODULE PresenceProofs ---------------------------
(***************************************************************************)
(* Theorems about Presence for every set of users, contacts and resources  *)
(* and every bound: type correctness, what the steps of the two rosters    *)
(* can and cannot do to a subscription, and, for users who have one        *)
(* session at a time, what clients know of the rosters and of each other.  *)
(***************************************************************************)
EXTENDS Presence, SequenceFacts, TLAPS

Writes == [from : FullJid, to : Names, type : {"none", "avail", "unavail"}]

-----------------------------------------------------------------------------
(* Sequences of sessions.                                                  *)

\* Replacing the first session of a user.
LEMMA FirstReplaced ==
    ASSUME NEW s \in Seq(Session), s # <<>>, NEW e \in Session
    PROVE  [s EXCEPT ![1] = e] \in Seq(Session)
<1>1. 1 \in 1 .. Len(s)
  BY EmptySeq, LenProperties
<1> QED BY <1>1, ExceptSeq

\* The first session of a user with sessions is a session.
LEMMA FirstIsSession ==
    ASSUME NEW s \in Seq(Session), s # <<>>
    PROVE  s[1] \in Session
<1>1. 1 \in 1 .. Len(s)
  BY EmptySeq, LenProperties
<1> QED BY <1>1, ElementOfSeq

-----------------------------------------------------------------------------
(* The steps of a roster entry.                                            *)

\* Every step yields an entry, keeps ask within none/from, and takes nothing
\* away from an entry.
LEMMA EntrySteps ==
    ASSUME NEW e \in Entry, e.ask => e.sub \in {"none", "from"},
           NEW f \in {Asked(e), Granted(e), Accepted(e), Added(e)}
    PROVE  /\ f \in Entry
           /\ f.ask => f.sub \in {"none", "from"}
           /\ SubFrom(e) => SubFrom(f)
           /\ SubTo(e) => SubTo(f)
<1>1. CASE f = Asked(e)
  BY <1>1 DEF Asked, Entry, Subs, HasEntry, SubFrom, SubTo
<1>2. CASE f = Granted(e)
  BY <1>2 DEF Granted, Entry, Subs, SubFrom, SubTo
<1>3. CASE f = Accepted(e)
  BY <1>3 DEF Accepted, Entry, Subs, SubFrom, SubTo
<1>4. CASE f = Added(e)
  BY <1>4 DEF Added, Entry, Subs, HasEntry, SubFrom, SubTo
<1> QED BY <1>1, <1>2, <1>3, <1>4

\* "to" is gained by Accepted alone.
LEMMA ToByAcceptedOnly ==
    ASSUME NEW e \in Entry, ~SubTo(e)
    PROVE  ~SubTo(Asked(e)) /\ ~SubTo(Granted(e)) /\ ~SubTo(Added(e)) /\ ~SubTo(NoEntry)
BY DEF Asked, Granted, Added, NoEntry, Entry, Subs, HasEntry, SubTo

\* A grant that changes an entry leaves it with "from".
LEMMA GrantedIsFrom ==
    ASSUME NEW e \in Entry, Granted(e) # e
    PROVE  SubFrom(Granted(e))
BY DEF Granted, Entry, Subs, SubFrom

\* The two facts about single steps that the grants of local users rest on.
LEMMA EntryGranted ==
    ASSUME NEW e \in Entry
    PROVE  Granted(e) \in Entry
BY DEF Granted, Entry, Subs

\* An accepted request (main.cpp:649-657) keeps the entry's "from" half.
LEMMA AcceptedKeepsFrom ==
    ASSUME NEW e \in Entry, SubFrom(e)
    PROVE  SubFrom(Accepted(e))
BY DEF Accepted, Entry, Subs, SubFrom

-----------------------------------------------------------------------------
(* What handlers write.                                                    *)

\* A roster push leaves the clients' queues queues of stanzas.
LEMMA PushType ==
    ASSUME NEW ss \in [Users -> Seq(Session)], NEW u \in Users, NEW c \in Names,
           NEW e \in Entry
    PROVE  Push(ss, u, c, e) \in [Users -> Seq(Session)]
<1>1. CASE ss[u] = <<>> \/ ss[u][1].copy = NoCopy
  BY <1>1 DEF Push
<1>2. CASE ~(ss[u] = <<>> \/ ss[u][1].copy = NoCopy)
  <2> DEFINE s == ss[u]
             f == [s[1] EXCEPT !.copy[c] = e]
  <2>1. s \in Seq(Session) /\ s # <<>>
    BY <1>2
  <2>2. s[1] \in Session
    BY <2>1, FirstIsSession
  <2>3. f \in Session
    BY <2>2, <1>2 DEF Session
  <2>4. [s EXCEPT ![1] = f] \in Seq(Session)
    BY <2>1, <2>3, FirstReplaced
  <2> QED BY <1>2, <2>4 DEF Push
<1> QED BY <1>1, <1>2

\* What a session has been told stays a set of full addresses.
LEMMA ToldType ==
    ASSUME NEW known \in SUBSET FullJid, NEW ws \in SUBSET Writes, NEW n
    PROVE  Told(known, ws, n) \in SUBSET FullJid
BY DEF Told, Writes

\* Router::write of a set of stanzas keeps queues and network typed.
LEMMA WriteAllType ==
    ASSUME NEW ss \in [Users -> Seq(Session)], NEW ws \in SUBSET Writes,
           rsees \in [Remotes -> SUBSET FullJid],
           WriteAll(ss, ws)
    PROVE  /\ sess' \in [Users -> Seq(Session)]
           /\ rsees' \in [Remotes -> SUBSET FullJid]
<1>1. ASSUME NEW n \in Users, ss[n] # <<>>
      PROVE  [ss[n] EXCEPT ![1].online = Told(@, ws, n)] \in Seq(Session)
  <2> DEFINE s == ss[n]
             f == [s[1] EXCEPT !.online = Told(s[1].online, ws, n)]
  <2>1. s \in Seq(Session) /\ s # <<>>
    BY <1>1
  <2>2. s[1] \in Session
    BY <2>1, FirstIsSession
  <2>3. Told(s[1].online, ws, n) \in SUBSET FullJid
    BY <2>2, ToldType DEF Session
  <2>4. f \in Session
    BY <2>2, <2>3 DEF Session
  <2>5. [s EXCEPT ![1] = f] \in Seq(Session)
    BY <2>1, <2>4, FirstReplaced
  <2> QED BY <2>5
<1>2. Deliver(ss, ws) \in [Users -> Seq(Session)]
  BY <1>1 DEF Deliver
<1>3. \A n \in Remotes : Told(rsees[n], ws, n) \in SUBSET FullJid
  BY ToldType
<1> QED BY <1>2, <1>3 DEF WriteAll

\* userSessionJid names a full jid whenever the user has a session.
LEMMA JidOfSession ==
    ASSUME NEW ss \in [Users -> Seq(Session)], NEW u \in Users, ss[u] # <<>>
    PROVE  userSessionJid(ss, u) \in FullJid /\ userSessionJid(ss, u)[1] = u
<1>1. ss[u][1] \in Session
  BY FirstIsSession
<1> QED BY <1>1 DEF userSessionJid, Session, FullJid

\* The replies to a probe are presence stanzas of the user's sessions.
LEMMA ProbeReplyType ==
    ASSUME TypeOK, NEW ros, NEW t \in Names, NEW from, from[1] \in Names
    PROVE  ProbeReply(ros, t, from) \in SUBSET Writes
<1>1. CASE ~HasSession(t)
  BY <1>1 DEF ProbeReply
<1>2. CASE HasSession(t)
  <2> DEFINE v == userSessionJid(sess, t)
  <2>1. v \in FullJid
    BY <1>2, JidOfSession DEF HasSession, TypeOK
  <2>2. HasDPItem(v, from) => dplist[<<v, from>>] \in {"none", "avail", "unavail"}
    BY <2>1 DEF HasDPItem, TypeOK
  <2>3. StoredPresence(v, from) \in {"none", "avail", "unavail"}
    <3>1. items[v].type \in {"none", "avail", "unavail"}
      BY <2>1 DEF TypeOK, Item
    <3> QED BY <3>1 DEF StoredPresence
  <2> QED BY <1>2, <2>1, <2>2, <2>3 DEF ProbeReply, Write, Writes
<1> QED BY <1>1, <1>2

\* A broadcast writes presence stanzas from the session that broadcasts.
LEMMA BroadcastWritesType ==
    ASSUME TypeOK, PresenceAssumption, NEW v \in FullJid, NEW t \in {"avail", "unavail"}
    PROVE  BroadcastWrites(v, t) \in SUBSET Writes
<1>1. v[1] \in Names
  BY DEF FullJid, Names
<1>2. \A c \in Names : ProbeReply(roster, c, v) \in SUBSET Writes
  BY <1>1, ProbeReplyType
<1>3. \A to \in DirectedTo : to[1] \in Names
  BY DEF PresenceAssumption
<1>4. \A c \in Names : Write(v, c, t) \in Writes
  BY DEF Write, Writes
<1>5. \A to \in DirectedTo : Write(v, to[1], t) \in Writes
  BY <1>3 DEF Write, Writes
<1> QED BY <1>2, <1>4, <1>5 DEF BroadcastWrites

-----------------------------------------------------------------------------
(* Every action keeps the types.                                           *)

\* A broadcast, whoever it is made for, keeps the types of what it changes.
LEMMA BroadcastType ==
    ASSUME TypeOK, NEW ss \in [Users -> Seq(Session)], NEW u \in Users, ss[u] # <<>>,
           \/ InitialUnavailable(ss, userSessionJid(ss, u))
           \/ Unavailable(ss, userSessionJid(ss, u))
           \/ ss = sess /\ Available(userSessionJid(ss, u))
    PROVE  /\ sess' \in [Users -> Seq(Session)]
           /\ items' \in [FullJid -> Item]
           /\ dplist' \in [FullJid \X DirectedTo -> {"none", "avail", "unavail"}]
           /\ rsees' \in [Remotes -> SUBSET FullJid]
<1> DEFINE v == userSessionJid(ss, u)
<1>1. v \in FullJid /\ v[1] = u
  BY JidOfSession
<1>2. rsees \in [Remotes -> SUBSET FullJid]
  BY DEF TypeOK
<1>3. \A w \in Said : [ss EXCEPT ![u][1].said = w] \in [Users -> Seq(Session)]
  <2> TAKE w \in Said
  <2> DEFINE s == ss[u]
             f == [s[1] EXCEPT !.said = w]
  <2>1. s \in Seq(Session) /\ s # <<>>
    OBVIOUS
  <2>2. s[1] \in Session
    BY <2>1, FirstIsSession
  <2>3. f \in Session
    BY <2>2 DEF Session
  <2>4. [s EXCEPT ![1] = f] \in Seq(Session)
    BY <2>1, <2>3, FirstReplaced
  <2> QED BY <2>4
<1>4. BroadcastWrites(v, "avail") \in SUBSET Writes /\ BroadcastWrites(v, "unavail") \in SUBSET Writes
  BY <1>1, PresenceAssumption, BroadcastWritesType
<1>5. CASE InitialUnavailable(ss, v)
  <2>1. {} \in SUBSET Writes
    OBVIOUS
  <2>2. sess' \in [Users -> Seq(Session)] /\ rsees' \in [Remotes -> SUBSET FullJid]
    BY <1>5, <1>2, <2>1, WriteAllType DEF InitialUnavailable
  <2>3. items' \in [FullJid -> Item]
    BY <1>5, <1>1 DEF InitialUnavailable, TypeOK, Item
  <2> QED BY <1>5, <2>2, <2>3 DEF InitialUnavailable, TypeOK
<1>6. CASE Unavailable(ss, v)
  <2>1. WriteAll([ss EXCEPT ![u][1].said = "no"], BroadcastWrites(v, "unavail"))
    BY <1>6, <1>1 DEF Unavailable
  <2>2. [ss EXCEPT ![u][1].said = "no"] \in [Users -> Seq(Session)]
    BY <1>3 DEF Said
  <2>3. sess' \in [Users -> Seq(Session)] /\ rsees' \in [Remotes -> SUBSET FullJid]
    BY <1>2, <1>4, <2>1, <2>2, WriteAllType
  <2>4. items' \in [FullJid -> Item]
    BY <1>6, <1>1 DEF Unavailable, TypeOK, Item, NoPresence
  <2>5. dplist' \in [FullJid \X DirectedTo -> {"none", "avail", "unavail"}]
    BY <1>6 DEF Unavailable, TypeOK
  <2> QED BY <2>3, <2>4, <2>5
<1>7. CASE ss = sess /\ Available(v)
  <2> DEFINE w == SaidAvail(v, sess[u][1].said)
  <2>1. WriteAll([ss EXCEPT ![u][1].said = w], BroadcastWrites(v, "avail"))
    BY <1>7, <1>1 DEF Available
  <2>2. w \in Said
    <3>1. sess[u][1] \in Session
      BY <1>7, FirstIsSession
    <3> QED BY <3>1 DEF SaidAvail, Said, Session
  <2>3. [ss EXCEPT ![u][1].said = w] \in [Users -> Seq(Session)]
    BY <1>3, <2>2
  <2>4. sess' \in [Users -> Seq(Session)] /\ rsees' \in [Remotes -> SUBSET FullJid]
    BY <1>2, <1>4, <2>1, <2>3, WriteAllType
  <2>5. items' \in [FullJid -> Item]
    <3>1. items' = [items EXCEPT ![v].type = "avail"]
      BY <1>7 DEF Available
    <3>2. items \in [FullJid -> Item] /\ items[v] \in Item
      BY <1>1 DEF TypeOK
    <3>3. [items[v] EXCEPT !.type = "avail"] \in Item
      BY <3>2 DEF Item
    <3> QED BY <3>1, <3>2, <3>3
  <2> QED BY <1>7, <2>4, <2>5 DEF Available, TypeOK
<1> QED BY <1>5, <1>6, <1>7

\* So does the loopback of a grant.
LEMMA OutsideSubscribedType ==
    ASSUME TypeOK, NEW ros \in [Users -> [Names -> Entry]],
           NEW ss \in [Users -> Seq(Session)], NEW u \in Users, NEW c \in Names,
           HasSession(u), OutsideSubscribed(ros, ss, u, c)
    PROVE  /\ roster' \in [Users -> [Names -> Entry]]
           /\ sess' \in [Users -> Seq(Session)]
           /\ rsees' \in [Remotes -> SUBSET FullJid]
           /\ pushed' \subseteq Users \X Names
<1> DEFINE v == userSessionJid(sess, u)
           e == Accepted(ros[u][c])
           newros == [ros EXCEPT ![u][c] = e]
           own == IF HasItem(v)
                  THEN {w \in ProbeReply(newros, c, v) : w.from # v}
                           \cup {Write(v, c, items[v].type)}
                  ELSE {}
<1>1. e \in Entry
  BY DEF Accepted, Entry, Subs
<1>2. v \in FullJid /\ v[1] = u
  BY JidOfSession DEF HasSession, TypeOK
<1>3. own \in SUBSET Writes
  <2>1. ProbeReply(newros, c, v) \in SUBSET Writes
    <3> HIDE DEF newros
    <3> QED BY <1>2, ProbeReplyType DEF Names
  <2>2. Write(v, c, items[v].type) \in Writes
    BY <1>2 DEF TypeOK, Item, Write, Writes
  <2> QED BY <2>1, <2>2
<1>5. sess' \in [Users -> Seq(Session)] /\ rsees' \in [Remotes -> SUBSET FullJid]
  <2>1. WriteAll(ss, own)
    BY DEF OutsideSubscribed
  <2> HIDE DEF own, e
  <2> QED BY <2>1, <1>3, WriteAllType DEF TypeOK
<1>6. roster' \in [Users -> [Names -> Entry]]
  BY <1>1 DEF OutsideSubscribed
<1>7. pushed' \subseteq Users \X Names
  BY DEF OutsideSubscribed, TypeOK
<1> QED BY <1>5, <1>6, <1>7

\* A session's start (Session table of Router) keeps the types.
LEMMA LoginType ==
    ASSUME TypeOK, NEW u \in Users, NEW r \in Resources, NEW i, Login(u, r, i)
    PROVE  TypeOK'
<1> DEFINE S == Session
<1>1. NewSession(r) \in Session
  <2>1. NoCopy \in {NoCopy} \cup [Names -> Entry]
    OBVIOUS
  <2> QED BY <2>1 DEF NewSession, Session, Said
<1>2. sess[u] \in Seq(Session) /\ i \in 1 .. Len(sess[u]) + 1
  BY DEF Login, TypeOK
<1>3. InsertAt(sess[u], i, NewSession(r)) \in Seq(Session)
  BY <1>1, <1>2, InsertAtType
<1> QED BY <1>3 DEF Login, TypeOK

\* The end of a session, with the unavailable presence it owes, keeps the types.
LEMMA SessionGoneType ==
    ASSUME TypeOK, NEW u \in Users, NEW i, SessionGone(u, i)
    PROVE  TypeOK'
<1> DEFINE ss == [sess EXCEPT ![u] = RemoveAt(@, i)]
           v == userSessionJid(ss, u)
<1>1. sess[u] \in Seq(Session) /\ i \in 1 .. Len(sess[u])
  BY DEF SessionGone, TypeOK
<1>2. RemoveAt(sess[u], i) \in Seq(Session)
  BY <1>1, RemoveAtType
<1>3. ss \in [Users -> Seq(Session)]
  BY <1>2 DEF TypeOK
<1>4. CASE /\ orphans < MaxOrphans
           /\ orphans' = orphans + 1
           /\ WriteAll(ss, {})
           /\ UNCHANGED <<items, dplist>>
  <2>1. {} \in SUBSET Writes
    OBVIOUS
  <2>2. sess' \in [Users -> Seq(Session)] /\ rsees' \in [Remotes -> SUBSET FullJid]
    <3> HIDE DEF ss
    <3> QED BY <1>3, <1>4, <2>1, WriteAllType DEF TypeOK
  <2>3. orphans' \in 0 .. MaxOrphans
    BY <1>4, PresenceAssumption DEF PresenceAssumption, TypeOK
  <2> QED BY <1>4, <2>2, <2>3 DEF SessionGone, TypeOK
<1>5. CASE /\ ss[u] # <<>>
           /\ InitialUnavailable(ss, v) \/ Unavailable(ss, v)
           /\ UNCHANGED orphans
  <2>1. /\ sess' \in [Users -> Seq(Session)]
        /\ items' \in [FullJid -> Item]
        /\ dplist' \in [FullJid \X DirectedTo -> {"none", "avail", "unavail"}]
        /\ rsees' \in [Remotes -> SUBSET FullJid]
    <3> HIDE DEF ss
    <3> QED BY <1>3, <1>5, BroadcastType
  <2> QED BY <1>5, <2>1 DEF SessionGone, TypeOK
<1> QED BY <1>4, <1>5 DEF SessionGone

\* Undirected presence of a client keeps the types.
LEMMA ClientBroadcastType ==
    ASSUME TypeOK, NEW u \in Users, NEW t, ClientBroadcast(u, t)
    PROVE  TypeOK'
<1> DEFINE v == userSessionJid(sess, u)
<1>1. sess[u] # <<>> /\ sess \in [Users -> Seq(Session)]
  BY DEF ClientBroadcast, HasSession, TypeOK
<1>2. \/ InitialUnavailable(sess, v)
      \/ Unavailable(sess, v)
      \/ sess = sess /\ Available(v)
  BY DEF ClientBroadcast
<1>3. /\ sess' \in [Users -> Seq(Session)]
      /\ items' \in [FullJid -> Item]
      /\ dplist' \in [FullJid \X DirectedTo -> {"none", "avail", "unavail"}]
      /\ rsees' \in [Remotes -> SUBSET FullJid]
  BY <1>1, <1>2, BroadcastType
<1> QED BY <1>3 DEF ClientBroadcast, TypeOK

\* Directed presence of a client keeps the types.
LEMMA ClientDirectedType ==
    ASSUME TypeOK, NEW u \in Users, NEW i, NEW to \in DirectedTo,
           NEW t \in {"avail", "unavail"}, ClientDirected(u, i, to, t)
    PROVE  TypeOK'
<1> DEFINE from == <<u, sess[u][i].res>>
           ws == {Write(from, to[1], t)}
<1>1. sess[u] \in Seq(Session) /\ i \in 1 .. Len(sess[u])
  BY DEF ClientDirected, TypeOK
<1>2. sess[u][i] \in Session
  BY <1>1, ElementOfSeq
<1>3. from \in FullJid
  BY <1>2 DEF Session, FullJid
<1>4. to[1] \in Names
  BY PresenceAssumption DEF PresenceAssumption
<1>5. ws \in SUBSET Writes
  <2> HIDE DEF from
  <2> QED BY <1>3, <1>4 DEF Write, Writes
<1>6. sess' \in [Users -> Seq(Session)] /\ rsees' \in [Remotes -> SUBSET FullJid]
  <2>1. WriteAll(sess, ws)
    BY DEF ClientDirected
  <2> HIDE DEF ws
  <2> QED BY <1>5, <2>1, WriteAllType DEF TypeOK
<1>7. dplist' \in [FullJid \X DirectedTo -> {"none", "avail", "unavail"}]
  BY DEF ClientDirected, TypeOK
<1> QED BY <1>6, <1>7 DEF ClientDirected, TypeOK

\* The types of the rosters and the sessions after a change of one entry.
LEMMA EntryChangeType ==
    ASSUME TypeOK, NEW u \in Users, NEW c \in Names, NEW e \in Entry
    PROVE  /\ [roster EXCEPT ![u][c] = e] \in [Users -> [Names -> Entry]]
           /\ Push(sess, u, c, e) \in [Users -> Seq(Session)]
<1>1. [roster EXCEPT ![u][c] = e] \in [Users -> [Names -> Entry]]
  BY DEF TypeOK
<1>2. Push(sess, u, c, e) \in [Users -> Seq(Session)]
  BY PushType DEF TypeOK
<1> QED BY <1>1, <1>2

\* A roster request keeps the types.
LEMMA RosterGetType ==
    ASSUME TypeOK, NEW u \in Users, RosterGet(u)
    PROVE  TypeOK'
<1> DEFINE s == sess[u]
           f == [s[1] EXCEPT !.copy = roster[u]]
<1>1. s \in Seq(Session) /\ s # <<>>
  BY DEF RosterGet, HasSession, TypeOK
<1>2. s[1] \in Session
  BY <1>1, FirstIsSession
<1>3. f \in Session
  BY <1>2 DEF Session, TypeOK
<1>4. [s EXCEPT ![1] = f] \in Seq(Session)
  BY <1>1, <1>3, FirstReplaced
<1> QED BY <1>4 DEF RosterGet, TypeOK

\* A roster set keeps the types.
LEMMA RosterSetType ==
    ASSUME TypeOK, NEW u \in Users, NEW c \in Names, NEW remove, RosterSet(u, c, remove)
    PROVE  TypeOK'
<1> DEFINE e == IF remove THEN NoEntry ELSE Added(roster[u][c])
<1>1. roster[u][c] \in Entry
  BY DEF TypeOK
<1>2. e \in Entry
  BY <1>1 DEF NoEntry, Added, Entry, Subs
<1>3. roster' = [roster EXCEPT ![u][c] = e] /\ sess' = Push(sess, u, c, e)
  BY DEF RosterSet
<1>4. roster' \in [Users -> [Names -> Entry]] /\ sess' \in [Users -> Seq(Session)]
  <2> HIDE DEF e
  <2> QED BY <1>2, <1>3, EntryChangeType
<1>5. severed' \subseteq Users \X Names
  BY DEF RosterSet, TypeOK
<1> QED BY <1>4, <1>5 DEF RosterSet, TypeOK

\* An outgoing subscription request keeps the types.
LEMMA ClientSubscribeType ==
    ASSUME TypeOK, NEW u \in Users, NEW c \in Names, ClientSubscribe(u, c)
    PROVE  TypeOK'
<1> DEFINE e == Asked(roster[u][c])
<1>1. roster[u][c] \in Entry
  BY DEF TypeOK
<1>2. e \in Entry
  BY <1>1 DEF Asked, Entry, Subs
<1>3. /\ roster' = [roster EXCEPT ![u][c] = e]
      /\ sess' = Push(sess, u, c, e) \/ sess' = sess
  BY DEF ClientSubscribe
<1>4. roster' \in [Users -> [Names -> Entry]] /\ sess' \in [Users -> Seq(Session)]
  <2> HIDE DEF e
  <2>1. /\ [roster EXCEPT ![u][c] = e] \in [Users -> [Names -> Entry]]
        /\ Push(sess, u, c, e) \in [Users -> Seq(Session)]
    BY <1>2, EntryChangeType
  <2>2. sess \in [Users -> Seq(Session)]
    BY DEF TypeOK
  <2> QED BY <1>3, <2>1, <2>2
<1> QED BY <1>4 DEF ClientSubscribe, TypeOK

\* One roster push.
IsPush(ss, tt) == \E v \in Users, d \in Names, e \in Entry : tt = Push(ss, v, d, e)

\* A table that differs from the present one by one or two roster pushes.
PushedOnly(tt) ==
    /\ tt \in [Users -> Seq(Session)]
    /\ \/ IsPush(sess, tt)
       \/ \E mm \in [Users -> Seq(Session)] : IsPush(sess, mm) /\ IsPush(mm, tt)

\* What a client's grant does: it saves ros, pushes, and a local contact that
\* accepts adds its own save and its writes.
GrantMade(u, c, ros, tt) ==
    /\ ros = [roster EXCEPT ![u][c] = Granted(roster[u][c])]
    /\ ros \in [Users -> [Names -> Entry]]
    /\ PushedOnly(tt)
    /\ \/ OutsideAccepts(ros, c, u) /\ OutsideSubscribed(ros, tt, c, u)
       \/ ~OutsideAccepts(ros, c, u) /\ roster' = ros /\ sess' = tt /\ UNCHANGED <<rsees, pushed>>
    /\ UNCHANGED <<items, dplist, severed>>

\* The push of an accepted entry.
LEMMA AcceptedPushType ==
    ASSUME TypeOK, NEW ros, NEW u \in Users, NEW c \in Names, ros[u][c] \in Entry
    PROVE  /\ IsPush(sess, AcceptedPush(ros, u, c))
           /\ PushedOnly(AcceptedPush(ros, u, c))
<1>1. Accepted(ros[u][c]) \in Entry
  BY DEF Accepted, Entry, Subs
<1>2. AcceptedPush(ros, u, c) \in [Users -> Seq(Session)]
  BY <1>1, PushType DEF AcceptedPush, TypeOK
<1>3. IsPush(sess, AcceptedPush(ros, u, c))
  BY <1>1 DEF AcceptedPush, IsPush
<1> QED BY <1>2, <1>3 DEF PushedOnly

\* A client's grant, as one of the two cases.
LEMMA GrantTables ==
    ASSUME TypeOK, NEW u \in Users, NEW c \in Names, ClientSubscribed(u, c)
    PROVE  \E ros, tt : GrantMade(u, c, ros, tt)
<1>1. PICK e, ros : e = Granted(roster[u][c]) /\ ros = [roster EXCEPT ![u][c] = e]
  OBVIOUS
<1>2. e \in Entry /\ ros \in [Users -> [Names -> Entry]]
  <2>1. roster[u][c] \in Entry /\ roster \in [Users -> [Names -> Entry]]
    BY DEF TypeOK
  <2>2. e \in Entry
    BY <1>1, <2>1, EntryGranted
  <2> QED BY <1>1, <2>1, <2>2
<1>3. CASE OutsideAccepts(ros, c, u)
  <2>1. c \in Users /\ u \in Names
    BY <1>3 DEF OutsideAccepts, HasSession, Names
  <2>2. PICK mm, tt : mm = AcceptedPush(ros, c, u) /\ tt = Push(mm, u, c, e)
    OBVIOUS
  <2>3. mm \in [Users -> Seq(Session)] /\ IsPush(sess, mm)
    BY <1>2, <2>1, <2>2, AcceptedPushType DEF PushedOnly
  <2>4. tt \in [Users -> Seq(Session)]
    BY <1>2, <2>2, <2>3, PushType
  <2>5. IsPush(mm, tt)
    BY <1>2, <2>2 DEF IsPush
  <2>6. PushedOnly(tt)
    BY <2>3, <2>4, <2>5 DEF PushedOnly
  <2>7. OutsideSubscribed(ros, tt, c, u) /\ UNCHANGED <<items, dplist, severed>>
    BY <1>1, <1>3, <2>2 DEF ClientSubscribed
  <2>8. GrantMade(u, c, ros, tt)
    BY <1>1, <1>2, <1>3, <2>6, <2>7 DEF GrantMade
  <2> QED BY <2>8
<1>4. CASE ~OutsideAccepts(ros, c, u)
  <2>1. PICK tt : tt = Push(sess, u, c, e)
    OBVIOUS
  <2>2. tt \in [Users -> Seq(Session)]
    BY <1>2, <2>1, PushType DEF TypeOK
  <2>3. PushedOnly(tt)
    BY <1>2, <2>1, <2>2 DEF PushedOnly, IsPush
  <2>4. /\ roster' = ros /\ sess' = tt
        /\ UNCHANGED <<rsees, pushed, items, dplist, severed>>
    BY <1>1, <1>4, <2>1 DEF ClientSubscribed
  <2>5. GrantMade(u, c, ros, tt)
    BY <1>1, <1>2, <1>4, <2>3, <2>4 DEF GrantMade
  <2> QED BY <2>5
<1> QED BY <1>3, <1>4

\* A remote contact's grant is that of a loopback.
LEMMA RemoteTables ==
    ASSUME TypeOK, NEW u \in Users, NEW c \in Remotes, RemoteSubscribed(c, u)
    PROVE  /\ c \in Names /\ HasSession(u) /\ UNCHANGED <<items, dplist, orphans, severed>>
           /\ \E tt : PushedOnly(tt) /\ OutsideSubscribed(roster, tt, u, c)
<1>1. c \in Names /\ HasSession(u) /\ UNCHANGED <<items, dplist, orphans, severed>>
  BY DEF RemoteSubscribed, OutsideAccepts, Names
<1>2. PICK tt : tt = AcceptedPush(roster, u, c)
  OBVIOUS
<1>3. roster[u][c] \in Entry
  BY <1>1 DEF TypeOK
<1>4. PushedOnly(tt)
  BY <1>1, <1>2, <1>3, AcceptedPushType
<1>5. OutsideSubscribed(roster, tt, u, c)
  BY <1>2 DEF RemoteSubscribed
<1> QED BY <1>1, <1>4, <1>5

\* The grant of a subscription keeps the types.
LEMMA ClientSubscribedType ==
    ASSUME TypeOK, PresenceAssumption, NEW u \in Users, NEW c \in Names, ClientSubscribed(u, c)
    PROVE  TypeOK'
<1>1. PICK ros, tt : GrantMade(u, c, ros, tt)
  BY GrantTables
<1>2. ros \in [Users -> [Names -> Entry]] /\ tt \in [Users -> Seq(Session)]
  BY <1>1 DEF GrantMade, PushedOnly
<1>3. CASE OutsideAccepts(ros, c, u)
  <2>1. HasSession(c) /\ c \in Users /\ u \in Names
    BY <1>3 DEF OutsideAccepts, HasSession, Names
  <2>2. OutsideSubscribed(ros, tt, c, u)
    BY <1>1, <1>3 DEF GrantMade
  <2>3. /\ roster' \in [Users -> [Names -> Entry]]
        /\ sess' \in [Users -> Seq(Session)]
        /\ rsees' \in [Remotes -> SUBSET FullJid]
        /\ pushed' \subseteq Users \X Names
    BY <1>2, <2>1, <2>2, OutsideSubscribedType
  <2> QED BY <2>3 DEF ClientSubscribed, TypeOK
<1>4. CASE ~OutsideAccepts(ros, c, u)
  <2>1. roster' = ros /\ sess' = tt /\ UNCHANGED <<rsees, pushed>>
    BY <1>1, <1>4 DEF GrantMade
  <2> QED BY <1>2, <2>1 DEF ClientSubscribed, TypeOK
<1> QED BY <1>3, <1>4

\* A grant that arrives from a remote contact keeps the types.
LEMMA RemoteSubscribedType ==
    ASSUME TypeOK, NEW u \in Users, NEW c \in Remotes, RemoteSubscribed(c, u)
    PROVE  TypeOK'
<1>1. HasSession(u) /\ c \in Names
  BY RemoteTables
<1>2. PICK tt : PushedOnly(tt) /\ OutsideSubscribed(roster, tt, u, c)
  BY RemoteTables
<1>3. /\ roster' \in [Users -> [Names -> Entry]]
      /\ sess' \in [Users -> Seq(Session)]
      /\ rsees' \in [Remotes -> SUBSET FullJid]
      /\ pushed' \subseteq Users \X Names
  BY <1>1, <1>2, OutsideSubscribedType DEF TypeOK, PushedOnly
<1> QED BY <1>3 DEF RemoteSubscribed, TypeOK

\* A probe from a remote contact keeps the types.
LEMMA RemoteProbeType ==
    ASSUME TypeOK, NEW u \in Users, NEW from \in RemoteJid, RemoteProbe(from, u)
    PROVE  TypeOK'
<1>1. u \in Names /\ from[1] \in Names
  BY DEF Names, RemoteJid
<1>2. ProbeReply(roster, u, from) \in SUBSET Writes
  BY <1>1, ProbeReplyType
<1>3. sess' \in [Users -> Seq(Session)] /\ rsees' \in [Remotes -> SUBSET FullJid]
  BY <1>2, WriteAllType DEF RemoteProbe, TypeOK
<1> QED BY <1>3 DEF RemoteProbe, TypeOK

\* An error that arrives from a remote server keeps the types.
LEMMA RemoteErrorType ==
    ASSUME TypeOK, NEW u \in Users, NEW from \in RemoteJid, RemoteError(from, u)
    PROVE  TypeOK'
<1> DEFINE v == userSessionJid(sess, u)
<1>1. v \in FullJid
  BY JidOfSession DEF RemoteError, HasSession, TypeOK
<1>2. items[v] \in Item
  BY <1>1 DEF TypeOK
<1>3. [items[v] EXCEPT !.dontsend = @ \cup {from}] \in Item
  BY <1>2 DEF Item
<1>4. items' \in [FullJid -> Item]
  <2>1. items' = [items EXCEPT ![v] = [items[v] EXCEPT !.dontsend = @ \cup {from}]]
    BY DEF RemoteError
  <2> HIDE DEF v
  <2> QED BY <1>3, <2>1 DEF TypeOK
<1>5. from[1] \in Names
  BY DEF RemoteJid, Names
<1>6. severed' \subseteq Users \X Names
  BY <1>5 DEF RemoteError, TypeOK
<1> QED BY <1>4, <1>6 DEF RemoteError, TypeOK

\* A restart finds rosters on the disk, whatever the crash interrupted.
LEMMA RestartType ==
    ASSUME TypeOK, PresenceAssumption, Restart
    PROVE  TypeOK'
<1>1. CrashImages \subseteq [Users -> [Names -> Entry]]
  <2>1. roster \in [Users -> [Names -> Entry]]
    BY DEF TypeOK
  <2>2. \A p \in Users \X Names :
          [roster EXCEPT ![p[1]][p[2]] = Granted(@)] \in [Users -> [Names -> Entry]]
    <3> TAKE p \in Users \X Names
    <3>1. roster[p[1]][p[2]] \in Entry
      BY <2>1
    <3>2. Granted(roster[p[1]][p[2]]) \in Entry
      BY <3>1 DEF Granted, Entry, Subs
    <3> QED BY <2>1, <3>2
  <2>3. \A u \in Users :
          [roster EXCEPT ![u] = [n \in Names |-> NoEntry]] \in [Users -> [Names -> Entry]]
    <3>1. NoEntry \in Entry
      BY DEF NoEntry, Entry, Subs
    <3> QED BY <2>1, <3>1
  <2> SUFFICES ASSUME NEW f \in CrashImages
               PROVE  f \in [Users -> [Names -> Entry]]
    OBVIOUS
  <2>4. \/ f = roster
        \/ \E p \in Users \X Names : f = [roster EXCEPT ![p[1]][p[2]] = Granted(@)]
        \/ \E u \in Users : f = [roster EXCEPT ![u] = [n \in Names |-> NoEntry]]
    BY DEF CrashImages
  <2>5. ASSUME NEW p \in Users \X Names, f = [roster EXCEPT ![p[1]][p[2]] = Granted(@)]
        PROVE  f \in [Users -> [Names -> Entry]]
    BY <2>2, <2>5
  <2>6. ASSUME NEW u \in Users, f = [roster EXCEPT ![u] = [n \in Names |-> NoEntry]]
        PROVE  f \in [Users -> [Names -> Entry]]
    BY <2>3, <2>6
  <2> QED BY <2>1, <2>4, <2>5, <2>6
<1>2. roster' \in [Users -> [Names -> Entry]]
  BY <1>1 DEF Restart
<1>3. sess' \in [Users -> Seq(Session)]
  <2>1. <<>> \in Seq(Session)
    OBVIOUS
  <2> QED BY <2>1 DEF Restart
<1>4. items' \in [FullJid -> Item]
  BY DEF Restart, NoPresence, Item
<1>5. dplist' \in [FullJid \X DirectedTo -> {"none", "avail", "unavail"}]
  BY DEF Restart
<1>6. orphans' \in 0 .. MaxOrphans
  BY DEF Restart, PresenceAssumption
<1>7. severed' \subseteq Users \X Names
  <2>1. Users \X Remotes \subseteq Users \X Names
    BY DEF Names
  <2> QED BY <2>1 DEF Restart, TypeOK
<1> QED BY <1>2, <1>3, <1>4, <1>5, <1>6, <1>7 DEF Restart, TypeOK

\* The empty server is typed.
LEMMA InitType == ASSUME PresenceAssumption, Init PROVE TypeOK
<1>1. sess \in [Users -> Seq(Session)]
  <2>1. <<>> \in Seq(Session)
    OBVIOUS
  <2> QED BY <2>1 DEF Init
<1>2. roster \in [Users -> [Names -> Entry]]
  BY DEF Init, NoEntry, Entry, Subs
<1>3. items \in [FullJid -> Item]
  BY DEF Init, NoPresence, Item
<1>4. orphans \in 0 .. MaxOrphans
  BY DEF Init, PresenceAssumption
<1> QED BY <1>1, <1>2, <1>3, <1>4 DEF Init, TypeOK

\* Every step of the server, its clients and the remote side keeps the types.
LEMMA StepType == ASSUME PresenceAssumption, TypeOK, [Next]_vars PROVE TypeOK'
<1>1. CASE UNCHANGED vars
  BY <1>1 DEF vars, TypeOK
<1>2. ASSUME NEW u \in Users, NEW r \in Resources, NEW i \in 1 .. MaxSessions, Login(u, r, i)
      PROVE  TypeOK'
  BY <1>2, LoginType
<1>3. ASSUME NEW u \in Users, NEW i \in 1 .. MaxSessions, SessionGone(u, i)
      PROVE  TypeOK'
  BY <1>3, SessionGoneType
<1>4. ASSUME NEW u \in Users, NEW t \in {"avail", "unavail"}, ClientBroadcast(u, t)
      PROVE  TypeOK'
  BY <1>4, ClientBroadcastType
<1>5. ASSUME NEW u \in Users, NEW i \in 1 .. MaxSessions, NEW to \in DirectedTo,
             NEW t \in {"avail", "unavail"}, ClientDirected(u, i, to, t)
      PROVE  TypeOK'
  BY <1>5, ClientDirectedType
<1>6. ASSUME NEW u \in Users, RosterGet(u)
      PROVE  TypeOK'
  BY <1>6, RosterGetType
<1>7. ASSUME NEW u \in Users, NEW c \in Names, NEW remove \in BOOLEAN, RosterSet(u, c, remove)
      PROVE  TypeOK'
  BY <1>7, RosterSetType
<1>8. ASSUME NEW u \in Users, NEW c \in Names, ClientSubscribe(u, c) \/ ClientSubscribed(u, c)
      PROVE  TypeOK'
  BY <1>8, ClientSubscribeType, ClientSubscribedType
<1>9. ASSUME NEW u \in Users, NEW c \in Remotes, RemoteSubscribed(c, u)
      PROVE  TypeOK'
  BY <1>9, RemoteSubscribedType
<1>10. ASSUME NEW u \in Users, NEW from \in RemoteJid, RemoteProbe(from, u) \/ RemoteError(from, u)
       PROVE  TypeOK'
  BY <1>10, RemoteProbeType, RemoteErrorType
<1>11. CASE Restart
  BY <1>11, RestartType
<1> QED BY <1>1, <1>2, <1>3, <1>4, <1>5, <1>6, <1>7, <1>8, <1>9, <1>10, <1>11 DEF Next

\* Every variable of the presence manager, the rosters and the session table
\* has its type in every reachable state, whatever the users and the bounds.
THEOREM TypeCorrect == Spec => []TypeOK
<1>1. Init => TypeOK
  BY InitType, PresenceAssumption
<1>2. TypeOK /\ [Next]_vars => TypeOK'
  BY StepType, PresenceAssumption
<1> QED BY <1>1, <1>2, PTL DEF Spec

-----------------------------------------------------------------------------
(* What a step does to one roster entry.                                   *)

\* All a step can turn an entry into.  The last element is a grant whose
\* target is the granting user's own node.
Changes(e) == {e, NoEntry, Asked(e), Granted(e), Accepted(e), Added(e), Accepted(Granted(e))}

\* No step changes an entry in any other way, a restart after a crash in the
\* middle of a handler included.
LEMMA RosterStep ==
    ASSUME TypeOK, [Next]_vars
    PROVE  \A u \in Users, c \in Names : roster'[u][c] \in Changes(roster[u][c])
<1>0. roster \in [Users -> [Names -> Entry]]
  BY DEF TypeOK
<1> SUFFICES ASSUME roster' # roster
             PROVE  \A u \in Users, c \in Names : roster'[u][c] \in Changes(roster[u][c])
  BY DEF Changes
<1> DEFINE Goal == \A u \in Users, c \in Names : roster'[u][c] \in Changes(roster[u][c])
<1>1. ASSUME NEW u \in Users, NEW c \in Names,
             \/ \E remove \in BOOLEAN : RosterSet(u, c, remove)
             \/ ClientSubscribe(u, c)
      PROVE  Goal
  <2>1. \E e \in {NoEntry, Added(roster[u][c]), Asked(roster[u][c])} :
            roster' = [roster EXCEPT ![u][c] = e]
    BY <1>1 DEF RosterSet, ClientSubscribe
  <2> QED BY <2>1, <1>0 DEF Changes
<1>2. ASSUME NEW u \in Users, NEW c \in Names, ClientSubscribed(u, c)
      PROVE  Goal
  <2> DEFINE ros == [roster EXCEPT ![u][c] = Granted(roster[u][c])]
  <2>1. CASE OutsideAccepts(ros, c, u)
    <3>1. c \in Users /\ u \in Names
      BY <2>1 DEF OutsideAccepts, HasSession, Names
    <3>2. roster' = [ros EXCEPT ![c][u] = Accepted(ros[c][u])]
      BY <1>2, <2>1 DEF ClientSubscribed, OutsideSubscribed
    <3>3. ros[c][u] \in {roster[c][u], Granted(roster[c][u])}
      BY <3>1, <1>0
    <3> QED BY <3>1, <3>2, <3>3, <1>0 DEF Changes
  <2>2. CASE ~OutsideAccepts(ros, c, u)
    BY <1>2, <2>2, <1>0 DEF ClientSubscribed, Changes
  <2> QED BY <2>1, <2>2
<1>3. ASSUME NEW u \in Users, NEW c \in Remotes, RemoteSubscribed(c, u)
      PROVE  Goal
  <2>1. roster' = [roster EXCEPT ![u][c] = Accepted(roster[u][c])] /\ c \in Names
    BY <1>3 DEF RemoteSubscribed, OutsideSubscribed, Names
  <2> QED BY <2>1, <1>0 DEF Changes
<1>4. CASE Restart
  <2>1. \/ \E p \in Users \X Names : roster' = [roster EXCEPT ![p[1]][p[2]] = Granted(@)]
        \/ \E u \in Users : roster' = [roster EXCEPT ![u] = [n \in Names |-> NoEntry]]
    BY <1>4 DEF Restart, CrashImages
  <2>2. ASSUME NEW p \in Users \X Names, roster' = [roster EXCEPT ![p[1]][p[2]] = Granted(@)]
        PROVE  Goal
    <3>1. PICK u \in Users, c \in Names : p = <<u, c>>
      OBVIOUS
    <3>2. roster' = [roster EXCEPT ![u][c] = Granted(roster[u][c])]
      BY <2>2, <3>1
    <3> QED BY <3>2, <1>0 DEF Changes
  <2>3. ASSUME NEW u \in Users, roster' = [roster EXCEPT ![u] = [n \in Names |-> NoEntry]]
        PROVE  Goal
    BY <2>3, <1>0 DEF Changes
  <2> QED BY <2>1, <2>2, <2>3
<1>5. ASSUME NEW u \in Users,
             \/ \E r \in Resources, i \in 1 .. MaxSessions : Login(u, r, i)
             \/ \E i \in 1 .. MaxSessions : SessionGone(u, i)
             \/ \E t \in {"avail", "unavail"} : ClientBroadcast(u, t)
             \/ \E i \in 1 .. MaxSessions, to \in DirectedTo, t \in {"avail", "unavail"} :
                    ClientDirected(u, i, to, t)
             \/ RosterGet(u)
             \/ \E from \in RemoteJid : RemoteProbe(from, u)
             \/ \E from \in RemoteJid : RemoteError(from, u)
      PROVE  FALSE
  BY <1>5 DEF Login, SessionGone, ClientBroadcast, ClientDirected, RosterGet, RemoteProbe, RemoteError
<1>6. ~UNCHANGED vars
  BY DEF vars
<1> QED BY <1>1, <1>2, <1>3, <1>4, <1>5, <1>6 DEF Next

\* None of those changes leaves a request on a granted entry, or takes
\* anything from an entry it does not delete.
LEMMA ChangesKeep ==
    ASSUME NEW e \in Entry, e.ask => e.sub \in {"none", "from"}, NEW f \in Changes(e)
    PROVE  /\ f.ask => f.sub \in {"none", "from"}
           /\ \/ ~HasEntry(f)
              \/ (SubFrom(e) => SubFrom(f)) /\ (SubTo(e) => SubTo(f))
<1>1. CASE f = e
  BY <1>1
<1>2. CASE f = NoEntry
  BY <1>2 DEF NoEntry, HasEntry
<1>3. CASE f \in {Asked(e), Granted(e), Accepted(e), Added(e)}
  BY <1>3, EntrySteps
<1>4. CASE f = Accepted(Granted(e))
  <2>1. /\ Granted(e) \in Entry
        /\ Granted(e).ask => Granted(e).sub \in {"none", "from"}
        /\ (SubFrom(e) => SubFrom(Granted(e))) /\ (SubTo(e) => SubTo(Granted(e)))
    BY EntrySteps
  <2> DEFINE g == Granted(e)
  <2> HIDE DEF g
  <2>2. /\ f.ask => f.sub \in {"none", "from"}
        /\ (SubFrom(g) => SubFrom(f)) /\ (SubTo(g) => SubTo(f))
    BY <1>4, <2>1, EntrySteps DEF g
  <2> QED BY <2>1, <2>2 DEF g
<1> QED BY <1>1, <1>2, <1>3, <1>4 DEF Changes

\* AskInv is kept by every step, given the types.
LEMMA StepAsk == ASSUME TypeOK, AskInv, [Next]_vars PROVE AskInv'
<1> SUFFICES ASSUME NEW u \in Users, NEW c \in Names
             PROVE  roster'[u][c].ask => roster'[u][c].sub \in {"none", "from"}
  BY DEF AskInv
<1>1. roster[u][c] \in Entry
  BY DEF TypeOK
<1>2. roster[u][c].ask => roster[u][c].sub \in {"none", "from"}
  BY DEF AskInv
<1>3. roster'[u][c] \in Changes(roster[u][c])
  BY RosterStep
<1> QED BY <1>1, <1>2, <1>3, ChangesKeep

\* A subscription request is outstanding only while "to" is not granted, in
\* every reachable state of a server with any number of users.
THEOREM AskOutstanding == Spec => []AskInv
<1>1. Init => AskInv
  BY DEF Init, AskInv, NoEntry
<1>2. TypeOK /\ AskInv /\ [Next]_vars => AskInv'
  BY StepAsk
<1> QED BY <1>1, <1>2, TypeCorrect, PTL DEF Spec

\* No step of any reachable state takes "from" or "to" away from an entry
\* that it does not delete.
THEOREM SubscriptionsGrow == Spec => SubscriptionGrows
<1> DEFINE A == \A u \in Users, c \in Names :
              \/ ~HasEntry(roster'[u][c])
              \/ /\ SubFrom(roster[u][c]) => SubFrom(roster'[u][c])
                 /\ SubTo(roster[u][c]) => SubTo(roster'[u][c])
<1>1. TypeOK /\ AskInv /\ [Next]_vars => A
  <2> SUFFICES ASSUME TypeOK, AskInv, [Next]_vars, NEW u \in Users, NEW c \in Names
               PROVE  \/ ~HasEntry(roster'[u][c])
                      \/ /\ SubFrom(roster[u][c]) => SubFrom(roster'[u][c])
                         /\ SubTo(roster[u][c]) => SubTo(roster'[u][c])
    OBVIOUS
  <2>1. roster[u][c] \in Entry
    BY DEF TypeOK
  <2>2. roster[u][c].ask => roster[u][c].sub \in {"none", "from"}
    BY DEF AskInv
  <2>3. roster'[u][c] \in Changes(roster[u][c])
    BY RosterStep
  <2> QED BY <2>1, <2>2, <2>3, ChangesKeep
<1>2. TypeOK /\ AskInv /\ [Next]_vars => [A]_vars
  BY <1>1
<1> HIDE DEF A
<1>3. Spec => [][A]_vars
  BY <1>2, TypeCorrect, AskOutstanding, PTL DEF Spec
<1> QED BY <1>3 DEF A, SubscriptionGrows

-----------------------------------------------------------------------------
(* Grants between local users.                                             *)

\* A local user's entry for a local user gains "to" in no other step than the
\* other's grant, whose own roster then says "from".
LEMMA StepGrant ==
    ASSUME TypeOK, [Next]_vars, NEW a \in Users, NEW b \in Users,
           SubTo(roster'[b][a]), ~SubTo(roster[b][a]), PresenceAssumption
    PROVE  SubFrom(roster'[a][b])
<1>0. roster \in [Users -> [Names -> Entry]] /\ a \in Names /\ b \in Names
  BY DEF TypeOK, Names
<1>1. roster[b][a] \in Entry /\ roster[a][b] \in Entry
  BY <1>0
<1>2. /\ ~SubTo(Asked(roster[b][a])) /\ ~SubTo(Granted(roster[b][a]))
      /\ ~SubTo(Added(roster[b][a])) /\ ~SubTo(NoEntry)
  BY <1>1, ToByAcceptedOnly
<1>3. roster' # roster
  OBVIOUS
<1>4. ASSUME NEW u \in Users, NEW c \in Names,
             \/ \E remove \in BOOLEAN : RosterSet(u, c, remove)
             \/ ClientSubscribe(u, c)
      PROVE  FALSE
  <2>1. \E e \in {NoEntry, Added(roster[u][c]), Asked(roster[u][c])} :
            roster' = [roster EXCEPT ![u][c] = e]
    BY <1>4 DEF RosterSet, ClientSubscribe
  <2> QED BY <2>1, <1>0, <1>2
<1>5. ASSUME NEW u \in Users, NEW c \in Names, ClientSubscribed(u, c)
      PROVE  SubFrom(roster'[a][b])
  <2> DEFINE e == Granted(roster[u][c])
             ros == [roster EXCEPT ![u][c] = e]
  <2>1. SubFrom(e) /\ e \in Entry
    <3>1. roster[u][c] \in Entry /\ e # roster[u][c]
      BY <1>5, <1>0 DEF ClientSubscribed
    <3> QED BY <3>1, GrantedIsFrom, EntryGranted
  <2>2. CASE ~OutsideAccepts(ros, c, u)
    <3>1. roster' = ros
      BY <1>5, <2>2 DEF ClientSubscribed
    <3> QED BY <3>1, <1>0, <1>2
  <2>3. CASE OutsideAccepts(ros, c, u)
    <3>1. c \in Users /\ u \in Names
      BY <2>3 DEF OutsideAccepts, HasSession, Names
    <3>2. roster' = [ros EXCEPT ![c][u] = Accepted(ros[c][u])]
      BY <1>5, <2>3 DEF ClientSubscribed, OutsideSubscribed
    <3>3. b = c /\ a = u
      <4>1. CASE b = u /\ a = c /\ ~(b = c /\ a = u)
        BY <4>1, <3>1, <3>2, <1>0, <1>2
      <4>2. CASE ~(b = u /\ a = c) /\ ~(b = c /\ a = u)
        BY <4>2, <3>1, <3>2, <1>0
      <4> QED BY <4>1, <4>2
    <3>4. CASE u = c
      <4>1. roster'[u][u] = Accepted(e)
        BY <3>4, <3>1, <3>2, <1>0
      <4> QED BY <3>3, <3>4, <4>1, <2>1, AcceptedKeepsFrom
    <3>5. CASE u # c
      <4>1. roster'[u][c] = e
        BY <3>5, <3>1, <3>2, <1>0
      <4> QED BY <3>3, <4>1, <2>1
    <3> QED BY <3>4, <3>5
  <2> QED BY <2>2, <2>3
<1>6. ASSUME NEW u \in Users, NEW c \in Remotes, RemoteSubscribed(c, u)
      PROVE  FALSE
  <2>1. roster' = [roster EXCEPT ![u][c] = Accepted(roster[u][c])] /\ c \in Names /\ c \notin Users
    BY <1>6, PresenceAssumption DEF RemoteSubscribed, OutsideSubscribed, Names, PresenceAssumption
  <2> QED BY <2>1, <1>0
<1>7. CASE Restart
  <2>1. \/ \E p \in Users \X Names : roster' = [roster EXCEPT ![p[1]][p[2]] = Granted(@)]
        \/ \E u \in Users : roster' = [roster EXCEPT ![u] = [n \in Names |-> NoEntry]]
    BY <1>7, <1>3 DEF Restart, CrashImages
  <2>2. roster'[b][a] \in {roster[b][a], Granted(roster[b][a]), NoEntry}
    <3>1. ASSUME NEW p \in Users \X Names, roster' = [roster EXCEPT ![p[1]][p[2]] = Granted(@)]
          PROVE  roster'[b][a] \in {roster[b][a], Granted(roster[b][a]), NoEntry}
      <4>1. PICK u \in Users, c \in Names : p = <<u, c>>
        OBVIOUS
      <4>2. roster' = [roster EXCEPT ![u][c] = Granted(roster[u][c])]
        BY <3>1, <4>1
      <4> QED BY <4>2, <1>0
    <3>2. ASSUME NEW u \in Users, roster' = [roster EXCEPT ![u] = [n \in Names |-> NoEntry]]
          PROVE  roster'[b][a] \in {roster[b][a], Granted(roster[b][a]), NoEntry}
      BY <3>2, <1>0
    <3> QED BY <2>1, <3>1, <3>2
  <2> QED BY <2>2, <1>2
<1>8. ASSUME NEW u \in Users,
             \/ \E r \in Resources, i \in 1 .. MaxSessions : Login(u, r, i)
             \/ \E i \in 1 .. MaxSessions : SessionGone(u, i)
             \/ \E t \in {"avail", "unavail"} : ClientBroadcast(u, t)
             \/ \E i \in 1 .. MaxSessions, to \in DirectedTo, t \in {"avail", "unavail"} :
                    ClientDirected(u, i, to, t)
             \/ RosterGet(u)
             \/ \E from \in RemoteJid : RemoteProbe(from, u)
             \/ \E from \in RemoteJid : RemoteError(from, u)
      PROVE  FALSE
  BY <1>8, <1>3 DEF Login, SessionGone, ClientBroadcast, ClientDirected, RosterGet, RemoteProbe, RemoteError
<1>9. ~UNCHANGED vars
  BY <1>3 DEF vars
<1> QED BY <1>4, <1>5, <1>6, <1>7, <1>8, <1>9 DEF Next

\* Between any two local users, "to" appears in one roster only together with
\* "from" in the other, although each roster is a file of its own.
THEOREM GrantsAreMutual == Spec => GrantIsMutual
<1> DEFINE A == \A a, b \in Users :
              SubTo(roster'[b][a]) /\ ~SubTo(roster[b][a]) => SubFrom(roster'[a][b])
<1>1. TypeOK /\ [Next]_vars => [A]_vars
  BY StepGrant, PresenceAssumption
<1> HIDE DEF A
<1>2. Spec => [][A]_vars
  BY <1>1, TypeCorrect, PTL DEF Spec
<1> QED BY <1>2 DEF A, GrantIsMutual

-----------------------------------------------------------------------------
(***************************************************************************)
(* Users who have one session at a time: the client's copy of the roster,  *)
(* ghosts, leaks, and what a subscriber sees.  With two sessions of a user *)
(* the router's "first session of the node" is not the session a stanza    *)
(* came from, and none of them is true.                                    *)
(***************************************************************************)
\* One session of each user, the case in which Router::userSessionJid is the
\* jid of whoever wrote the stanza.
OneAtATime == MaxSessions <= 1

-----------------------------------------------------------------------------
(* The first session of a user, through a write, a push and a login.       *)

\* Router::write tells the first session of each local user, and nothing else
\* of a session changes.
Delivered(s, f, ws, n) ==
    /\ f.res = s.res
    /\ f.copy = s.copy
    /\ f.said = s.said
    /\ f.online = Told(s.online, ws, n)

\* Delivery, seen from one user's sessions.
LEMMA DeliverView ==
    ASSUME NEW ss \in [Users -> Seq(Session)], NEW ws, NEW tt, tt = Deliver(ss, ws),
           NEW n \in Users
    PROVE  /\ ss[n] = <<>> => tt[n] = <<>>
           /\ ss[n] # <<>> => tt[n] # <<>> /\ Delivered(ss[n][1], tt[n][1], ws, n)
           /\ Len(tt[n]) = Len(ss[n])
<1>1. CASE ss[n] = <<>>
  BY <1>1 DEF Deliver
<1>2. CASE ss[n] # <<>>
  <2> DEFINE s == ss[n]
             e == s[1]
             f == [e EXCEPT !.online = Told(e.online, ws, n)]
  <2>1. s \in Seq(Session) /\ s # <<>> /\ e \in Session
    BY <1>2, FirstIsSession
  <2>2. tt[n] = [s EXCEPT ![1] = f]
    BY <1>2 DEF Deliver
  <2>3. Delivered(e, f, ws, n)
    BY <2>1 DEF Delivered, Session
  <2>4. 1 \in 1 .. Len(s)
    BY <2>1, EmptySeq, LenProperties
  <2> HIDE DEF s, e, f
  <2>5. tt[n][1] = f /\ Len(tt[n]) = Len(s)
    BY <2>1, <2>2, <2>4
  <2>6. tt[n] # <<>>
    BY <2>4, <2>5
  <2> QED BY <2>3, <2>5, <2>6, <1>2 DEF s, e
<1> QED BY <1>1, <1>2

\* A roster push reaches the copy of the first session, when it has one.
Pushed(s, f, c, e) ==
    /\ f.res = s.res
    /\ f.online = s.online
    /\ f.said = s.said
    /\ IF s.copy = NoCopy THEN f.copy = s.copy ELSE f.copy = [s.copy EXCEPT ![c] = e]

\* Nobody else's sessions change.
PushSeen(ss, tt, u, c, e) ==
    /\ \A n \in Users : n # u => tt[n] = ss[n]
    /\ ss[u] = <<>> => tt[u] = <<>>
    /\ ss[u] # <<>> => tt[u] # <<>> /\ Pushed(ss[u][1], tt[u][1], c, e)
    /\ Len(tt[u]) = Len(ss[u])

\* A push, seen from the sessions of the users.
LEMMA PushView ==
    ASSUME NEW ss \in [Users -> Seq(Session)], NEW u \in Users, NEW c, NEW e,
           NEW tt, tt = Push(ss, u, c, e)
    PROVE  PushSeen(ss, tt, u, c, e)
<1> USE DEF PushSeen
<1>1. CASE ss[u] = <<>> \/ ss[u][1].copy = NoCopy
  BY <1>1 DEF Push, Pushed
<1>2. CASE ~(ss[u] = <<>> \/ ss[u][1].copy = NoCopy)
  <2> DEFINE s == ss[u]
             d == s[1]
             f == [d EXCEPT !.copy[c] = e]
  <2>1. s \in Seq(Session) /\ s # <<>> /\ d \in Session
    BY <1>2, FirstIsSession
  <2>2. tt = [ss EXCEPT ![u] = [s EXCEPT ![1] = f]]
    BY <1>2 DEF Push
  <2>3. Pushed(d, f, c, e)
    BY <2>1, <1>2 DEF Pushed, Session
  <2>4. 1 \in 1 .. Len(s)
    BY <2>1, EmptySeq, LenProperties
  <2>5. tt[u] = [s EXCEPT ![1] = f] /\ \A n \in Users : n # u => tt[n] = ss[n]
    BY <2>2
  <2> HIDE DEF s, d, f
  <2>6. tt[u][1] = f /\ Len(tt[u]) = Len(s)
    BY <2>1, <2>4, <2>5
  <2>7. tt[u] # <<>>
    BY <2>4, <2>6
  <2> QED BY <2>3, <2>5, <2>6, <2>7, <1>2 DEF s, d
<1> QED BY <1>1, <1>2

\* The table after the first session of u is recorded to have said w.
Saying(ss, u, w) == [ss EXCEPT ![u][1].said = w]

\* tt is the table ss after the first session of u is recorded to have said w.
HasSaid(ss, u, w, tt) ==
    /\ tt \in [Users -> Seq(Session)]
    /\ \A n \in Users : n # u => tt[n] = ss[n]
    /\ tt[u] # <<>> /\ Len(tt[u]) = Len(ss[u])
    /\ tt[u][1].res = ss[u][1].res /\ tt[u][1].copy = ss[u][1].copy
    /\ tt[u][1].online = ss[u][1].online /\ tt[u][1].said = w

\* What a client is recorded to have broadcast is not in its roster or its
\* contacts' sight.
LEMMA SaidView ==
    ASSUME NEW ss \in [Users -> Seq(Session)], NEW u \in Users, ss[u] # <<>>,
           NEW w \in Said, NEW tt, tt = Saying(ss, u, w)
    PROVE  HasSaid(ss, u, w, tt)
<1> DEFINE s == ss[u]
           d == s[1]
           f == [d EXCEPT !.said = w]
<1>1. s \in Seq(Session) /\ s # <<>> /\ d \in Session
  BY FirstIsSession
<1>2. f \in Session
  BY <1>1 DEF Session
<1>3. f.res = d.res /\ f.copy = d.copy /\ f.online = d.online /\ f.said = w
  BY <1>1 DEF Session
<1>4. [s EXCEPT ![1] = f] \in Seq(Session)
  BY <1>1, <1>2, FirstReplaced
<1>5. 1 \in 1 .. Len(s)
  BY <1>1, EmptySeq, LenProperties
<1>6. tt = [ss EXCEPT ![u] = [s EXCEPT ![1] = f]]
  BY DEF Saying
<1>7. tt[u] = [s EXCEPT ![1] = f] /\ \A n \in Users : n # u => tt[n] = ss[n]
  BY <1>6
<1>8. tt \in [Users -> Seq(Session)]
  BY <1>4, <1>6
<1> HIDE DEF s, d, f
<1>9. tt[u][1] = f /\ Len(tt[u]) = Len(s)
  <2>1. ASSUME NEW q, q = [s EXCEPT ![1] = f] PROVE q[1] = f /\ Len(q) = Len(s)
    BY ONLY <2>1, <1>1, <1>5
  <2> QED BY <2>1, <1>7
<1>10. tt[u] # <<>>
  BY <1>5, <1>9
<1> QED BY <1>3, <1>7, <1>8, <1>9, <1>10 DEF s, d, HasSaid

\* With one session at a time a login finds the user without one.
LEMMA LoginView ==
    ASSUME TypeOK, PresenceAssumption, OneAtATime, NEW u \in Users, NEW r \in Resources, NEW i,
           Login(u, r, i)
    PROVE  /\ sess[u] = <<>>
           /\ sess'[u] # <<>> /\ Len(sess'[u]) = 1 /\ sess'[u][1] = NewSession(r)
           /\ \A n \in Users : n # u => sess'[n] = sess[n]
<1> DEFINE s == sess[u]
           f == NewSession(r)
<1>1. s \in Seq(Session) /\ Len(s) < MaxSessions /\ i \in 1 .. Len(s) + 1
      /\ sess' = [sess EXCEPT ![u] = InsertAt(s, i, f)]
  BY DEF Login, TypeOK
<1>2. Len(s) = 0 /\ i = 1
  BY <1>1, LenProperties DEF PresenceAssumption, OneAtATime
<1>3. s = <<>>
  BY <1>1, <1>2, EmptySeq
<1>4. sess'[u] = InsertAt(<<>>, 1, f) /\ \A n \in Users : n # u => sess'[n] = sess[n]
  BY <1>1, <1>2, <1>3 DEF TypeOK
<1> HIDE DEF f
<1>5. InsertAt(<<>>, 1, f) = <<f>>
  <2>1. SubSeq(<<>>, 1, 0) = <<>> /\ Len(<<>>) = 0
    BY EmptySeq, LenProperties
  <2>2. InsertAt(<<>>, 1, f) = (SubSeq(<<>>, 1, 0) \o <<f>>) \o SubSeq(<<>>, 1, 0)
    BY <2>1 DEF InsertAt
  <2>3. <<>> \o <<f>> = <<f>> /\ <<f>> \o <<>> = <<f>>
    OBVIOUS
  <2> QED BY <2>1, <2>2, <2>3
<1>6. <<f>> # <<>> /\ Len(<<f>>) = 1 /\ <<f>>[1] = f
  OBVIOUS
<1> QED BY <1>3, <1>4, <1>5, <1>6 DEF f

\* One session of each user at most.
OneEach == \A u \in Users : Len(sess[u]) <= 1

\* The session that ends was the only one of its user.
LEMMA GoneView ==
    ASSUME TypeOK, OneEach, NEW u \in Users, NEW i, SessionGone(u, i)
    PROVE  /\ WriteAll([sess EXCEPT ![u] = <<>>], {})
           /\ UNCHANGED <<roster, items, dplist, pushed, severed>>
<1>1. sess[u] \in Seq(Session) /\ i \in 1 .. Len(sess[u])
  BY DEF SessionGone, TypeOK
<1>2. Len(RemoveAt(sess[u], i)) = Len(sess[u]) - 1 /\ RemoveAt(sess[u], i) \in Seq(Session)
  BY <1>1, RemoveAtType
<1>3. RemoveAt(sess[u], i) = <<>>
  BY <1>1, <1>2, EmptySeq, LenProperties DEF OneEach
<1>4. [sess EXCEPT ![u] = RemoveAt(@, i)] = [sess EXCEPT ![u] = <<>>]
  BY <1>3
<1>5. [sess EXCEPT ![u] = <<>>][u] = <<>>
  BY DEF TypeOK
<1> QED BY <1>4, <1>5 DEF SessionGone

\* A broadcast, past its early return or not: the sessions it writes to
\* differ from the table by the sender's last word alone.
LEMMA BroadcastView ==
    ASSUME TypeOK, NEW u \in Users, NEW t, ClientBroadcast(u, t)
    PROVE  LET v == userSessionJid(sess, u) IN
           \/ WriteAll(sess, {}) /\ t = "unavail" /\ InitialUnavailable(sess, v)
           \/ \E w \in Said :
                 /\ WriteAll(Saying(sess, u, w), BroadcastWrites(v, t))
                 /\ \/ t = "avail" /\ w = SaidAvail(v, sess[u][1].said) /\ Available(v)
                    \/ t = "unavail" /\ w = "no" /\ Unavailable(sess, v)
<1> DEFINE v == userSessionJid(sess, u)
<1>1. v \in FullJid /\ v[1] = u /\ sess[u][1] \in Session
  BY JidOfSession, FirstIsSession DEF ClientBroadcast, HasSession, TypeOK
<1>2. CASE InitialUnavailable(sess, v) /\ t = "unavail"
  BY <1>2 DEF InitialUnavailable
<1>3. CASE Unavailable(sess, v) /\ t = "unavail"
  <2>1. WriteAll(Saying(sess, u, "no"), BroadcastWrites(v, t))
    BY <1>1, <1>3 DEF Unavailable, Saying
  <2> QED BY <1>3, <2>1 DEF Said
<1>4. CASE Available(v) /\ t = "avail"
  <2> DEFINE w == SaidAvail(v, sess[u][1].said)
  <2>1. w \in Said
    BY <1>1 DEF SaidAvail, Said, Session
  <2>2. WriteAll(Saying(sess, u, w), BroadcastWrites(v, t))
    BY <1>1, <1>4 DEF Available, Saying
  <2> HIDE DEF w
  <2>3. t = "avail" /\ w = SaidAvail(v, sess[u][1].said) /\ Available(v)
    BY <1>4 DEF w
  <2> QED BY <2>1, <2>2, <2>3
<1> QED BY <1>2, <1>3, <1>4 DEF ClientBroadcast

-----------------------------------------------------------------------------
(* The client's copy of the roster.                                        *)

\* ClientRosterInSync of any table and rosters, those in the middle of a
\* handler included.
Matches(e, ros, n, c) ==
    \/ e = ros[n][c]
    \/ c = n /\ ros[n][n] = [sub |-> "both", ask |-> FALSE] /\ e.sub = "from"

InSync(ss, ros) ==
    \A n \in Users : ss[n] # <<>> /\ ss[n][1].copy # NoCopy =>
        \A c \in Names : Matches(ss[n][1].copy[c], ros, n, c)

\* A table that differs by what was seen and said alone.
SameCopies(ss, tt) ==
    \A n \in Users : /\ Len(tt[n]) = Len(ss[n])
                     /\ tt[n] # <<>> => ss[n] # <<>> /\ tt[n][1].copy = ss[n][1].copy

\* Delivery leaves the copies alone.
LEMMA DeliverCopies ==
    ASSUME NEW ss \in [Users -> Seq(Session)], NEW ws, NEW tt, tt = Deliver(ss, ws)
    PROVE  SameCopies(ss, tt)
<1> SUFFICES ASSUME NEW n \in Users
             PROVE  /\ Len(tt[n]) = Len(ss[n])
                    /\ tt[n] # <<>> => ss[n] # <<>> /\ tt[n][1].copy = ss[n][1].copy
  BY DEF SameCopies
<1> QED BY DeliverView DEF Delivered

\* Same copies, same agreement with the rosters.
LEMMA SameSync ==
    ASSUME NEW ss, NEW tt, NEW ros, SameCopies(ss, tt), InSync(ss, ros)
    PROVE  InSync(tt, ros)
BY DEF SameCopies, InSync

\* A push of the entry that was stored keeps copy and roster equal.
LEMMA PushSync ==
    ASSUME NEW ss \in [Users -> Seq(Session)], NEW ros \in [Users -> [Names -> Entry]],
           NEW u \in Users, NEW c \in Names, NEW e, InSync(ss, ros),
           NEW tt, tt = Push(ss, u, c, e), NEW new, new = [ros EXCEPT ![u][c] = e]
    PROVE  InSync(tt, new)
<1> SUFFICES ASSUME NEW n \in Users, tt[n] # <<>>, tt[n][1].copy # NoCopy, NEW d \in Names
             PROVE  Matches(tt[n][1].copy[d], new, n, d)
  BY DEF InSync
<1>0. PushSeen(ss, tt, u, c, e)
  BY PushView
<1>1. CASE n # u
  <2>1. tt[n] = ss[n]
    BY <1>0, <1>1 DEF PushSeen
  <2>2. new[n] = ros[n]
    BY <1>1
  <2> QED BY <2>1, <2>2 DEF InSync, Matches
<1>2. CASE n = u
  <2>1. ss[u] # <<>> /\ Pushed(ss[u][1], tt[u][1], c, e)
    BY <1>0, <1>2 DEF PushSeen
  <2>2. ss[u][1].copy # NoCopy /\ tt[u][1].copy = [ss[u][1].copy EXCEPT ![c] = e]
    BY <1>2, <2>1 DEF Pushed
  <2>3. ss[u][1].copy \in [Names -> Entry]
    <3>1. ss[u][1] \in Session
      BY <2>1, FirstIsSession
    <3> QED BY <2>2, <3>1 DEF Session
  <2>4. CASE d = c
    <3>1. tt[u][1].copy[d] = e /\ new[u][d] = e
      BY <2>2, <2>3, <2>4
    <3> QED BY <1>2, <3>1 DEF Matches
  <2>5. CASE d # c
    <3>1. tt[u][1].copy[d] = ss[u][1].copy[d] /\ new[u][d] = ros[u][d]
      BY <2>2, <2>3, <2>5
    <3>2. Matches(ss[u][1].copy[d], ros, u, d)
      BY <2>1, <2>2 DEF InSync
    <3>3. d = u => new[u][u] = ros[u][u]
      BY <3>1
    <3> QED BY <1>2, <3>1, <3>2, <3>3 DEF Matches
  <2> QED BY <2>4, <2>5
<1> QED BY <1>1, <1>2

\* A push of a user's own entry from before its grant to itself was accepted.
LEMMA LatePush ==
    ASSUME NEW ss \in [Users -> Seq(Session)], NEW ros, NEW u \in Users, u \in Names,
           NEW e, e.sub = "from", ros[u][u] = [sub |-> "both", ask |-> FALSE],
           InSync(ss, ros), NEW tt, tt = Push(ss, u, u, e)
    PROVE  InSync(tt, ros)
<1> SUFFICES ASSUME NEW n \in Users, tt[n] # <<>>, tt[n][1].copy # NoCopy, NEW d \in Names
             PROVE  Matches(tt[n][1].copy[d], ros, n, d)
  BY DEF InSync
<1>0. PushSeen(ss, tt, u, u, e)
  BY PushView
<1>1. CASE n # u
  <2>1. tt[n] = ss[n]
    BY <1>0, <1>1 DEF PushSeen
  <2> QED BY <2>1 DEF InSync
<1>2. CASE n = u
  <2>1. ss[u] # <<>> /\ Pushed(ss[u][1], tt[u][1], u, e)
    BY <1>0, <1>2 DEF PushSeen
  <2>2. ss[u][1].copy # NoCopy /\ tt[u][1].copy = [ss[u][1].copy EXCEPT ![u] = e]
    BY <1>2, <2>1 DEF Pushed
  <2>3. ss[u][1].copy \in [Names -> Entry]
    <3>1. ss[u][1] \in Session
      BY <2>1, FirstIsSession
    <3> QED BY <2>2, <3>1 DEF Session
  <2>4. CASE d = u
    <3>1. tt[u][1].copy[d] = e
      BY <2>2, <2>3, <2>4
    <3> QED BY <1>2, <2>4, <3>1 DEF Matches
  <2>5. CASE d # u
    <3>1. tt[u][1].copy[d] = ss[u][1].copy[d]
      BY <2>2, <2>3, <2>5
    <3> QED BY <1>2, <2>1, <2>2, <3>1 DEF InSync
  <2> QED BY <2>4, <2>5
<1> QED BY <1>1, <1>2

\* A write to the first sessions keeps the agreement and the lengths.
LEMMA WriteSync ==
    ASSUME NEW ss \in [Users -> Seq(Session)], NEW ros, NEW ws, WriteAll(ss, ws), InSync(ss, ros)
    PROVE  InSync(sess', ros)
<1>1. SameCopies(ss, sess')
  BY DeliverCopies DEF WriteAll
<1> QED BY <1>1, SameSync

\* A client's grant: the contact's push and the client's own leave both copies
\* right; if the contact is the client itself, its own entry may lag.
LEMMA GrantSync ==
    ASSUME TypeOK, InSync(sess, roster), NEW u \in Users, NEW c \in Names,
           ClientSubscribed(u, c)
    PROVE  InSync(sess', roster')
<1>0. sess \in [Users -> Seq(Session)] /\ roster \in [Users -> [Names -> Entry]]
  BY DEF TypeOK
<1>1. PICK e, ros : e = Granted(roster[u][c]) /\ ros = [roster EXCEPT ![u][c] = e]
  OBVIOUS
<1>2. e \in Entry /\ e # roster[u][c]
  BY <1>0, <1>1, EntryGranted DEF ClientSubscribed
<1>3. ros \in [Users -> [Names -> Entry]]
  BY <1>0, <1>1, <1>2
<1>4. CASE ~OutsideAccepts(ros, c, u)
  <2>1. roster' = ros /\ sess' = Push(sess, u, c, e)
    BY <1>1, <1>4 DEF ClientSubscribed
  <2> QED BY <1>0, <1>1, <2>1, PushSync
<1>5. CASE OutsideAccepts(ros, c, u)
  <2>1. c \in Users /\ u \in Names /\ Accepted(ros[c][u]) # ros[c][u]
    BY <1>5 DEF OutsideAccepts, HasSession, Names
  <2>2. PICK d, mm, tt : /\ d = Accepted(ros[c][u])
                         /\ mm = Push(sess, c, u, d)
                         /\ tt = Push(mm, u, c, e)
    OBVIOUS
  <2>3. d \in Entry
    BY <1>3, <2>1, <2>2 DEF Accepted, Entry, Subs
  <2>4. mm \in [Users -> Seq(Session)]
    BY <1>0, <2>1, <2>2, <2>3, PushType
  <2>5. tt \in [Users -> Seq(Session)]
    BY <1>2, <2>2, <2>4, PushType
  <2>6. OutsideSubscribed(ros, tt, c, u)
    BY <1>1, <1>5, <2>2 DEF ClientSubscribed, AcceptedPush
  <2>7. roster' = [ros EXCEPT ![c][u] = d] /\ \E ws : WriteAll(tt, ws)
    BY <2>2, <2>6 DEF OutsideSubscribed
  <2>8. PICK mid : mid = [roster EXCEPT ![c][u] = d]
    OBVIOUS
  <2>9. InSync(mm, mid) /\ mid \in [Users -> [Names -> Entry]]
    BY <1>0, <2>1, <2>2, <2>3, <2>8, PushSync
  <2>10. CASE u # c
    <3>1. roster' = [mid EXCEPT ![u][c] = e]
      <4>1. ros[c] = roster[c] /\ mid[u] = roster[u]
        BY <1>0, <1>1, <2>1, <2>8, <2>10
      <4>2. PICK p, q : p = [roster[u] EXCEPT ![c] = e] /\ q = [roster[c] EXCEPT ![u] = d]
        OBVIOUS
      <4>3. /\ ros = [roster EXCEPT ![u] = p] /\ mid = [roster EXCEPT ![c] = q]
            /\ roster' = [ros EXCEPT ![c] = q] /\ [mid EXCEPT ![u][c] = e] = [mid EXCEPT ![u] = p]
        BY <1>1, <2>7, <2>8, <4>1, <4>2
      <4> QED BY <1>0, <2>1, <2>10, <4>3
    <3>2. InSync(tt, roster')
      BY <2>2, <2>4, <2>9, <3>1, PushSync
    <3> QED BY <2>5, <2>7, <3>2, WriteSync
  <2>11. CASE u = c
    <3>1. ros[c][u] = e /\ roster' = mid
      BY <1>0, <1>1, <2>1, <2>7, <2>8, <2>11
    <3>2. e.sub = "from" /\ d = [sub |-> "both", ask |-> FALSE]
      <4>1. roster[u][c] \in Entry
        BY <1>0
      <4>2. e.sub \in {"from", "both"}
        BY <1>1, <1>2, <4>1 DEF Granted, Entry
      <4>3. e.sub = "from"
        BY <2>1, <3>1, <4>2 DEF Accepted
      <4> QED BY <2>2, <3>1, <4>3 DEF Accepted
    <3>3. mid[u][u] = d
      BY <1>0, <2>1, <2>8, <2>11
    <3>4. InSync(tt, mid)
      BY <2>1, <2>2, <2>4, <2>9, <2>11, <3>2, <3>3, LatePush
    <3> QED BY <2>5, <2>7, <3>1, <3>4, WriteSync
  <2> QED BY <2>10, <2>11
<1> QED BY <1>4, <1>5

\* What every step of the server does to the clients' copies.
LEMMA StepSync ==
    ASSUME PresenceAssumption, OneAtATime, TypeOK, OneEach, InSync(sess, roster), [Next]_vars
    PROVE  InSync(sess', roster')
<1> DEFINE Goal == InSync(sess', roster')
<1>0. /\ sess \in [Users -> Seq(Session)]
      /\ roster \in [Users -> [Names -> Entry]]
  BY DEF TypeOK
<1>1. CASE UNCHANGED vars
  BY <1>1 DEF vars
<1>2. ASSUME NEW u \in Users, NEW r \in Resources, NEW i \in 1 .. MaxSessions, Login(u, r, i)
      PROVE  Goal
  <2>1. sess'[u][1] = NewSession(r) /\ \A n \in Users : n # u => sess'[n] = sess[n]
    BY <1>2, LoginView
  <2>2. roster' = roster
    BY <1>2 DEF Login
  <2>3. sess'[u][1].copy = NoCopy
    BY <2>1 DEF NewSession
  <2> QED BY <2>1, <2>2, <2>3 DEF InSync
<1>3. ASSUME NEW u \in Users, NEW i \in 1 .. MaxSessions, SessionGone(u, i)
      PROVE  Goal
  <2> DEFINE ss == [sess EXCEPT ![u] = <<>>]
  <2>1. WriteAll(ss, {}) /\ roster' = roster
    BY <1>3, GoneView
  <2>2. ss \in [Users -> Seq(Session)]
    BY <1>0
  <2>3. InSync(ss, roster)
    BY <1>0 DEF InSync
  <2> HIDE DEF ss
  <2> QED BY <2>1, <2>2, <2>3, WriteSync
<1>4. ASSUME NEW u \in Users, NEW t \in {"avail", "unavail"}, ClientBroadcast(u, t)
      PROVE  Goal
  <2>1. roster' = roster /\ sess[u] # <<>>
    BY <1>4 DEF ClientBroadcast, HasSession
  <2>2. CASE WriteAll(sess, {})
    BY <2>1, <2>2, <1>0, WriteSync
  <2>3. CASE ~WriteAll(sess, {})
    <3>1. PICK w \in Said : WriteAll(Saying(sess, u, w),
                                     BroadcastWrites(userSessionJid(sess, u), t))
      BY <1>4, <2>3, BroadcastView
    <3>2. PICK tt : tt = Saying(sess, u, w)
      OBVIOUS
    <3>3. /\ tt \in [Users -> Seq(Session)]
          /\ \A n \in Users : n # u => tt[n] = sess[n]
          /\ tt[u] # <<>> /\ tt[u][1].copy = sess[u][1].copy
      <4>1. HasSaid(sess, u, w, tt)
        BY <2>1, <3>2, <1>0, SaidView
      <4> QED BY <4>1 DEF HasSaid
    <3>4. InSync(tt, roster)
      BY <2>1, <3>3 DEF InSync
    <3> QED BY <2>1, <3>1, <3>2, <3>3, <3>4, WriteSync
  <2> QED BY <2>2, <2>3
<1>5. ASSUME NEW u \in Users, NEW i \in 1 .. MaxSessions, NEW to \in DirectedTo,
             NEW t \in {"avail", "unavail"}, ClientDirected(u, i, to, t)
      PROVE  Goal
  <2>1. roster' = roster /\ \E ws : WriteAll(sess, ws)
    BY <1>5 DEF ClientDirected
  <2> QED BY <2>1, <1>0, WriteSync
<1>6. ASSUME NEW u \in Users, RosterGet(u)
      PROVE  Goal
  <2>1. sess' = [sess EXCEPT ![u][1].copy = roster[u]] /\ roster' = roster /\ sess[u] # <<>>
    BY <1>6 DEF RosterGet, HasSession
  <2>2. sess'[u][1].copy = roster[u]
    <3> DEFINE s == sess[u]
               d == s[1]
               f == [d EXCEPT !.copy = roster[u]]
    <3>1. s \in Seq(Session) /\ s # <<>> /\ d \in Session
      BY <2>1, <1>0, FirstIsSession
    <3>2. f.copy = roster[u]
      BY <3>1 DEF Session
    <3>3. sess'[u] = [s EXCEPT ![1] = f]
      BY <2>1, <1>0
    <3>4. 1 \in 1 .. Len(s)
      BY <3>1, EmptySeq, LenProperties
    <3> HIDE DEF s, f
    <3>5. sess'[u][1] = f
      BY <3>1, <3>3, <3>4
    <3> QED BY <3>2, <3>5
  <2>3. \A n \in Users : n # u => sess'[n] = sess[n]
    BY <2>1, <1>0
  <2> QED BY <2>1, <2>2, <2>3 DEF InSync, Matches
<1>7. ASSUME NEW u \in Users, NEW c \in Names, NEW remove \in BOOLEAN, RosterSet(u, c, remove)
      PROVE  Goal
  <2>1. \E e : roster' = [roster EXCEPT ![u][c] = e] /\ sess' = Push(sess, u, c, e)
    BY <1>7 DEF RosterSet
  <2> QED BY <2>1, <1>0, PushSync
<1>8. ASSUME NEW u \in Users, NEW c \in Names, ClientSubscribe(u, c)
      PROVE  Goal
  <2>1. PICK e : /\ roster' = [roster EXCEPT ![u][c] = e]
                 /\ sess' = IF e # roster[u][c] THEN Push(sess, u, c, e) ELSE sess
    BY <1>8 DEF ClientSubscribe
  <2>2. CASE e = roster[u][c]
    <3>1. roster' = roster /\ sess' = sess
      BY <2>1, <2>2, <1>0
    <3> QED BY <3>1
  <2>3. CASE e # roster[u][c]
    BY <2>1, <2>3, <1>0, PushSync
  <2> QED BY <2>2, <2>3
<1>9. ASSUME NEW u \in Users, NEW c \in Names, ClientSubscribed(u, c)
      PROVE  Goal
  BY <1>9, GrantSync
<1>10. ASSUME NEW u \in Users, NEW c \in Remotes, RemoteSubscribed(c, u)
       PROVE  Goal
  <2>1. PICK d, tt : d = Accepted(roster[u][c]) /\ tt = Push(sess, u, c, d)
    OBVIOUS
  <2>2. c \in Names /\ roster' = [roster EXCEPT ![u][c] = d] /\ \E ws : WriteAll(tt, ws)
    BY <1>10, <2>1 DEF RemoteSubscribed, OutsideSubscribed, AcceptedPush, Names
  <2>3. InSync(tt, roster')
    BY <2>1, <2>2, <1>0, PushSync
  <2>4. d \in Entry
    BY <2>1, <2>2, <1>0 DEF Accepted, Entry, Subs
  <2>5. tt \in [Users -> Seq(Session)]
    BY <2>1, <2>2, <2>4, <1>0, PushType
  <2> QED BY <2>2, <2>3, <2>5, WriteSync
<1>11. ASSUME NEW u \in Users, NEW from \in RemoteJid, RemoteProbe(from, u) \/ RemoteError(from, u)
       PROVE  Goal
  <2>1. roster' = roster /\ (sess' = sess \/ \E ws : WriteAll(sess, ws))
    BY <1>11 DEF RemoteProbe, RemoteError
  <2> QED BY <2>1, <1>0, WriteSync
<1>12. CASE Restart
  BY <1>12 DEF Restart, InSync
<1> QED BY <1>1, <1>2, <1>3, <1>4, <1>5, <1>6, <1>7, <1>8, <1>9, <1>10, <1>11, <1>12 DEF Next

-----------------------------------------------------------------------------
(* The table of sessions.                                                  *)

\* A table with the same first sessions, whatever they know and said.
SameTable(ss, tt) ==
    \A n \in Users : /\ Len(tt[n]) = Len(ss[n])
                     /\ ss[n] # <<>> => tt[n] # <<>> /\ tt[n][1].res = ss[n][1].res

\* The relation is transitive.
LEMMA SameTableTrans ==
    ASSUME NEW ss, NEW tt, NEW pp, SameTable(ss, tt), SameTable(tt, pp)
    PROVE  SameTable(ss, pp)
BY DEF SameTable

\* Delivery and pushes change no session's place or resource.
LEMMA DeliverTable ==
    ASSUME NEW ss \in [Users -> Seq(Session)], NEW ws, NEW tt, tt = Deliver(ss, ws)
    PROVE  SameTable(ss, tt)
<1> SUFFICES ASSUME NEW n \in Users
             PROVE  /\ Len(tt[n]) = Len(ss[n])
                    /\ ss[n] # <<>> => tt[n] # <<>> /\ tt[n][1].res = ss[n][1].res
  BY DEF SameTable
<1> QED BY DeliverView DEF Delivered

\* So do roster pushes.
LEMMA PushTable ==
    ASSUME NEW ss \in [Users -> Seq(Session)], NEW u \in Users, NEW c, NEW e,
           NEW tt, tt = Push(ss, u, c, e)
    PROVE  SameTable(ss, tt)
<1> SUFFICES ASSUME NEW n \in Users
             PROVE  /\ Len(tt[n]) = Len(ss[n])
                    /\ ss[n] # <<>> => tt[n] # <<>> /\ tt[n][1].res = ss[n][1].res
  BY DEF SameTable
<1>1. PushSeen(ss, tt, u, c, e)
  BY PushView
<1> QED BY <1>1 DEF PushSeen, Pushed

\* So do the pushes of a grant.
LEMMA PushedTable ==
    ASSUME NEW tt, PushedOnly(tt), TypeOK
    PROVE  SameTable(sess, tt)
<1>1. ASSUME NEW ss \in [Users -> Seq(Session)], NEW pp, IsPush(ss, pp)
      PROVE  SameTable(ss, pp)
  BY <1>1, PushTable DEF IsPush
<1>2. sess \in [Users -> Seq(Session)]
  BY DEF TypeOK
<1>3. CASE IsPush(sess, tt)
  BY <1>1, <1>2, <1>3
<1>4. ASSUME NEW mm \in [Users -> Seq(Session)], IsPush(sess, mm), IsPush(mm, tt)
      PROVE  SameTable(sess, tt)
  <2>1. SameTable(sess, mm) /\ SameTable(mm, tt)
    BY <1>1, <1>2, <1>4
  <2> QED BY <2>1, SameTableTrans
<1> QED BY <1>3, <1>4 DEF PushedOnly

\* The loopback of a grant writes.
LEMMA OutsideTable ==
    ASSUME NEW ss \in [Users -> Seq(Session)], NEW ros, NEW u, NEW c,
           OutsideSubscribed(ros, ss, u, c)
    PROVE  SameTable(ss, sess')
<1>1. \E ws : sess' = Deliver(ss, ws)
  BY DEF OutsideSubscribed, WriteAll
<1> QED BY <1>1, DeliverTable

\* Only logins, ends of streams and restarts change the table.
LEMMA StepTable ==
    ASSUME PresenceAssumption, TypeOK, [Next]_vars
    PROVE  \/ SameTable(sess, sess')
           \/ \E u \in Users, r \in Resources, i \in 1 .. MaxSessions : Login(u, r, i)
           \/ \E u \in Users, i \in 1 .. MaxSessions : SessionGone(u, i)
           \/ Restart
<1> DEFINE Goal == SameTable(sess, sess')
<1>0. /\ sess \in [Users -> Seq(Session)]
      /\ roster \in [Users -> [Names -> Entry]]
      /\ SameTable(sess, sess)
  BY DEF TypeOK, SameTable
<1>1. CASE UNCHANGED vars
  BY <1>0, <1>1 DEF vars
<1>4. ASSUME NEW u \in Users, NEW t \in {"avail", "unavail"}, ClientBroadcast(u, t)
      PROVE  Goal
  <2>1. sess[u] # <<>>
    BY <1>4 DEF ClientBroadcast, HasSession
  <2>2. CASE WriteAll(sess, {})
    BY <2>2, <1>0, DeliverTable DEF WriteAll
  <2>3. CASE ~WriteAll(sess, {})
    <3>1. PICK w \in Said : WriteAll(Saying(sess, u, w),
                                     BroadcastWrites(userSessionJid(sess, u), t))
      BY <1>4, <2>3, BroadcastView
    <3>2. PICK tt : tt = Saying(sess, u, w)
      OBVIOUS
    <3>3. /\ tt \in [Users -> Seq(Session)]
          /\ \A n \in Users : n # u => tt[n] = sess[n]
          /\ tt[u] # <<>> /\ tt[u][1].res = sess[u][1].res /\ Len(tt[u]) = Len(sess[u])
      <4>1. HasSaid(sess, u, w, tt)
        BY <2>1, <3>2, <1>0, SaidView
      <4> QED BY <4>1 DEF HasSaid
    <3>4. SameTable(sess, tt)
      BY <2>1, <3>3 DEF SameTable
    <3>5. SameTable(tt, sess')
      BY <3>1, <3>2, <3>3, DeliverTable DEF WriteAll
    <3> QED BY <3>4, <3>5, SameTableTrans
  <2> QED BY <2>2, <2>3
<1>5. ASSUME NEW u \in Users, NEW i \in 1 .. MaxSessions, NEW to \in DirectedTo,
             NEW t \in {"avail", "unavail"}, ClientDirected(u, i, to, t)
      PROVE  Goal
  BY <1>5, <1>0, DeliverTable DEF ClientDirected, WriteAll
<1>6. ASSUME NEW u \in Users, RosterGet(u)
      PROVE  Goal
  <2>1. sess' = [sess EXCEPT ![u][1].copy = roster[u]] /\ sess[u] # <<>>
    BY <1>6 DEF RosterGet, HasSession
  <2> DEFINE s == sess[u]
             d == s[1]
             f == [d EXCEPT !.copy = roster[u]]
  <2>2. s \in Seq(Session) /\ s # <<>> /\ d \in Session
    BY <2>1, <1>0, FirstIsSession
  <2>3. f.res = d.res
    BY <2>2 DEF Session
  <2>4. sess'[u] = [s EXCEPT ![1] = f]
    BY <2>1, <1>0
  <2>5. 1 \in 1 .. Len(s)
    BY <2>2, EmptySeq, LenProperties
  <2>6. \A n \in Users : n # u => sess'[n] = sess[n]
    BY <2>1, <1>0
  <2> HIDE DEF s, d, f
  <2>7. sess'[u][1] = f /\ Len(sess'[u]) = Len(s)
    <3>1. ASSUME NEW q, q = [s EXCEPT ![1] = f] PROVE q[1] = f /\ Len(q) = Len(s)
      BY ONLY <3>1, <2>2, <2>5
    <3> QED BY <2>4, <3>1
  <2>8. sess'[u] # <<>>
    BY <2>5, <2>7
  <2> QED BY <2>1, <2>3, <2>6, <2>7, <2>8 DEF SameTable, s, d
<1>7. ASSUME NEW u \in Users, NEW c \in Names, NEW remove \in BOOLEAN, RosterSet(u, c, remove)
      PROVE  Goal
  <2>1. \E e : sess' = Push(sess, u, c, e)
    BY <1>7 DEF RosterSet
  <2> QED BY <2>1, <1>0, PushTable
<1>8. ASSUME NEW u \in Users, NEW c \in Names, ClientSubscribe(u, c)
      PROVE  Goal
  <2>1. sess' = sess \/ \E e : sess' = Push(sess, u, c, e)
    BY <1>8 DEF ClientSubscribe
  <2> QED BY <2>1, <1>0, PushTable
<1>9. ASSUME NEW u \in Users, NEW c \in Names, ClientSubscribed(u, c)
      PROVE  Goal
  <2>1. PICK ros, tt : GrantMade(u, c, ros, tt)
    BY <1>9, GrantTables
  <2>2. PushedOnly(tt) /\ tt \in [Users -> Seq(Session)]
    BY <2>1 DEF GrantMade, PushedOnly
  <2>3. SameTable(sess, tt)
    BY <2>2, PushedTable
  <2>4. OutsideSubscribed(ros, tt, c, u) \/ sess' = tt
    BY <2>1 DEF GrantMade
  <2>5. SameTable(tt, sess') \/ sess' = tt
    BY <2>2, <2>4, OutsideTable
  <2> QED BY <2>3, <2>5, SameTableTrans
<1>10. ASSUME NEW u \in Users, NEW c \in Remotes, RemoteSubscribed(c, u)
       PROVE  Goal
  <2>1. PICK tt : PushedOnly(tt) /\ OutsideSubscribed(roster, tt, u, c)
    BY <1>10, RemoteTables
  <2>2. SameTable(sess, tt) /\ tt \in [Users -> Seq(Session)]
    BY <2>1, PushedTable DEF PushedOnly
  <2>3. SameTable(tt, sess')
    BY <2>1, <2>2, OutsideTable
  <2> QED BY <2>2, <2>3, SameTableTrans
<1>11. ASSUME NEW u \in Users, NEW from \in RemoteJid, RemoteProbe(from, u) \/ RemoteError(from, u)
       PROVE  Goal
  <2>1. sess' = sess \/ \E ws : sess' = Deliver(sess, ws)
    BY <1>11 DEF RemoteProbe, RemoteError, WriteAll
  <2> QED BY <2>1, <1>0, DeliverTable
<1> QED BY <1>1, <1>4, <1>5, <1>6, <1>7, <1>8, <1>9, <1>10, <1>11 DEF Next

\* The bound on sessions, kept by every step.
LEMMA StepOne ==
    ASSUME PresenceAssumption, OneAtATime, TypeOK, OneEach, [Next]_vars
    PROVE  OneEach'
<1> SUFFICES ASSUME NEW n \in Users PROVE Len(sess'[n]) <= 1
  BY DEF OneEach
<1>0. Len(sess[n]) <= 1
  BY DEF OneEach
<1>1. CASE SameTable(sess, sess')
  BY <1>0, <1>1 DEF SameTable
<1>2. ASSUME NEW u \in Users, NEW r \in Resources, NEW i \in 1 .. MaxSessions, Login(u, r, i)
      PROVE  Len(sess'[n]) <= 1
  <2>1. CASE n = u
    <3>1. Len(sess'[u]) = 1
      BY <1>2, LoginView
    <3> QED BY <2>1, <3>1
  <2>2. CASE n # u
    <3>1. sess'[n] = sess[n]
      BY <1>2, <2>2, LoginView
    <3> QED BY <1>0, <3>1
  <2> QED BY <2>1, <2>2
<1>3. ASSUME NEW u \in Users, NEW i \in 1 .. MaxSessions, SessionGone(u, i)
      PROVE  Len(sess'[n]) <= 1
  <2> DEFINE ss == [sess EXCEPT ![u] = <<>>]
  <2>1. sess' = Deliver(ss, {})
    BY <1>3, GoneView DEF WriteAll
  <2>2. ss \in [Users -> Seq(Session)]
    BY DEF TypeOK
  <2>3. Len(ss[n]) <= 1
    <3>1. Len(<<>>) = 0
      BY EmptySeq
    <3> QED BY <1>0, <3>1 DEF TypeOK
  <2> HIDE DEF ss
  <2>4. Len(sess'[n]) = Len(ss[n])
    BY <2>1, <2>2, DeliverView
  <2> QED BY <2>3, <2>4
<1>4. CASE Restart
  <2>1. sess'[n] = <<>>
    BY <1>4 DEF Restart
  <2> QED BY <2>1, EmptySeq
<1> QED BY <1>1, <1>2, <1>3, <1>4, StepTable

\* A client that has fetched its roster has every stored entry in every
\* reachable state, however the handlers that edit it interleave and nest, as
\* long as each user has one session at a time: but for its entry for its own
\* node, which lags once it has granted its own request.
THEOREM CopiesInSync == OneAtATime => (Spec => []ClientRosterInSync)
<1> SUFFICES ASSUME OneAtATime PROVE Spec => []ClientRosterInSync
  OBVIOUS
<1> DEFINE I == OneEach /\ InSync(sess, roster)
<1>1. Init => I
  BY EmptySeq DEF Init, OneEach, InSync
<1>2. TypeOK /\ I /\ [Next]_vars => I'
  BY StepOne, StepSync, PresenceAssumption
<1>3. I => ClientRosterInSync
  BY DEF InSync, Matches, ClientRosterInSync, SupersededCopy, HasSession
<1> HIDE DEF I
<1> QED BY <1>1, <1>2, <1>3, TypeCorrect, PTL DEF Spec

-----------------------------------------------------------------------------
(* What a step lets a contact see.                                         *)

\* A table that shows its users no more than the present one.
SameSight(ss) ==
    \A n \in Users : ss[n] # <<>> => sess[n] # <<>> /\ ss[n][1].online = sess[n][1].online

\* After a step that writes ws, a contact sees whom it was just told of, or
\* sees on whom nothing was written about to it.
SightOf(ws) ==
    \A c \in Names : \A j \in SeenBy(c)' :
        \/ \E w \in ws : w.from = j /\ w.to = c /\ w.type = "avail"
        \/ j \in SeenBy(c) /\ \A w \in ws : w.from = j => w.to # c

\* A contact sees full jids.
LEMMA SeenByType ==
    ASSUME TypeOK, NEW c \in Names
    PROVE  SeenBy(c) \subseteq FullJid
<1>1. CASE c \in Remotes
  BY <1>1 DEF SeenBy, TypeOK
<1>2. CASE c \in Users /\ c \notin Remotes /\ sess[c] = <<>>
  BY <1>2 DEF SeenBy
<1>3. CASE c \in Users /\ c \notin Remotes /\ sess[c] # <<>>
  <2>1. sess[c][1] \in Session
    BY <1>3, FirstIsSession DEF TypeOK
  <2> QED BY <1>3, <2>1 DEF SeenBy, Session
<1> QED BY <1>1, <1>2, <1>3 DEF Names

\* A write to everybody shows what it says.
LEMMA WriteSight ==
    ASSUME PresenceAssumption, NEW ss \in [Users -> Seq(Session)], SameSight(ss), NEW ws,
           WriteAll(ss, ws)
    PROVE  SightOf(ws)
<1> SUFFICES ASSUME NEW c \in Names, NEW j \in SeenBy(c)'
             PROVE  \/ \E w \in ws : w.from = j /\ w.to = c /\ w.type = "avail"
                    \/ j \in SeenBy(c) /\ \A w \in ws : w.from = j => w.to # c
  BY DEF SightOf
<1>1. j \in Told(SeenBy(c), ws, c)
  <2>1. CASE c \in Remotes
    BY <2>1 DEF SeenBy, WriteAll
  <2>2. CASE c \in Users
    <3>1. c \notin Remotes
      BY <2>2, PresenceAssumption DEF PresenceAssumption
    <3>2. sess'[c] # <<>> /\ j \in sess'[c][1].online
      BY <3>1 DEF SeenBy
    <3>3. sess' = Deliver(ss, ws)
      BY DEF WriteAll
    <3>4. ss[c] # <<>> /\ Delivered(ss[c][1], sess'[c][1], ws, c)
      BY <2>2, <3>2, <3>3, DeliverView
    <3>5. sess[c] # <<>> /\ ss[c][1].online = sess[c][1].online
      BY <2>2, <3>4 DEF SameSight
    <3> QED BY <3>1, <3>2, <3>4, <3>5 DEF SeenBy, Delivered
  <2> QED BY <2>1, <2>2 DEF Names
<1> QED BY <1>1 DEF Told

\* A step that writes to nobody shows nobody more.
LEMMA QuietSight ==
    ASSUME SameSight(sess'), rsees' = rsees, PresenceAssumption
    PROVE  SightOf({})
<1> SUFFICES ASSUME NEW c \in Names, NEW j \in SeenBy(c)' PROVE j \in SeenBy(c)
  BY DEF SightOf
<1>1. CASE c \in Remotes
  BY <1>1 DEF SeenBy
<1>2. CASE c \in Users
  BY <1>2, PresenceAssumption DEF SeenBy, SameSight, PresenceAssumption
<1> QED BY <1>1, <1>2 DEF Names

\* A push shows nobody more.
LEMMA PushSight ==
    ASSUME NEW ss \in [Users -> Seq(Session)], SameSight(ss), NEW u \in Users, NEW c, NEW e,
           NEW tt, tt = Push(ss, u, c, e)
    PROVE  SameSight(tt)
<1> SUFFICES ASSUME NEW n \in Users, tt[n] # <<>>
             PROVE  sess[n] # <<>> /\ tt[n][1].online = sess[n][1].online
  BY DEF SameSight
<1>1. PushSeen(ss, tt, u, c, e)
  BY PushView
<1>2. ss[n] # <<>> /\ tt[n][1].online = ss[n][1].online
  BY <1>1 DEF PushSeen, Pushed
<1> QED BY <1>2 DEF SameSight

\* So do the pushes of a grant.
LEMMA PushedSight ==
    ASSUME NEW tt, PushedOnly(tt), TypeOK
    PROVE  SameSight(tt)
<1>1. ASSUME NEW ss \in [Users -> Seq(Session)], NEW pp, IsPush(ss, pp), SameSight(ss)
      PROVE  SameSight(pp)
  BY <1>1, PushSight DEF IsPush
<1>2. sess \in [Users -> Seq(Session)] /\ SameSight(sess)
  BY DEF TypeOK, SameSight
<1> QED BY <1>1, <1>2 DEF PushedOnly

\* What the loopback of a grant from c to the local user u writes.
OwnWrites(ros, u, c) ==
    LET v == userSessionJid(sess, u) IN
    IF HasItem(v)
    THEN {w \in ProbeReply(ros, c, v) : w.from # v} \cup {Write(v, c, items[v].type)}
    ELSE {}

\* The writes of a loopback, and whom it counts as told with the grant.
LEMMA OutsideSight ==
    ASSUME PresenceAssumption, NEW ss \in [Users -> Seq(Session)], SameSight(ss),
           NEW ros \in [Users -> [Names -> Entry]], NEW u \in Users, NEW c \in Names,
           OutsideSubscribed(ros, ss, u, c)
    PROVE  /\ SightOf(OwnWrites(roster', u, c))
           /\ roster' = [ros EXCEPT ![u][c] = Accepted(ros[u][c])]
           /\ pushed' = IF OwnWrites(roster', u, c) # {} /\ ~SubFrom(roster'[u][c])
                        THEN pushed \cup {<<u, c>>} ELSE pushed
<1> DEFINE e == Accepted(ros[u][c])
<1>1. roster' = [ros EXCEPT ![u][c] = e]
  BY DEF OutsideSubscribed
<1>2. e \in Entry
  BY DEF Accepted, Entry, Subs
<1>3. roster'[u][c] = e
  BY <1>1
<1>4. WriteAll(ss, OwnWrites(roster', u, c))
  BY <1>1 DEF OutsideSubscribed, OwnWrites
<1>5. pushed' = IF OwnWrites(roster', u, c) # {} /\ ~SubFrom(e) THEN pushed \cup {<<u, c>>} ELSE pushed
  BY <1>1 DEF OutsideSubscribed, OwnWrites
<1>6. SightOf(OwnWrites(roster', u, c))
  BY <1>4, WriteSight
<1> QED BY <1>1, <1>3, <1>5, <1>6

-----------------------------------------------------------------------------
(* Who may see whom.                                                       *)

\* The server holds j's presence for c: as an item, for a subscriber; as
\* directed presence; or handed over with the roster grant.
Known(j, c) ==
    \/ items[j].type = "avail" /\ SubFrom(roster[j[1]][c])
    \/ DirectedLeft(j, c, "avail")
    \/ <<j[1], c>> \in pushed

Held(j, c) == Known(j, c) \/ <<j[1], c>> \in severed

\* Whatever a contact sees is held for it, or its link was cut.
SeenIsHeld == \A c \in Names : \A j \in SeenBy(c) : Held(j, c)

\* A contact is left out of a broadcast only after an error cut its link.
DontSendSevered ==
    \A j \in FullJid : \A from \in items[j].dontsend : <<j[1], from[1]>> \in severed

\* What a contact comes to see in a step is held for it when the step ends.
Learns == \A c \in Names : \A j \in SeenBy(c)' \ SeenBy(c) : Known(j, c)'

\* A step that takes no presence back.
Calm ==
    /\ \A j \in FullJid : items[j].type = "avail" => items'[j].type = "avail"
    /\ dplist' = dplist
    /\ pushed \subseteq pushed'

\* "from" is lost only with the link.
FromStays ==
    /\ \A u \in Users, c \in Names :
           SubFrom(roster[u][c]) => SubFrom(roster'[u][c]) \/ <<u, c>> \in severed'
    /\ severed \subseteq severed'

\* No step takes "from" from an entry without recording the cut.
LEMMA StepFrom ==
    ASSUME TypeOK, AskInv, [Next]_vars
    PROVE  FromStays
<1>1. severed \subseteq severed'
  <2>1. \/ Restart
        \/ \E u \in Users, c \in Names, remove \in BOOLEAN : RosterSet(u, c, remove)
        \/ \E u \in Users, from \in RemoteJid : RemoteError(from, u)
        \/ severed' = severed
    BY DEF Next, vars, Login, SessionGone, ClientBroadcast, ClientDirected, RosterGet,
           ClientSubscribe, ClientSubscribed, RemoteSubscribed, RemoteProbe
  <2> QED BY <2>1 DEF Restart, RosterSet, RemoteError
<1>2. ASSUME NEW u \in Users, NEW c \in Names, SubFrom(roster[u][c])
      PROVE  SubFrom(roster'[u][c]) \/ <<u, c>> \in severed'
  <2>0. roster \in [Users -> [Names -> Entry]] /\ roster[u][c] \in Entry
    BY DEF TypeOK
  <2>1. roster'[u][c] \in Changes(roster[u][c])
    BY RosterStep
  <2>2. ~HasEntry(roster'[u][c]) \/ SubFrom(roster'[u][c])
    <3>1. roster[u][c].ask => roster[u][c].sub \in {"none", "from"}
      BY DEF AskInv
    <3> QED BY <1>2, <2>0, <2>1, <3>1, ChangesKeep
  <2>3. HasEntry(roster[u][c])
    BY <1>2 DEF HasEntry, SubFrom
  <2>4. CASE ~HasEntry(roster'[u][c])
    <3>1. ASSUME NEW x \in Users, NEW y \in Names, NEW remove \in BOOLEAN, RosterSet(x, y, remove)
          PROVE  <<u, c>> \in severed'
      <4> DEFINE e == IF remove THEN NoEntry ELSE Added(roster[x][y])
      <4>1. roster' = [roster EXCEPT ![x][y] = e]
        BY <3>1 DEF RosterSet
      <4>2. x = u /\ y = c
        BY <2>0, <2>3, <2>4, <4>1
      <4>3. roster'[u][c] = e
        BY <2>0, <4>1, <4>2
      <4>4. HasEntry(Added(roster[u][c]))
        BY <2>3 DEF Added
      <4>5. remove
        BY <2>4, <4>2, <4>3, <4>4
      <4> QED BY <2>3, <3>1, <4>2, <4>5 DEF RosterSet
    <3>2. CASE Restart
      BY <2>3, <2>4, <3>2 DEF Restart
    <3>3. ASSUME ~Restart,
                 \A x \in Users, y \in Names, remove \in BOOLEAN : ~RosterSet(x, y, remove)
          PROVE  FALSE
      <4>1. roster'[u][c] # roster[u][c]
        BY <2>3, <2>4
      <4>2. \/ \E x \in Users, y \in Names : ClientSubscribe(x, y) \/ ClientSubscribed(x, y)
            \/ \E x \in Users, y \in Remotes : RemoteSubscribed(y, x)
        BY <3>3, <4>1 DEF Next, vars, Login, SessionGone, ClientBroadcast, ClientDirected,
           RosterGet, RemoteProbe, RemoteError
      <4>3. roster'[u][c] \in {roster[u][c], Asked(roster[u][c]), Granted(roster[u][c]),
                               Accepted(roster[u][c]), Accepted(Granted(roster[u][c]))}
        <5>1. ASSUME NEW x \in Users, NEW y \in Names, ClientSubscribe(x, y)
              PROVE  roster'[u][c] \in {roster[u][c], Asked(roster[u][c])}
          <6>1. roster' = [roster EXCEPT ![x][y] = Asked(roster[x][y])]
            BY <5>1 DEF ClientSubscribe
          <6> QED BY <6>1, <2>0
        <5>2. ASSUME NEW x \in Users, NEW y \in Names, ClientSubscribed(x, y)
              PROVE  roster'[u][c] \in {roster[u][c], Granted(roster[u][c]),
                               Accepted(roster[u][c]), Accepted(Granted(roster[u][c]))}
          <6>1. PICK ros : ros = [roster EXCEPT ![x][y] = Granted(roster[x][y])]
            OBVIOUS
          <6>2. \/ roster' = [ros EXCEPT ![y][x] = Accepted(ros[y][x])]
                \/ roster' = ros
            BY <5>2, <6>1 DEF ClientSubscribed, OutsideSubscribed
          <6>3. ros \in [Users -> [Names -> Entry]]
            BY <6>1, <2>0, EntryGranted
          <6>4. ros[u][c] \in {roster[u][c], Granted(roster[u][c])}
            BY <6>1, <2>0
          <6>5. roster'[u][c] \in {ros[u][c], Accepted(ros[u][c])}
            BY <6>2, <6>3
          <6> QED BY <6>4, <6>5
        <5>3. ASSUME NEW x \in Users, NEW y \in Remotes, RemoteSubscribed(y, x)
              PROVE  roster'[u][c] \in {roster[u][c], Accepted(roster[u][c])}
          <6>1. roster' = [roster EXCEPT ![x][y] = Accepted(roster[x][y])] /\ y \in Names
            BY <5>3 DEF RemoteSubscribed, OutsideSubscribed, Names
          <6> QED BY <6>1, <2>0
        <5> QED BY <4>2, <5>1, <5>2, <5>3
      <4> QED BY <2>0, <2>3, <2>4, <4>3 DEF HasEntry, Asked, Granted, Accepted, Entry, Subs
    <3> QED BY <3>1, <3>2, <3>3
  <2> QED BY <2>2, <2>4
<1> QED BY <1>1, <1>2 DEF FromStays

\* A calm step keeps what is held, and what it writes is held.
LEMMA CalmHeld ==
    ASSUME TypeOK, SeenIsHeld, FromStays, Calm, NEW ws, SightOf(ws),
           \A w \in ws : w.type = "avail" => Known(w.from, w.to)'
    PROVE  Learns /\ SeenIsHeld'
<1>1. Learns
  BY DEF Learns, SightOf
<1>2. ASSUME NEW c \in Names, NEW j \in SeenBy(c)' PROVE Held(j, c)'
  <2>1. CASE j \notin SeenBy(c)
    BY <1>1, <1>2, <2>1 DEF Learns, Held
  <2>2. CASE j \in SeenBy(c)
    <3>1. j \in FullJid /\ j[1] \in Users
      BY <2>2, SeenByType DEF FullJid
    <3>2. Held(j, c)
      BY <2>2 DEF SeenIsHeld
    <3>3. CASE items[j].type = "avail" /\ SubFrom(roster[j[1]][c])
      BY <3>1, <3>3 DEF Calm, FromStays, Held, Known
    <3>4. CASE DirectedLeft(j, c, "avail")
      BY <3>4 DEF Calm, DirectedLeft, Held, Known
    <3>5. CASE <<j[1], c>> \in pushed \cup severed
      BY <3>5 DEF Calm, FromStays, Held, Known
    <3> QED BY <3>2, <3>3, <3>4, <3>5 DEF Held, Known
  <2> QED BY <2>1, <2>2
<1> QED BY <1>1, <1>2 DEF SeenIsHeld

\* The answer to a probe is held for the prober by its directed presence or
\* by the roster that decided.
LEMMA ProbeAvail ==
    ASSUME TypeOK, NEW ros, NEW t \in Names, NEW from, NEW w \in ProbeReply(ros, t, from)
    PROVE  /\ HasSession(t) /\ w.from = userSessionJid(sess, t) /\ w.to = from[1]
           /\ w.from \in FullJid /\ w.from[1] = t
           /\ \/ w.type # "none" /\ DirectedLeft(w.from, w.to, w.type)
              \/ SubFrom(ros[t][w.to]) /\ w.type = StoredPresence(w.from, from)
<1>1. HasSession(t)
  BY DEF ProbeReply
<1> DEFINE v == userSessionJid(sess, t)
<1>2. v \in FullJid /\ v[1] = t
  BY <1>1, JidOfSession DEF HasSession, TypeOK
<1>3. CASE HasDPItem(v, from)
  <2>1. w = Write(v, from[1], dplist[<<v, from>>])
    BY <1>1, <1>3 DEF ProbeReply
  <2>2. from \in DirectedTo /\ dplist[<<v, from>>] # "none"
    BY <1>3 DEF HasDPItem
  <2> HIDE DEF v
  <2>3. w.from = v /\ w.to = from[1] /\ w.type = dplist[<<v, from>>]
    BY <2>1 DEF Write
  <2>4. DirectedLeft(v, from[1], dplist[<<v, from>>])
    BY <2>2 DEF DirectedLeft
  <2> QED BY <1>1, <1>2, <2>2, <2>3, <2>4 DEF v
<1>4. CASE ~HasDPItem(v, from)
  <2>1. /\ w = Write(v, from[1], StoredPresence(v, from))
        /\ SubFrom(ros[t][from[1]])
    BY <1>1, <1>4 DEF ProbeReply
  <2> HIDE DEF v
  <2>2. w.from = v /\ w.to = from[1] /\ w.type = StoredPresence(v, from)
    BY <2>1 DEF Write
  <2> QED BY <1>1, <1>2, <2>1, <2>2 DEF v
<1> QED BY <1>3, <1>4

-----------------------------------------------------------------------------
(* The steps that take presence back.                                      *)

\* A login hides what its user had not yet been told; nobody else is touched.
LEMMA LoginHeld ==
    ASSUME PresenceAssumption, OneAtATime, TypeOK, SeenIsHeld, NEW u \in Users,
           NEW r \in Resources, NEW i, Login(u, r, i)
    PROVE  Learns /\ SeenIsHeld'
<1>1. /\ sess'[u] # <<>> /\ sess'[u][1].online = {}
      /\ \A n \in Users : n # u => sess'[n] = sess[n]
  <2>1. sess'[u] # <<>> /\ sess'[u][1] = NewSession(r)
    BY LoginView
  <2>2. \A n \in Users : n # u => sess'[n] = sess[n]
    BY LoginView
  <2> QED BY <2>1, <2>2 DEF NewSession
<1>2. UNCHANGED <<roster, items, dplist, rsees, severed>>
  BY DEF Login
<1>3. \A p \in pushed : p[2] # u => p \in pushed'
  BY DEF Login
<1>4. \A c \in Names : c # u => SeenBy(c)' = SeenBy(c)
  BY <1>1, <1>2 DEF SeenBy, Names
<1>5. SeenBy(u)' = {}
  BY <1>1, PresenceAssumption DEF SeenBy, PresenceAssumption
<1>6. Learns
  BY <1>4, <1>5 DEF Learns
<1>7. ASSUME NEW c \in Names, NEW j \in SeenBy(c)' PROVE Held(j, c)'
  <2>1. c # u /\ j \in SeenBy(c)
    BY <1>4, <1>5, <1>7
  <2>2. Held(j, c)
    BY <2>1 DEF SeenIsHeld
  <2>3. <<j[1], c>> \in pushed => <<j[1], c>> \in pushed'
    BY <2>1, <1>3
  <2> QED BY <2>2, <2>3, <1>2 DEF Held, Known, DirectedLeft
<1> QED BY <1>6, <1>7 DEF SeenIsHeld

\* What a broadcast of v writes.
LEMMA BroadcastWrite ==
    ASSUME NEW v, NEW t, NEW w \in BroadcastWrites(v, t)
    PROVE  \/ /\ ~HasItem(v)
              /\ \E c \in Names : SubTo(roster[v[1]][c]) /\ w \in ProbeReply(roster, c, v)
           \/ \E c \in Names : /\ w = Write(v, c, t) /\ SubFrom(roster[v[1]][c])
           \/ /\ HasItem(v) /\ t = "unavail"
              /\ \E to \in DirectedTo : HasDPItem(v, to) /\ w = Write(v, to[1], t)
BY DEF BroadcastWrites

\* Available presence shows the user to its subscribers, and the user its
\* contacts when they are probed.
LEMMA AvailableHeld ==
    ASSUME TypeOK, SeenIsHeld, FromStays, NEW u \in Users, HasSession(u),
           NEW v, v = userSessionJid(sess, u), Available(v), UNCHANGED <<roster, pushed>>,
           SightOf(BroadcastWrites(v, "avail"))
    PROVE  Learns /\ SeenIsHeld'
<1>1. v \in FullJid /\ v[1] = u /\ items \in [FullJid -> Item]
  BY JidOfSession DEF HasSession, TypeOK
<1>2. items' = [items EXCEPT ![v].type = "avail"] /\ dplist' = dplist
  BY DEF Available
<1>3. items'[v].type = "avail" /\ \A j \in FullJid : j # v => items'[j] = items[j]
  BY <1>1, <1>2 DEF Item
<1>4. Calm
  BY <1>2, <1>3 DEF Calm
<1>5. ASSUME NEW w \in BroadcastWrites(v, "avail"), w.type = "avail"
      PROVE  Known(w.from, w.to)'
  <2>1. CASE \E c \in Names : w \in ProbeReply(roster, c, v)
    <3>1. PICK c \in Names : w \in ProbeReply(roster, c, v)
      BY <2>1
    <3>2. /\ w.from \in FullJid /\ w.from[1] = c
          /\ \/ DirectedLeft(w.from, w.to, w.type)
             \/ SubFrom(roster[c][w.to]) /\ w.type = StoredPresence(w.from, v)
      BY <3>1, ProbeAvail
    <3>3. CASE DirectedLeft(w.from, w.to, w.type)
      BY <1>2, <1>5, <3>3 DEF DirectedLeft, Known
    <3>4. CASE SubFrom(roster[c][w.to]) /\ w.type = StoredPresence(w.from, v)
      <4>1. items[w.from].type = "avail" \/ w.from = v
        BY <1>5, <3>4 DEF StoredPresence
      <4>2. items'[w.from].type = "avail"
        BY <4>1, <3>2, <1>3, <1>4 DEF Calm
      <4> QED BY <4>2, <3>2, <3>4 DEF Known
    <3> QED BY <3>2, <3>3, <3>4
  <2>2. CASE \E c \in Names : w = Write(v, c, "avail") /\ SubFrom(roster[v[1]][c])
    <3>1. w.from = v /\ SubFrom(roster[v[1]][w.to])
      BY <2>2 DEF Write
    <3> QED BY <3>1, <1>3 DEF Known
  <2> QED BY <2>1, <2>2, BroadcastWrite
<1> QED BY <1>4, <1>5, CalmHeld

\* Unavailable presence takes the user away from everybody it is held for,
\* subscribers and targets of directed presence alike.
LEMMA UnavailableHeld ==
    ASSUME TypeOK, SeenIsHeld, FromStays, DontSendSevered, NEW u \in Users, HasSession(u),
           NEW v, v = userSessionJid(sess, u), Unavailable(sess, v), UNCHANGED <<roster, pushed>>,
           SightOf(BroadcastWrites(v, "unavail"))
    PROVE  Learns /\ SeenIsHeld'
<1> DEFINE ws == BroadcastWrites(v, "unavail")
<1>1. v \in FullJid /\ v[1] = u /\ items \in [FullJid -> Item]
  BY JidOfSession DEF HasSession, TypeOK
<1>2. /\ HasItem(v)
      /\ items' = [items EXCEPT ![v] = NoPresence]
      /\ dplist' = [d \in DOMAIN dplist |-> IF d[1] = v THEN "none" ELSE dplist[d]]
  BY DEF Unavailable
<1>3. \A w \in ws : w.type = "unavail"
  BY <1>2, BroadcastWrite DEF Write
<1>4. \A c \in Names : \A j \in SeenBy(c)' :
          j \in SeenBy(c) /\ \A w \in ws : w.from = j => w.to # c
  BY <1>3 DEF SightOf
<1>5. Learns
  BY <1>4 DEF Learns
<1>6. ASSUME NEW c \in Names, NEW j \in SeenBy(c)' PROVE Held(j, c)'
  <2>1. j \in SeenBy(c) /\ j \in FullJid /\ j[1] \in Users /\ Held(j, c)
    BY <1>4, <1>6, SeenByType DEF FullJid, SeenIsHeld
  <2>2. CASE <<j[1], c>> \in pushed \cup severed
    BY <2>2 DEF Held, Known, FromStays
  <2>3. CASE j # v
    <3>1. items'[j] = items[j]
      BY <1>1, <1>2, <2>1, <2>3
    <3>2. \A to \in DirectedTo : dplist'[<<j, to>>] = dplist[<<j, to>>]
      BY <1>2, <2>1, <2>3 DEF TypeOK
    <3>3. CASE items[j].type = "avail" /\ SubFrom(roster[j[1]][c])
      BY <3>1, <3>3 DEF Held, Known
    <3>4. CASE DirectedLeft(j, c, "avail")
      <4>1. PICK to \in DirectedTo : to[1] = c /\ dplist[<<j, to>>] = "avail"
        BY <3>4 DEF DirectedLeft
      <4>2. dplist'[<<j, to>>] = "avail"
        BY <3>2, <4>1
      <4>3. DirectedLeft(j, c, "avail")'
        BY <4>1, <4>2 DEF DirectedLeft
      <4> QED BY <4>3 DEF Held, Known
    <3> QED BY <2>1, <2>2, <3>3, <3>4 DEF Held, Known
  <2>4. CASE j = v /\ items[v].type = "avail" /\ SubFrom(roster[u][c])
    <3>1. CASE Bare(c) \in items[v].dontsend
      <4>1. <<v[1], Bare(c)[1]>> \in severed
        BY <1>1, <3>1 DEF DontSendSevered
      <4> QED BY <4>1, <2>2, <2>4 DEF Bare
    <3>2. CASE Bare(c) \notin items[v].dontsend
      <4>1. Write(v, c, "unavail") \in ws
        BY <1>1, <2>4, <3>2 DEF BroadcastWrites
      <4>2. Write(v, c, "unavail").from = v /\ Write(v, c, "unavail").to = c
        BY DEF Write
      <4> QED BY <1>4, <1>6, <2>4, <4>1, <4>2
    <3> QED BY <3>1, <3>2
  <2>5. CASE j = v /\ DirectedLeft(v, c, "avail")
    <3>1. PICK to \in DirectedTo : to[1] = c /\ dplist[<<v, to>>] = "avail"
      BY <2>5 DEF DirectedLeft
    <3>2. HasDPItem(v, to)
      BY <3>1 DEF HasDPItem
    <3>3. Write(v, to[1], "unavail") \in ws
      BY <1>2, <3>2, <3>1 DEF BroadcastWrites
    <3>4. Write(v, to[1], "unavail").from = v /\ Write(v, to[1], "unavail").to = c
      BY <3>1 DEF Write
    <3> QED BY <1>4, <1>6, <2>5, <3>3, <3>4
  <2> QED BY <1>1, <2>1, <2>2, <2>3, <2>4, <2>5 DEF Held, Known
<1> QED BY <1>5, <1>6 DEF SeenIsHeld

\* Directed presence is written from the jid it is recorded for.
LEMMA DirectedHeld ==
    ASSUME PresenceAssumption, TypeOK, OneEach, SeenIsHeld, FromStays, NEW u \in Users,
           NEW i \in 1 .. MaxSessions, NEW to \in DirectedTo,
           NEW t \in {"avail", "unavail"}, ClientDirected(u, i, to, t)
    PROVE  Learns /\ SeenIsHeld'
<1>1. sess \in [Users -> Seq(Session)] /\ i \in 1 .. Len(sess[u]) /\ Len(sess[u]) <= 1
  BY DEF ClientDirected, TypeOK, OneEach
<1>2. i = 1 /\ sess[u] # <<>>
  BY <1>1, EmptySeq, LenProperties
<1>3. PICK v : v = userSessionJid(sess, u)
  OBVIOUS
<1>4. v \in FullJid
  BY <1>1, <1>2, <1>3, JidOfSession
<1>5. PICK w : w = Write(v, to[1], t)
  OBVIOUS
<1>6. w.from = v /\ w.to = to[1] /\ w.type = t
  BY <1>5 DEF Write
<1>7. WriteAll(sess, {w})
  BY <1>2, <1>3, <1>5 DEF ClientDirected, userSessionJid
<1>8. SightOf({w})
  <2>1. SameSight(sess)
    BY DEF SameSight
  <2> QED BY <1>1, <1>7, <2>1, WriteSight
<1>9. /\ dplist' = [dplist EXCEPT ![<<v, to>>] = t]
      /\ UNCHANGED <<roster, items, pushed, severed>>
  BY <1>3 DEF ClientDirected
<1>10. /\ dplist'[<<v, to>>] = t
       /\ \A d \in FullJid \X DirectedTo : d # <<v, to>> => dplist'[d] = dplist[d]
  BY <1>4, <1>9 DEF TypeOK
<1>11. ASSUME NEW c \in Names, NEW j \in SeenBy(c)'
       PROVE  Held(j, c)' /\ (j \notin SeenBy(c) => Known(j, c)')
  <2>1. CASE j = v /\ c = to[1]
    <3>1. t = "avail"
      BY <1>6, <1>8, <2>1, <1>11 DEF SightOf
    <3>2. DirectedLeft(v, to[1], "avail")'
      BY <1>10, <3>1 DEF DirectedLeft
    <3> QED BY <2>1, <3>2 DEF Held, Known
  <2>2. CASE ~(j = v /\ c = to[1])
    <3>1. j \in SeenBy(c)
      BY <1>6, <1>8, <2>2, <1>11 DEF SightOf
    <3>2. Held(j, c) /\ j \in FullJid
      BY <3>1, SeenByType DEF SeenIsHeld
    <3>3. CASE DirectedLeft(j, c, "avail")
      <4>1. PICK x \in DirectedTo : x[1] = c /\ dplist[<<j, x>>] = "avail"
        BY <3>3 DEF DirectedLeft
      <4>2. <<j, x>> # <<v, to>>
        BY <2>2, <4>1
      <4>3. dplist'[<<j, x>>] = "avail"
        BY <1>10, <3>2, <4>1, <4>2
      <4>4. DirectedLeft(j, c, "avail")'
        BY <4>1, <4>3 DEF DirectedLeft
      <4> QED BY <3>1, <4>4 DEF Held, Known
    <3>4. CASE ~DirectedLeft(j, c, "avail")
      BY <1>9, <3>1, <3>2, <3>4 DEF Held, Known
    <3> QED BY <3>3, <3>4
  <2> QED BY <2>1, <2>2
<1> QED BY <1>11 DEF SeenIsHeld, Learns

-----------------------------------------------------------------------------
(* The steps that grant, and all the others.                               *)

\* The loopback of a grant to the local user u from c writes what it has just
\* saved, or counts the contact as told with the grant.
LEMMA OwnAvail ==
    ASSUME TypeOK, NEW ros, NEW u \in Users, NEW c \in Names, HasSession(u),
           UNCHANGED <<items, dplist>>, roster' = ros,
           pushed' = IF OwnWrites(ros, u, c) # {} /\ ~SubFrom(ros[u][c])
                     THEN pushed \cup {<<u, c>>} ELSE pushed,
           NEW w \in OwnWrites(ros, u, c), w.type = "avail"
    PROVE  Known(w.from, w.to)'
<1>1. PICK v : v = userSessionJid(sess, u)
  OBVIOUS
<1>2. v \in FullJid /\ v[1] = u /\ u \in Names
  BY <1>1, JidOfSession DEF HasSession, TypeOK, Names
<1>3. \/ w \in ProbeReply(ros, c, v) /\ w.from # v
      \/ w = Write(v, c, items[v].type)
  BY <1>1 DEF OwnWrites
<1>4. CASE w \in ProbeReply(ros, c, v) /\ w.from # v
  <2>1. /\ w.from[1] = c
        /\ \/ DirectedLeft(w.from, w.to, w.type)
           \/ SubFrom(ros[c][w.to]) /\ w.type = StoredPresence(w.from, v)
    BY <1>4, ProbeAvail
  <2> QED BY <1>4, <2>1 DEF Known, DirectedLeft, StoredPresence
<1>5. CASE w = Write(v, c, items[v].type)
  <2>1. w.from = v /\ w.to = c /\ w.type = items[v].type
    BY <1>5 DEF Write
  <2>2. SubFrom(ros[u][c]) \/ <<u, c>> \in pushed'
    OBVIOUS
  <2> QED BY <1>2, <2>1, <2>2 DEF Known
<1> QED BY <1>3, <1>4, <1>5

\* The loopback shows no more than that.
LEMMA OutsideHeld ==
    ASSUME PresenceAssumption, TypeOK, SeenIsHeld, FromStays, NEW ss \in [Users -> Seq(Session)],
           SameSight(ss), NEW ros \in [Users -> [Names -> Entry]], NEW u \in Users,
           NEW c \in Names, HasSession(u), OutsideSubscribed(ros, ss, u, c),
           UNCHANGED <<items, dplist>>
    PROVE  Learns /\ SeenIsHeld'
<1>1. PICK new, ws : new = roster' /\ ws = OwnWrites(new, u, c)
  OBVIOUS
<1>2. /\ SightOf(ws)
      /\ pushed' = IF ws # {} /\ ~SubFrom(new[u][c]) THEN pushed \cup {<<u, c>>} ELSE pushed
  BY <1>1, OutsideSight
<1>3. \A w \in ws : w.type = "avail" => Known(w.from, w.to)'
  BY <1>1, <1>2, OwnAvail
<1>4. Calm
  BY <1>2 DEF Calm
<1> QED BY <1>2, <1>3, <1>4, CalmHeld

\* A step that writes to nobody and takes nothing back.
LEMMA QuietHeld ==
    ASSUME PresenceAssumption, TypeOK, SeenIsHeld, FromStays, SameSight(sess'),
           UNCHANGED <<items, dplist, rsees, pushed>>
    PROVE  Learns /\ SeenIsHeld'
<1>1. SightOf({})
  BY QuietSight
<1>2. Calm
  BY DEF Calm
<1>3. \A w \in {} : w.type = "avail" => Known(w.from, w.to)'
  OBVIOUS
<1> QED BY <1>1, <1>2, <1>3, CalmHeld

\* So does one that writes the empty set.
LEMMA EmptyHeld ==
    ASSUME PresenceAssumption, TypeOK, SeenIsHeld, FromStays, Calm,
           NEW ss \in [Users -> Seq(Session)], SameSight(ss), WriteAll(ss, {})
    PROVE  Learns /\ SeenIsHeld'
<1>1. SightOf({})
  BY WriteSight
<1>2. \A w \in {} : w.type = "avail" => Known(w.from, w.to)'
  OBVIOUS
<1> QED BY <1>1, <1>2, CalmHeld

\* Every step shows a contact only what is held for it, and keeps holding
\* what the contact goes on seeing.
LEMMA StepHeld ==
    ASSUME PresenceAssumption, OneAtATime, TypeOK, AskInv, OneEach, DontSendSevered,
           SeenIsHeld, [Next]_vars
    PROVE  Learns /\ SeenIsHeld'
<1> DEFINE Goal == Learns /\ SeenIsHeld'
<1>0. /\ sess \in [Users -> Seq(Session)]
      /\ roster \in [Users -> [Names -> Entry]]
      /\ SameSight(sess) /\ FromStays
  BY StepFrom DEF TypeOK, SameSight
<1>1. CASE UNCHANGED vars
  <2>1. SameSight(sess')
    BY <1>1 DEF vars, SameSight
  <2> QED BY <1>0, <1>1, <2>1, QuietHeld DEF vars
<1>2. ASSUME NEW u \in Users, NEW r \in Resources, NEW i \in 1 .. MaxSessions, Login(u, r, i)
      PROVE  Goal
  BY <1>2, LoginHeld
<1>3. ASSUME NEW u \in Users, NEW i \in 1 .. MaxSessions, SessionGone(u, i)
      PROVE  Goal
  <2>1. PICK ss : ss = [sess EXCEPT ![u] = <<>>]
    OBVIOUS
  <2>2. WriteAll(ss, {}) /\ UNCHANGED <<items, dplist, pushed>>
    BY <1>3, <2>1, GoneView
  <2>3. ss \in [Users -> Seq(Session)] /\ SameSight(ss)
    BY <1>0, <2>1 DEF SameSight
  <2>4. Calm
    BY <2>2 DEF Calm
  <2> QED BY <1>0, <2>2, <2>3, <2>4, EmptyHeld
<1>4. ASSUME NEW u \in Users, NEW t \in {"avail", "unavail"}, ClientBroadcast(u, t)
      PROVE  Goal
  <2>1. PICK v : v = userSessionJid(sess, u)
    OBVIOUS
  <2>2. HasSession(u) /\ sess[u] # <<>> /\ UNCHANGED <<roster, pushed>>
    BY <1>4 DEF ClientBroadcast, HasSession
  <2>3. v \in FullJid /\ v[1] = u
    BY <1>0, <2>1, <2>2, JidOfSession
  <2>4. CASE WriteAll(sess, {}) /\ InitialUnavailable(sess, v)
    <3>1. Calm
      <4>1. items[v].type = "none" /\ \A j \in FullJid : j # v => items'[j] = items[j]
        BY <2>3, <2>4 DEF InitialUnavailable, HasItem, TypeOK
      <4> QED BY <2>2, <2>4, <4>1 DEF Calm, InitialUnavailable
    <3> QED BY <1>0, <2>4, <3>1, EmptyHeld
  <2>5. CASE ~(WriteAll(sess, {}) /\ InitialUnavailable(sess, v))
    <3>1. PICK w \in Said :
              /\ WriteAll(Saying(sess, u, w), BroadcastWrites(v, t))
              /\ \/ t = "avail" /\ Available(v)
                 \/ t = "unavail" /\ Unavailable(sess, v)
      BY <1>4, <2>1, <2>5, BroadcastView
    <3>2. PICK tt : tt = Saying(sess, u, w)
      OBVIOUS
    <3>3. /\ tt \in [Users -> Seq(Session)]
          /\ \A n \in Users : n # u => tt[n] = sess[n]
          /\ tt[u] # <<>> /\ tt[u][1].online = sess[u][1].online
      <4>1. HasSaid(sess, u, w, tt)
        BY <1>0, <2>2, <3>2, SaidView
      <4> QED BY <4>1 DEF HasSaid
    <3>4. SameSight(tt)
      BY <2>2, <3>3 DEF SameSight
    <3>5. SightOf(BroadcastWrites(v, t))
      BY <3>1, <3>2, <3>3, <3>4, WriteSight
    <3>6. CASE t = "avail" /\ Available(v)
      BY <1>0, <2>1, <2>2, <3>5, <3>6, AvailableHeld
    <3>7. CASE t = "unavail" /\ Unavailable(sess, v)
      BY <1>0, <2>1, <2>2, <3>5, <3>7, UnavailableHeld
    <3> QED BY <3>1, <3>6, <3>7
  <2> QED BY <2>4, <2>5
<1>5. ASSUME NEW u \in Users, NEW i \in 1 .. MaxSessions, NEW to \in DirectedTo,
             NEW t \in {"avail", "unavail"}, ClientDirected(u, i, to, t)
      PROVE  Goal
  BY <1>0, <1>5, DirectedHeld
<1>6. ASSUME NEW u \in Users, RosterGet(u)
      PROVE  Goal
  <2>1. /\ sess' = [sess EXCEPT ![u][1].copy = roster[u]] /\ sess[u] # <<>>
        /\ UNCHANGED <<items, dplist, rsees, pushed>>
    BY <1>6 DEF RosterGet, HasSession
  <2> DEFINE s == sess[u]
             d == s[1]
             f == [d EXCEPT !.copy = roster[u]]
  <2>2. s \in Seq(Session) /\ s # <<>> /\ d \in Session
    BY <1>0, <2>1, FirstIsSession
  <2>3. f.online = d.online
    BY <2>2 DEF Session
  <2>4. sess'[u] = [s EXCEPT ![1] = f] /\ \A n \in Users : n # u => sess'[n] = sess[n]
    BY <1>0, <2>1
  <2>5. 1 \in 1 .. Len(s)
    BY <2>2, EmptySeq, LenProperties
  <2> HIDE DEF s, d, f
  <2>6. sess'[u][1] = f
    <3>1. ASSUME NEW q, q = [s EXCEPT ![1] = f] PROVE q[1] = f
      BY ONLY <3>1, <2>2, <2>5
    <3> QED BY <2>4, <3>1
  <2>7. SameSight(sess')
    BY <2>1, <2>3, <2>4, <2>6 DEF SameSight, s, d
  <2> QED BY <1>0, <2>1, <2>7, QuietHeld
<1>7. ASSUME NEW u \in Users, NEW c \in Names, NEW remove \in BOOLEAN, RosterSet(u, c, remove)
      PROVE  Goal
  <2>1. /\ \E e : sess' = Push(sess, u, c, e)
        /\ UNCHANGED <<items, dplist, rsees, pushed>>
    BY <1>7 DEF RosterSet
  <2>2. SameSight(sess')
    BY <1>0, <2>1, PushSight
  <2> QED BY <1>0, <2>1, <2>2, QuietHeld
<1>8. ASSUME NEW u \in Users, NEW c \in Names, ClientSubscribe(u, c)
      PROVE  Goal
  <2>1. /\ sess' = sess \/ \E e : sess' = Push(sess, u, c, e)
        /\ UNCHANGED <<items, dplist, rsees, pushed>>
    BY <1>8 DEF ClientSubscribe
  <2>2. SameSight(sess')
    BY <1>0, <2>1, PushSight
  <2> QED BY <1>0, <2>1, <2>2, QuietHeld
<1>9. ASSUME NEW u \in Users, NEW c \in Names, ClientSubscribed(u, c)
      PROVE  Goal
  <2>1. PICK ros, tt : GrantMade(u, c, ros, tt)
    BY <1>9, GrantTables
  <2>2. PushedOnly(tt) /\ tt \in [Users -> Seq(Session)] /\ ros \in [Users -> [Names -> Entry]]
    BY <2>1 DEF GrantMade, PushedOnly
  <2>3. SameSight(tt)
    BY <2>2, PushedSight
  <2>4. CASE OutsideAccepts(ros, c, u)
    <3>1. HasSession(c) /\ c \in Users /\ u \in Names
      BY <2>4 DEF OutsideAccepts, HasSession, Names
    <3>2. OutsideSubscribed(ros, tt, c, u) /\ UNCHANGED <<items, dplist>>
      BY <2>1, <2>4 DEF GrantMade
    <3> QED BY <1>0, <2>2, <2>3, <3>1, <3>2, OutsideHeld
  <2>5. CASE ~OutsideAccepts(ros, c, u)
    <3>1. sess' = tt /\ UNCHANGED <<items, dplist, rsees, pushed>>
      BY <2>1, <2>5 DEF GrantMade
    <3> QED BY <1>0, <2>3, <3>1, QuietHeld
  <2> QED BY <2>4, <2>5
<1>10. ASSUME NEW u \in Users, NEW c \in Remotes, RemoteSubscribed(c, u)
       PROVE  Goal
  <2>1. c \in Names /\ HasSession(u) /\ UNCHANGED <<items, dplist>>
    BY <1>10, RemoteTables
  <2>2. PICK tt : PushedOnly(tt) /\ OutsideSubscribed(roster, tt, u, c)
    BY <1>10, RemoteTables
  <2>3. tt \in [Users -> Seq(Session)] /\ SameSight(tt)
    BY <2>2, PushedSight DEF PushedOnly
  <2> QED BY <1>0, <2>1, <2>2, <2>3, OutsideHeld
<1>11. ASSUME NEW u \in Users, NEW from \in RemoteJid, RemoteProbe(from, u)
       PROVE  Goal
  <2>1. /\ WriteAll(sess, ProbeReply(roster, u, from))
        /\ UNCHANGED <<roster, items, dplist, pushed>>
    BY <1>11 DEF RemoteProbe
  <2>2. SightOf(ProbeReply(roster, u, from))
    BY <1>0, <2>1, WriteSight
  <2>3. Calm
    BY <2>1 DEF Calm
  <2>4. ASSUME NEW w \in ProbeReply(roster, u, from), w.type = "avail"
        PROVE  Known(w.from, w.to)'
    <3>1. u \in Names
      BY DEF Names
    <3>2. /\ w.from[1] = u
          /\ \/ DirectedLeft(w.from, w.to, w.type)
             \/ SubFrom(roster[u][w.to]) /\ w.type = StoredPresence(w.from, from)
      BY <2>4, <3>1, ProbeAvail
    <3>3. w.from # from
      BY <3>2, PresenceAssumption DEF PresenceAssumption, RemoteJid
    <3> QED BY <2>1, <2>4, <3>2, <3>3 DEF Known, DirectedLeft, StoredPresence
  <2> QED BY <1>0, <2>2, <2>3, <2>4, CalmHeld
<1>12. ASSUME NEW u \in Users, NEW from \in RemoteJid, RemoteError(from, u)
       PROVE  Goal
  <2>1. PICK v : v = userSessionJid(sess, u)
    OBVIOUS
  <2>2. /\ HasSession(u) /\ items' = [items EXCEPT ![v].dontsend = @ \cup {from}]
        /\ UNCHANGED <<sess, dplist, rsees, pushed>>
    BY <1>12, <2>1 DEF RemoteError
  <2>3. v \in FullJid
    BY <1>0, <2>1, <2>2, JidOfSession DEF HasSession
  <2>4. \A j \in FullJid : items'[j].type = items[j].type
    BY <2>2, <2>3 DEF TypeOK, Item
  <2>5. Calm
    BY <2>2, <2>4 DEF Calm
  <2>6. SightOf({})
    <3>1. SameSight(sess')
      BY <2>2 DEF SameSight
    <3> QED BY <2>2, <3>1, QuietSight
  <2>7. \A w \in {} : w.type = "avail" => Known(w.from, w.to)'
    OBVIOUS
  <2> QED BY <1>0, <2>5, <2>6, <2>7, CalmHeld
<1>13. CASE Restart
  <2>1. \A c \in Names : c \in Remotes \/ SeenBy(c)' = {}
    BY <1>13 DEF Restart, SeenBy, Names
  <2>2. \A c \in Remotes : SeenBy(c)' = SeenBy(c)
    BY <1>13 DEF Restart, SeenBy
  <2>3. Users \X Remotes \subseteq severed'
    BY <1>13 DEF Restart
  <2>4. ASSUME NEW c \in Names, NEW j \in SeenBy(c)'
        PROVE  j \in SeenBy(c) /\ Held(j, c)'
    <3>1. c \in Remotes /\ j \in SeenBy(c)
      BY <2>1, <2>2, <2>4
    <3>2. j[1] \in Users
      BY <3>1, SeenByType DEF FullJid
    <3> QED BY <2>3, <3>1, <3>2 DEF Held
  <2> QED BY <2>4 DEF Learns, SeenIsHeld
<1> QED BY <1>1, <1>2, <1>3, <1>4, <1>5, <1>6, <1>7, <1>8, <1>9, <1>10, <1>11, <1>12, <1>13 DEF Next

\* Who is left out of a user's broadcasts is recorded as cut, and stays so.
LEMMA StepDontSend ==
    ASSUME TypeOK, AskInv, DontSendSevered, [Next]_vars
    PROVE  DontSendSevered'
<1> SUFFICES ASSUME NEW j \in FullJid, NEW x \in items'[j].dontsend
             PROVE  <<j[1], x[1]>> \in severed'
  BY DEF DontSendSevered
<1>0. severed \subseteq severed' /\ items \in [FullJid -> Item]
  BY StepFrom DEF FromStays, TypeOK
<1>1. CASE x \in items[j].dontsend
  BY <1>0, <1>1 DEF DontSendSevered
<1>2. CASE x \notin items[j].dontsend
  <2>1. ASSUME NEW u \in Users, NEW from \in RemoteJid, RemoteError(from, u)
        PROVE  <<j[1], x[1]>> \in severed'
    <3>1. PICK v : v = userSessionJid(sess, u)
      OBVIOUS
    <3>2. HasSession(u) /\ items' = [items EXCEPT ![v].dontsend = @ \cup {from}]
      BY <2>1, <3>1 DEF RemoteError
    <3>3. v \in FullJid /\ v[1] = u
      BY <3>1, <3>2, JidOfSession DEF HasSession, TypeOK
    <3>4. j = v /\ x = from
      BY <1>0, <1>2, <3>2, <3>3 DEF Item
    <3> QED BY <2>1, <3>3, <3>4 DEF RemoteError
  <2>2. ASSUME NEW u \in Users, NEW ss \in [Users -> Seq(Session)], ss[u] # <<>>,
               NEW v, v = userSessionJid(ss, u),
               InitialUnavailable(ss, v) \/ Unavailable(ss, v) \/ Available(v)
        PROVE  FALSE
    <3>1. v \in FullJid
      BY <2>2, JidOfSession
    <3>2. \/ \E t \in {"avail", "unavail"} : items' = [items EXCEPT ![v].type = t]
          \/ items' = [items EXCEPT ![v] = NoPresence]
      BY <2>2 DEF InitialUnavailable, Unavailable, Available
    <3>3. NoPresence.dontsend = {}
      BY DEF NoPresence
    <3>4. items'[j].dontsend \in {items[j].dontsend, {}}
      <4>1. CASE items' = [items EXCEPT ![v] = NoPresence]
        BY <1>0, <3>1, <3>3, <4>1
      <4>2. ASSUME NEW t, items' = [items EXCEPT ![v].type = t]
            PROVE  items'[j].dontsend = items[j].dontsend
        BY <1>0, <3>1, <4>2 DEF Item
      <4> QED BY <3>2, <4>1, <4>2
    <3> QED BY <1>2, <3>4
  <2>3. ASSUME NEW u \in Users, NEW t \in {"avail", "unavail"}, ClientBroadcast(u, t)
        PROVE  FALSE
    BY <2>2, <2>3 DEF ClientBroadcast, HasSession, TypeOK
  <2>4. ASSUME NEW u \in Users, NEW i \in 1 .. MaxSessions, SessionGone(u, i)
        PROVE  FALSE
    <3>1. PICK ss : ss = [sess EXCEPT ![u] = RemoveAt(sess[u], i)]
      OBVIOUS
    <3>2. RemoveAt(sess[u], i) \in Seq(Session)
      <4>1. sess[u] \in Seq(Session) /\ i \in 1 .. Len(sess[u])
        BY <2>4 DEF SessionGone, TypeOK
      <4> QED BY <4>1, RemoveAtType
    <3>3. ss \in [Users -> Seq(Session)]
      BY <3>1, <3>2 DEF TypeOK
    <3>4. \/ items' = items
          \/ /\ ss[u] # <<>>
             /\ \/ InitialUnavailable(ss, userSessionJid(ss, u))
                \/ Unavailable(ss, userSessionJid(ss, u))
      BY <2>4, <3>1 DEF SessionGone
    <3> QED BY <1>2, <2>2, <3>3, <3>4
  <2>5. CASE Restart
    BY <1>2, <2>5 DEF Restart, NoPresence
  <2>6. items' # items
    BY <1>2
  <2> QED BY <2>1, <2>3, <2>4, <2>5, <2>6 DEF Next, vars, Login, ClientDirected, RosterGet,
          RosterSet, ClientSubscribe, ClientSubscribed, RemoteSubscribed, RemoteProbe
<1> QED BY <1>1, <1>2

-----------------------------------------------------------------------------
(* Ghosts and leaks.                                                       *)

\* The inductive invariant behind both.
LInv == OneEach /\ DontSendSevered /\ SeenIsHeld

\* It holds in every reachable state.
LEMMA LightInvariant == OneAtATime => (Spec => []LInv)
<1> SUFFICES ASSUME OneAtATime PROVE Spec => []LInv
  OBVIOUS
<1>1. Init => LInv
  <2>1. Init => OneEach
    BY EmptySeq DEF Init, OneEach
  <2>2. Init => DontSendSevered
    BY DEF Init, DontSendSevered, NoPresence
  <2>3. Init => SeenIsHeld
    BY DEF Init, SeenIsHeld, SeenBy, Names
  <2> QED BY <2>1, <2>2, <2>3 DEF LInv
<1>2. TypeOK /\ AskInv /\ LInv /\ [Next]_vars => LInv'
  BY StepOne, StepDontSend, StepHeld, PresenceAssumption DEF LInv
<1> QED BY <1>1, <1>2, TypeCorrect, AskOutstanding, PTL DEF Spec

\* No contact goes on seeing a user whose presence the server has forgotten,
\* in any reachable state of a server whose users have one session at a time:
\* what it has told is an item or a directed presence it will withdraw, was
\* handed over with the roster grant, or its link was cut.
THEOREM GhostsAreHeld == OneAtATime => (Spec => []NoGhost)
<1> SUFFICES ASSUME OneAtATime PROVE Spec => []NoGhost
  OBVIOUS
<1>1. LInv => NoGhost
  BY DEF LInv, SeenIsHeld, Held, Known, NoGhost
<1> QED BY <1>1, LightInvariant, PTL

\* No step, whatever probes and loopbacks it sets off, shows a user to a
\* contact that neither the user's roster, nor directed presence, nor the
\* roster grant lets see it.
THEOREM AuthorisedLearn == OneAtATime => (Spec => OnlyAuthorisedLearn)
<1> SUFFICES ASSUME OneAtATime PROVE Spec => OnlyAuthorisedLearn
  OBVIOUS
<1> DEFINE A == \A c \in Names : \A j \in SeenBy(c)' \ SeenBy(c) :
                  \/ SubFrom(roster'[j[1]][c])
                  \/ DirectedLeft(j, c, "avail")'
                  \/ <<j[1], c>> \in pushed'
<1>1. TypeOK /\ AskInv /\ LInv /\ [Next]_vars => [A]_vars
  <2>1. Learns => A
    BY DEF Learns, Known
  <2> QED BY <2>1, StepHeld, PresenceAssumption DEF LInv
<1> HIDE DEF A
<1>2. Spec => [][A]_vars
  BY <1>1, LightInvariant, TypeCorrect, AskOutstanding, PTL DEF Spec
<1> QED BY <1>2 DEF A, OnlyAuthorisedLearn

-----------------------------------------------------------------------------
(* What subscribers see: the facts the argument needs.                     *)

\* A local user's "to" was granted by the contact's own roster, until the
\* contact deletes the entry.
ToWasGranted ==
    \A u, c \in Users : SubTo(roster[c][u]) => SubFrom(roster[u][c]) \/ <<u, c>> \in severed

\* The session that has announced itself is the one in the presence list.
SaidIsAvail ==
    \A u \in Users : HasSession(u) /\ sess[u][1].said # "no"
                     => items[userSessionJid(sess, u)].type = "avail"

\* A table with the same first sessions, who have said the same.
SameWords(ss, tt) ==
    \A n \in Users : tt[n] # <<>> => /\ ss[n] # <<>>
                                     /\ tt[n][1].res = ss[n][1].res
                                     /\ tt[n][1].said = ss[n][1].said

\* The relation is transitive.
LEMMA SameWordsTrans ==
    ASSUME NEW ss, NEW tt, NEW pp, SameWords(ss, tt), SameWords(tt, pp)
    PROVE  SameWords(ss, pp)
BY DEF SameWords

\* A write changes nobody's words.
LEMMA DeliverWords ==
    ASSUME NEW ss \in [Users -> Seq(Session)], NEW ws, NEW tt, tt = Deliver(ss, ws)
    PROVE  SameWords(ss, tt)
<1> SUFFICES ASSUME NEW n \in Users, tt[n] # <<>>
             PROVE  /\ ss[n] # <<>>
                    /\ tt[n][1].res = ss[n][1].res
                    /\ tt[n][1].said = ss[n][1].said
  BY DEF SameWords
<1> QED BY DeliverView DEF Delivered

\* Nor does a roster push.
LEMMA PushWords ==
    ASSUME NEW ss \in [Users -> Seq(Session)], NEW u \in Users, NEW c, NEW e,
           NEW tt, tt = Push(ss, u, c, e)
    PROVE  SameWords(ss, tt)
<1> SUFFICES ASSUME NEW n \in Users, tt[n] # <<>>
             PROVE  /\ ss[n] # <<>>
                    /\ tt[n][1].res = ss[n][1].res
                    /\ tt[n][1].said = ss[n][1].said
  BY DEF SameWords
<1>1. PushSeen(ss, tt, u, c, e)
  BY PushView
<1> QED BY <1>1 DEF PushSeen, Pushed

\* Nor the pushes of a grant.
LEMMA PushedWords ==
    ASSUME NEW tt, PushedOnly(tt), TypeOK
    PROVE  SameWords(sess, tt)
<1>1. ASSUME NEW ss \in [Users -> Seq(Session)], NEW pp, IsPush(ss, pp)
      PROVE  SameWords(ss, pp)
  BY <1>1, PushWords DEF IsPush
<1>2. sess \in [Users -> Seq(Session)]
  BY DEF TypeOK
<1>3. CASE IsPush(sess, tt)
  BY <1>1, <1>2, <1>3
<1>4. ASSUME NEW mm \in [Users -> Seq(Session)], IsPush(sess, mm), IsPush(mm, tt)
      PROVE  SameWords(sess, tt)
  <2>1. SameWords(sess, mm) /\ SameWords(mm, tt)
    BY <1>1, <1>2, <1>4
  <2> QED BY <2>1, SameWordsTrans
<1> QED BY <1>3, <1>4 DEF PushedOnly

\* Nor the loopback of a grant.
LEMMA OutsideWords ==
    ASSUME NEW ss \in [Users -> Seq(Session)], NEW ros, NEW u, NEW c,
           OutsideSubscribed(ros, ss, u, c)
    PROVE  SameWords(ss, sess')
<1>1. \E ws : sess' = Deliver(ss, ws)
  BY DEF OutsideSubscribed, WriteAll
<1> QED BY <1>1, DeliverWords

\* The steps that are neither a login, a broadcast, the end of a stream nor a
\* restart change nobody's words and no item's type.
WordsKept ==
    /\ SameWords(sess, sess')
    /\ \A j \in FullJid : items'[j].type = items[j].type

\* The other steps keep them.
LEMMA StepWords ==
    ASSUME PresenceAssumption, TypeOK, [Next]_vars
    PROVE  \/ WordsKept
           \/ \E u \in Users, r \in Resources, i \in 1 .. MaxSessions : Login(u, r, i)
           \/ \E u \in Users, i \in 1 .. MaxSessions : SessionGone(u, i)
           \/ \E u \in Users, t \in {"avail", "unavail"} : ClientBroadcast(u, t)
           \/ Restart
<1> DEFINE Goal == WordsKept
<1>0. /\ sess \in [Users -> Seq(Session)]
      /\ roster \in [Users -> [Names -> Entry]]
      /\ SameWords(sess, sess)
  BY DEF TypeOK, SameWords
<1>1. CASE UNCHANGED vars
  BY <1>0, <1>1 DEF vars, WordsKept
<1>5. ASSUME NEW u \in Users, NEW i \in 1 .. MaxSessions, NEW to \in DirectedTo,
             NEW t \in {"avail", "unavail"}, ClientDirected(u, i, to, t)
      PROVE  Goal
  <2>1. items' = items /\ \E ws : sess' = Deliver(sess, ws)
    BY <1>5 DEF ClientDirected, WriteAll
  <2> QED BY <2>1, <1>0, DeliverWords DEF WordsKept
<1>6. ASSUME NEW u \in Users, RosterGet(u)
      PROVE  Goal
  <2>1. sess' = [sess EXCEPT ![u][1].copy = roster[u]] /\ sess[u] # <<>> /\ items' = items
    BY <1>6 DEF RosterGet, HasSession
  <2> DEFINE s == sess[u]
             d == s[1]
             f == [d EXCEPT !.copy = roster[u]]
  <2>2. s \in Seq(Session) /\ s # <<>> /\ d \in Session
    BY <2>1, <1>0, FirstIsSession
  <2>3. f.res = d.res /\ f.said = d.said
    BY <2>2 DEF Session
  <2>4. sess'[u] = [s EXCEPT ![1] = f]
    BY <2>1, <1>0
  <2>5. 1 \in 1 .. Len(s)
    BY <2>2, EmptySeq, LenProperties
  <2>6. \A n \in Users : n # u => sess'[n] = sess[n]
    BY <2>1, <1>0
  <2> HIDE DEF s, d, f
  <2>7. sess'[u][1] = f
    <3>1. ASSUME NEW q, q = [s EXCEPT ![1] = f] PROVE q[1] = f
      BY ONLY <3>1, <2>2, <2>5
    <3> QED BY <2>4, <3>1
  <2>8. SameWords(sess, sess')
    BY <2>1, <2>3, <2>6, <2>7 DEF SameWords, s, d
  <2> QED BY <2>1, <2>8 DEF WordsKept
<1>7. ASSUME NEW u \in Users, NEW c \in Names, NEW remove \in BOOLEAN, RosterSet(u, c, remove)
      PROVE  Goal
  <2>1. items' = items /\ \E e : sess' = Push(sess, u, c, e)
    BY <1>7 DEF RosterSet
  <2> QED BY <2>1, <1>0, PushWords DEF WordsKept
<1>8. ASSUME NEW u \in Users, NEW c \in Names, ClientSubscribe(u, c)
      PROVE  Goal
  <2>1. items' = items /\ (sess' = sess \/ \E e : sess' = Push(sess, u, c, e))
    BY <1>8 DEF ClientSubscribe
  <2> QED BY <2>1, <1>0, PushWords DEF WordsKept
<1>9. ASSUME NEW u \in Users, NEW c \in Names, ClientSubscribed(u, c)
      PROVE  Goal
  <2>1. PICK ros, tt : GrantMade(u, c, ros, tt)
    BY <1>9, GrantTables
  <2>2. PushedOnly(tt) /\ tt \in [Users -> Seq(Session)] /\ items' = items
    BY <2>1 DEF GrantMade, PushedOnly
  <2>3. OutsideSubscribed(ros, tt, c, u) \/ sess' = tt
    BY <2>1 DEF GrantMade
  <2>4. SameWords(sess, tt)
    BY <2>2, PushedWords
  <2>5. SameWords(tt, sess') \/ sess' = tt
    BY <2>2, <2>3, OutsideWords
  <2>6. SameWords(sess, sess')
    BY <2>4, <2>5, SameWordsTrans
  <2> QED BY <2>2, <2>6 DEF WordsKept
<1>10. ASSUME NEW u \in Users, NEW c \in Remotes, RemoteSubscribed(c, u)
       PROVE  Goal
  <2>1. items' = items
    BY <1>10, RemoteTables
  <2>2. PICK tt : PushedOnly(tt) /\ OutsideSubscribed(roster, tt, u, c)
    BY <1>10, RemoteTables
  <2>3. tt \in [Users -> Seq(Session)] /\ SameWords(sess, tt)
    BY <2>2, PushedWords DEF PushedOnly
  <2>4. SameWords(tt, sess')
    BY <2>2, <2>3, OutsideWords
  <2>5. SameWords(sess, sess')
    BY <2>3, <2>4, SameWordsTrans
  <2> QED BY <2>1, <2>5 DEF WordsKept
<1>11. ASSUME NEW u \in Users, NEW from \in RemoteJid, RemoteProbe(from, u)
       PROVE  Goal
  <2>1. items' = items /\ \E ws : sess' = Deliver(sess, ws)
    BY <1>11 DEF RemoteProbe, WriteAll
  <2> QED BY <2>1, <1>0, DeliverWords DEF WordsKept
<1>12. ASSUME NEW u \in Users, NEW from \in RemoteJid, RemoteError(from, u)
       PROVE  Goal
  <2>1. PICK v : v = userSessionJid(sess, u)
    OBVIOUS
  <2>2. HasSession(u) /\ items' = [items EXCEPT ![v].dontsend = @ \cup {from}] /\ sess' = sess
    BY <1>12, <2>1 DEF RemoteError
  <2>3. v \in FullJid
    BY <1>0, <2>1, <2>2, JidOfSession DEF HasSession
  <2>4. \A j \in FullJid : items'[j].type = items[j].type
    BY <2>2, <2>3 DEF TypeOK, Item
  <2> QED BY <1>0, <2>2, <2>4 DEF WordsKept
<1> QED BY <1>1, <1>5, <1>6, <1>7, <1>8, <1>9, <1>10, <1>11, <1>12 DEF Next

\* A grant that the contact's roster does not know of is never made.
LEMMA StepToWasGranted ==
    ASSUME PresenceAssumption, TypeOK, AskInv, ToWasGranted, [Next]_vars
    PROVE  ToWasGranted'
<1> SUFFICES ASSUME NEW u \in Users, NEW c \in Users, SubTo(roster'[c][u])
             PROVE  SubFrom(roster'[u][c]) \/ <<u, c>> \in severed'
  BY DEF ToWasGranted
<1>1. FromStays /\ c \in Names
  BY StepFrom DEF Names
<1>2. CASE SubTo(roster[c][u])
  BY <1>1, <1>2 DEF ToWasGranted, FromStays
<1>3. CASE ~SubTo(roster[c][u])
  BY <1>3, StepGrant
<1> QED BY <1>2, <1>3

\* A broadcast leaves the others' words and items alone.
LEMMA BroadcastWords ==
    ASSUME TypeOK, NEW x \in Users, NEW t \in {"avail", "unavail"}, ClientBroadcast(x, t)
    PROVE  /\ \A n \in Users : n # x /\ sess'[n] # <<>> =>
                 /\ sess[n] # <<>>
                 /\ sess'[n][1].res = sess[n][1].res
                 /\ sess'[n][1].said = sess[n][1].said
           /\ \A j \in FullJid : j[1] # x => items'[j] = items[j]
           /\ sess[x] # <<>> /\ sess'[x][1].res = sess[x][1].res
<1>0. sess \in [Users -> Seq(Session)] /\ sess[x] # <<>> /\ items \in [FullJid -> Item]
  BY DEF TypeOK, ClientBroadcast, HasSession
<1>1. PICK v : v = userSessionJid(sess, x)
  OBVIOUS
<1>2. v \in FullJid /\ v[1] = x
  BY <1>0, <1>1, JidOfSession
<1>3. \A j \in FullJid : j[1] # x => items'[j] = items[j]
  <2>1. \/ \E e : items' = [items EXCEPT ![v].type = e]
        \/ items' = [items EXCEPT ![v] = NoPresence]
    BY <1>1 DEF ClientBroadcast, InitialUnavailable, Available, Unavailable
  <2> QED BY <1>0, <1>2, <2>1
<1>4. PICK tt, ws :
          /\ tt \in [Users -> Seq(Session)] /\ sess' = Deliver(tt, ws)
          /\ \A n \in Users : n # x => tt[n] = sess[n]
          /\ tt[x] # <<>> /\ tt[x][1].res = sess[x][1].res
  <2>1. CASE WriteAll(sess, {})
    BY <1>0, <2>1 DEF WriteAll
  <2>2. CASE ~WriteAll(sess, {})
    <3>1. PICK w \in Said : WriteAll(Saying(sess, x, w), BroadcastWrites(v, t))
      BY <1>1, <2>2, BroadcastView
    <3>2. PICK tt : tt = Saying(sess, x, w)
      OBVIOUS
    <3>3. /\ tt \in [Users -> Seq(Session)]
          /\ \A n \in Users : n # x => tt[n] = sess[n]
          /\ tt[x] # <<>> /\ tt[x][1].res = sess[x][1].res
      <4>1. HasSaid(sess, x, w, tt)
        BY <1>0, <3>2, SaidView
      <4> QED BY <4>1 DEF HasSaid
    <3> QED BY <3>1, <3>2, <3>3 DEF WriteAll
  <2> QED BY <2>1, <2>2
<1>5. \A n \in Users : tt[n] # <<>> => Delivered(tt[n][1], sess'[n][1], ws, n)
  BY <1>4, DeliverView
<1>6. \A n \in Users : tt[n] = <<>> => sess'[n] = <<>>
  BY <1>4, DeliverView
<1> QED BY <1>0, <1>3, <1>4, <1>5, <1>6 DEF Delivered

\* The session that has announced itself stays in the presence list until it
\* withdraws.
LEMMA StepSaid ==
    ASSUME PresenceAssumption, OneAtATime, TypeOK, OneEach, SaidIsAvail, [Next]_vars
    PROVE  SaidIsAvail'
<1> SUFFICES ASSUME NEW n \in Users, sess'[n] # <<>>, sess'[n][1].said # "no"
             PROVE  items'[<<n, sess'[n][1].res>>].type = "avail"
  BY DEF SaidIsAvail, HasSession, userSessionJid
<1>0. /\ sess \in [Users -> Seq(Session)] /\ items \in [FullJid -> Item]
      /\ sess[n] # <<>> => <<n, sess[n][1].res>> \in FullJid
  BY JidOfSession DEF TypeOK, userSessionJid
<1>1. sess[n] # <<>> /\ sess[n][1].said # "no" => items[<<n, sess[n][1].res>>].type = "avail"
  BY DEF SaidIsAvail, HasSession, userSessionJid
<1>2. CASE WordsKept
  BY <1>0, <1>1, <1>2 DEF WordsKept, SameWords
<1>3. ASSUME NEW u \in Users, NEW r \in Resources, NEW i \in 1 .. MaxSessions, Login(u, r, i)
      PROVE  items'[<<n, sess'[n][1].res>>].type = "avail"
  <2>1. sess'[u][1] = NewSession(r)
    BY <1>3, LoginView
  <2>2. \A m \in Users : m # u => sess'[m] = sess[m]
    BY <1>3, LoginView
  <2>3. n # u /\ sess'[n] = sess[n]
    BY <2>1, <2>2 DEF NewSession
  <2>4. items' = items
    BY <1>3 DEF Login
  <2> QED BY <1>1, <2>3, <2>4
<1>4. ASSUME NEW u \in Users, NEW i \in 1 .. MaxSessions, SessionGone(u, i)
      PROVE  items'[<<n, sess'[n][1].res>>].type = "avail"
  <2>1. PICK ss : ss = [sess EXCEPT ![u] = <<>>]
    OBVIOUS
  <2>2. sess' = Deliver(ss, {}) /\ items' = items /\ ss \in [Users -> Seq(Session)]
    <3>1. WriteAll([sess EXCEPT ![u] = <<>>], {}) /\ items' = items
      BY <1>4, GoneView
    <3> QED BY <1>0, <2>1, <3>1 DEF WriteAll
  <2>3. SameWords(ss, sess')
    BY <2>2, DeliverWords
  <2>4. ss[n] # <<>> /\ sess'[n][1].res = ss[n][1].res /\ sess'[n][1].said = ss[n][1].said
    BY <2>3 DEF SameWords
  <2>5. ss[n] = sess[n]
    BY <1>0, <2>1, <2>4
  <2> QED BY <1>1, <2>2, <2>4, <2>5
<1>5. ASSUME NEW x \in Users, NEW t \in {"avail", "unavail"}, ClientBroadcast(x, t)
      PROVE  items'[<<n, sess'[n][1].res>>].type = "avail"
  <2>1. CASE n # x
    <3>1. /\ sess[n] # <<>> /\ sess'[n][1].res = sess[n][1].res
          /\ sess'[n][1].said = sess[n][1].said
      BY <1>5, <2>1, BroadcastWords
    <3>2. \A j \in FullJid : j[1] # x => items'[j] = items[j]
      BY <1>5, BroadcastWords
    <3>3. <<n, sess[n][1].res>>[1] # x
      BY <2>1
    <3> QED BY <1>0, <1>1, <3>1, <3>2, <3>3
  <2>2. CASE n = x
    <3>1. sess[n] # <<>> /\ sess'[n][1].res = sess[n][1].res
      BY <1>5, <2>2, BroadcastWords
    <3>2. PICK v : v = userSessionJid(sess, n)
      OBVIOUS
    <3>3. v \in FullJid /\ v = <<n, sess[n][1].res>>
      BY <1>0, <3>1, <3>2 DEF userSessionJid
    <3>4. CASE WriteAll(sess, {}) /\ InitialUnavailable(sess, v)
      <4>1. SameWords(sess, sess')
        BY <1>0, <3>4, DeliverWords DEF WriteAll
      <4>2. items[v].type = "none" /\ sess[n][1].said # "no"
        BY <3>4, <4>1 DEF InitialUnavailable, HasItem, SameWords
      <4> QED BY <1>1, <3>1, <3>3, <4>2
    <3>5. CASE ~(WriteAll(sess, {}) /\ InitialUnavailable(sess, v))
      <4>1. PICK w \in Said : /\ WriteAll(Saying(sess, x, w), BroadcastWrites(v, t))
                              /\ Available(v) \/ w = "no"
        BY <1>5, <2>2, <3>2, <3>5, BroadcastView
      <4>2. PICK tt : tt = Saying(sess, x, w)
        OBVIOUS
      <4>3. tt \in [Users -> Seq(Session)] /\ tt[x] # <<>> /\ tt[x][1].said = w
        <5>1. HasSaid(sess, x, w, tt)
          BY <1>0, <2>2, <3>1, <4>2, SaidView
        <5> QED BY <5>1 DEF HasSaid
      <4>4. SameWords(tt, sess')
        BY <4>1, <4>2, <4>3, DeliverWords DEF WriteAll
      <4>5. w # "no"
        BY <2>2, <4>3, <4>4 DEF SameWords
      <4>6. Available(v)
        BY <4>1, <4>5
      <4>7. items'[v].type = "avail"
        BY <1>0, <3>3, <4>6 DEF Available, Item
      <4> QED BY <3>1, <3>3, <4>7
    <3> QED BY <3>4, <3>5
  <2> QED BY <2>1, <2>2
<1>6. CASE Restart
  BY <1>6 DEF Restart
<1> QED BY <1>2, <1>3, <1>4, <1>5, <1>6, StepWords

-----------------------------------------------------------------------------
(* What subscribers see: the argument.                                     *)

\* SubscribersSeePresence for one pair: what binds the server, and to what.
Announced(u) == HasSession(u) /\ sess[u][1].said # "no"
Probed(c) == HasSession(c) /\ sess[c][1].said = "initial"
Linked(u, c) == SubFrom(roster[u][c]) /\ SubTo(roster[c][u]) /\ <<u, c>> \notin severed
Withdrawn(u, c) == DirectedLeft(userSessionJid(sess, u), c, "unavail")
Bound(u, c) == Announced(u) /\ Probed(c) /\ Linked(u, c) /\ ~Withdrawn(u, c)
Shown(u, c) == userSessionJid(sess, u) \in SeenBy(c)

\* The property, pair by pair.
LEMMA SeePairs == SubscribersSeePresence <=> \A u, c \in Users : Bound(u, c) => Shown(u, c)
BY DEF SubscribersSeePresence, Bound, Announced, Probed, Linked, Withdrawn, Shown

\* After a step that writes ws, a client that is still there sees whom it has
\* just been told of, and goes on seeing on whom nothing was written to it.
Shows(ws) ==
    \A c \in Users : sess'[c] # <<>> =>
        \A j : (\/ \E w \in ws : w.from = j /\ w.to = c /\ w.type = "avail"
                \/ j \in SeenBy(c) /\ \A w \in ws : w.from = j => w.to # c)
               => j \in SeenBy(c)'

\* A write to everybody shows all it says.
LEMMA WriteShows ==
    ASSUME PresenceAssumption, NEW ss \in [Users -> Seq(Session)], SameSight(ss), NEW ws,
           WriteAll(ss, ws)
    PROVE  Shows(ws)
<1> SUFFICES ASSUME NEW c \in Users, sess'[c] # <<>>, NEW j,
                    \/ \E w \in ws : w.from = j /\ w.to = c /\ w.type = "avail"
                    \/ j \in SeenBy(c) /\ \A w \in ws : w.from = j => w.to # c
             PROVE  j \in SeenBy(c)'
  BY DEF Shows
<1>1. c \notin Remotes /\ sess' = Deliver(ss, ws)
  BY PresenceAssumption DEF PresenceAssumption, WriteAll
<1>2. ss[c] # <<>> /\ Delivered(ss[c][1], sess'[c][1], ws, c)
  BY <1>1, DeliverView
<1>3. sess[c] # <<>> /\ ss[c][1].online = sess[c][1].online
  BY <1>2 DEF SameSight
<1>4. sess'[c][1].online = Told(SeenBy(c), ws, c)
  BY <1>1, <1>2, <1>3 DEF Delivered, SeenBy
<1>5. j \in Told(SeenBy(c), ws, c)
  BY DEF Told
<1> QED BY <1>1, <1>4, <1>5 DEF SeenBy

\* A step that writes to nobody hides nobody.
LEMMA QuietShows ==
    ASSUME SameSight(sess'), PresenceAssumption
    PROVE  Shows({})
BY PresenceAssumption DEF Shows, SeenBy, SameSight, PresenceAssumption

\* A pair that the step does not write about stays as it was.
LEMMA KeepSees ==
    ASSUME SubscribersSeePresence, ToWasGranted, severed \subseteq severed',
           NEW u \in Users, NEW c \in Users, NEW ws, Shows(ws),
           \A n \in {u, c} : sess'[n] # <<>> => /\ sess[n] # <<>>
                                                /\ sess'[n][1].res = sess[n][1].res
                                                /\ sess'[n][1].said = sess[n][1].said,
           NEW v, v = userSessionJid(sess, u), \A w \in ws : w.from = v => w.to # c,
           SubTo(roster'[c][u]) => SubTo(roster[c][u]),
           DirectedLeft(v, c, "unavail") => DirectedLeft(v, c, "unavail")',
           Bound(u, c)'
    PROVE  Shown(u, c)'
<1>1. sess'[u] # <<>> /\ sess'[u][1].said # "no"
  BY DEF Bound, Announced, HasSession
<1>2. sess'[c] # <<>> /\ sess'[c][1].said = "initial"
  BY DEF Bound, Probed, HasSession
<1>3. Announced(u) /\ Probed(c)
  BY <1>1, <1>2 DEF Announced, Probed, HasSession
<1>4. userSessionJid(sess', u) = v
  BY <1>1 DEF userSessionJid
<1>5. ~Withdrawn(u, c)
  BY <1>4 DEF Bound, Withdrawn, DirectedLeft
<1>6. Linked(u, c)
  BY DEF Bound, Linked, ToWasGranted
<1>7. Shown(u, c)
  BY <1>3, <1>5, <1>6, SeePairs DEF Bound
<1>8. v \in SeenBy(c)'
  BY <1>2, <1>7 DEF Shown, Shows
<1> QED BY <1>4, <1>8 DEF Shown

\* The answer to a probe goes to the prober, from the probed user.
LEMMA ProbeAddress ==
    ASSUME NEW ros, NEW t, NEW from, NEW w \in ProbeReply(ros, t, from)
    PROVE  w.from[1] = t /\ w.to = from[1]
BY DEF ProbeReply, Write, userSessionJid

\* The answer to the probe of a subscriber says available, for a user whose
\* presence is held and was not withdrawn from the prober.
LEMMA ProbeShows ==
    ASSUME TypeOK, NEW u \in Users, HasSession(u), NEW ros, NEW from,
           items[userSessionJid(sess, u)].type = "avail",
           SubFrom(ros[u][from[1]]), ~Withdrawn(u, from[1])
    PROVE  \E w \in ProbeReply(ros, u, from) :
               w.from = userSessionJid(sess, u) /\ w.to = from[1] /\ w.type = "avail"
<1>1. PICK v : v = userSessionJid(sess, u)
  OBVIOUS
<1>2. v \in FullJid
  BY <1>1, JidOfSession DEF HasSession, TypeOK
<1>3. CASE HasDPItem(v, from)
  <2>1. from \in DirectedTo /\ dplist[<<v, from>>] # "none"
    BY <1>3 DEF HasDPItem
  <2>2. dplist[<<v, from>>] # "unavail"
    BY <1>1, <2>1 DEF Withdrawn, DirectedLeft
  <2>3. dplist[<<v, from>>] = "avail"
    BY <1>2, <2>1, <2>2 DEF TypeOK
  <2>4. Write(v, from[1], "avail") \in ProbeReply(ros, u, from)
    BY <1>1, <1>3, <2>3 DEF ProbeReply
  <2> QED BY <1>1, <2>4 DEF Write
<1>4. CASE ~HasDPItem(v, from)
  <2>1. HasItem(v) /\ items[v].type = "avail"
    BY <1>1 DEF HasItem
  <2>2. Write(v, from[1], "avail") \in ProbeReply(ros, u, from)
    BY <1>1, <1>4, <2>1 DEF ProbeReply, StoredPresence
  <2> QED BY <1>1, <2>2 DEF Write
<1> QED BY <1>3, <1>4

\* A broadcast shows its sender to the subscribers, shows the contacts to a
\* sender that probes, and touches no other pair.
LEMMA BroadcastSees ==
    ASSUME PresenceAssumption, TypeOK, SubscribersSeePresence, ToWasGranted,
           SaidIsAvail, NEW x \in Users, NEW t \in {"avail", "unavail"}, ClientBroadcast(x, t),
           NEW u \in Users, NEW c \in Users, Bound(u, c)'
    PROVE  Shown(u, c)'
<1>0. /\ sess \in [Users -> Seq(Session)] /\ items \in [FullJid -> Item]
      /\ UNCHANGED <<roster, severed>> /\ sess[x] # <<>> /\ HasSession(x)
  BY DEF TypeOK, ClientBroadcast, HasSession
<1>1. /\ \A n \in Users : n # x /\ sess'[n] # <<>> =>
             /\ sess[n] # <<>>
             /\ sess'[n][1].res = sess[n][1].res
             /\ sess'[n][1].said = sess[n][1].said
      /\ sess'[x][1].res = sess[x][1].res
  BY BroadcastWords
<1>2. PICK v : v = userSessionJid(sess, x)
  OBVIOUS
<1>3. v \in FullJid /\ v[1] = x
  BY <1>0, <1>2, JidOfSession
<1>4. /\ sess'[u] # <<>> /\ sess'[u][1].said # "no"
      /\ sess'[c] # <<>> /\ sess'[c][1].said = "initial"
      /\ SubFrom(roster[u][c]) /\ SubTo(roster[c][u])
  BY <1>0 DEF Bound, Announced, Probed, Linked, HasSession
<1>6. PICK a : a = userSessionJid(sess, u)
  OBVIOUS
<1>7. sess[u] # <<>> /\ a \in FullJid /\ a[1] = u /\ userSessionJid(sess', u) = a
  <2>1. sess[u] # <<>> /\ sess'[u][1].res = sess[u][1].res
    BY <1>0, <1>1, <1>4
  <2>2. userSessionJid(sess', u) = a
    BY <1>6, <2>1 DEF userSessionJid
  <2> QED BY <1>0, <1>6, <2>1, <2>2, JidOfSession
<1>8. ~DirectedLeft(a, c, "unavail")'
  BY <1>7 DEF Bound, Withdrawn, DirectedLeft
<1>9. SameSight(sess)
  BY DEF SameSight
<1>10. CASE WriteAll(sess, {}) /\ InitialUnavailable(sess, v)
  <2>1. Shows({})
    BY <1>0, <1>9, <1>10, WriteShows
  <2>2. \A n \in {u, c} : sess'[n] # <<>> => /\ sess[n] # <<>>
                                             /\ sess'[n][1].res = sess[n][1].res
                                             /\ sess'[n][1].said = sess[n][1].said
    <3>1. SameWords(sess, sess')
      BY <1>0, <1>10, DeliverWords DEF WriteAll
    <3> QED BY <3>1 DEF SameWords
  <2>3. DirectedLeft(a, c, "unavail") => DirectedLeft(a, c, "unavail")'
    BY <1>10 DEF InitialUnavailable, DirectedLeft
  <2> QED BY <1>0, <1>6, <2>1, <2>2, <2>3, KeepSees
<1>11. CASE ~(WriteAll(sess, {}) /\ InitialUnavailable(sess, v))
  <2>1. PICK w \in Said :
            /\ WriteAll(Saying(sess, x, w), BroadcastWrites(v, t))
            /\ \/ t = "avail" /\ w = SaidAvail(v, sess[x][1].said) /\ Available(v)
               \/ t = "unavail" /\ w = "no" /\ Unavailable(sess, v)
    BY <1>2, <1>11, BroadcastView
  <2>2. PICK tt : tt = Saying(sess, x, w)
    OBVIOUS
  <2>3. /\ tt \in [Users -> Seq(Session)]
        /\ \A n \in Users : n # x => tt[n] = sess[n]
        /\ tt[x] # <<>> /\ tt[x][1].online = sess[x][1].online /\ tt[x][1].said = w
    <3>1. HasSaid(sess, x, w, tt)
      BY <1>0, <2>2, SaidView
    <3> QED BY <3>1 DEF HasSaid
  <2>4. SameSight(tt)
    BY <1>0, <2>3 DEF SameSight
  <2>5. PICK ws : ws = BroadcastWrites(v, t)
    OBVIOUS
  <2>6. Shows(ws)
    BY <2>1, <2>2, <2>3, <2>4, <2>5, WriteShows
  <2>7. sess'[x] # <<>> => sess'[x][1].said = w
    <3>1. SameWords(tt, sess')
      BY <2>1, <2>2, <2>3, DeliverWords DEF WriteAll
    <3> QED BY <2>3, <3>1 DEF SameWords
  <2>8. \A y \in ws : y.from = a => y.to # c \/ (u = x) \/ (c = x /\ ~HasItem(v))
    <3> SUFFICES ASSUME NEW y \in ws, y.from = a, u # x, c # x \/ HasItem(v)
                 PROVE  y.to # c
      OBVIOUS
    <3>1. CASE ~HasItem(v) /\ \E n \in Names : y \in ProbeReply(roster, n, v)
      <4>1. y.to = v[1]
        BY <3>1, ProbeAddress
      <4> QED BY <1>3, <3>1, <4>1
    <3>2. CASE \E n : y = Write(v, n, t)
      <4>1. y.from = v
        BY <3>2 DEF Write
      <4> QED BY <1>3, <1>7, <4>1
    <3> QED BY <2>5, <3>1, <3>2, BroadcastWrite
  <2>9. CASE u # x /\ (c # x \/ (HasItem(v) /\ sess[c][1].said = "initial"))
    <3>1. \A n \in {u, c} : sess'[n] # <<>> => /\ sess[n] # <<>>
                                               /\ sess'[n][1].res = sess[n][1].res
                                               /\ sess'[n][1].said = sess[n][1].said
      BY <1>0, <1>1, <1>4, <2>9
    <3>2. DirectedLeft(a, c, "unavail") => DirectedLeft(a, c, "unavail")'
      <4>1. \A to \in DirectedTo : dplist'[<<a, to>>] = dplist[<<a, to>>]
        BY <1>3, <1>7, <2>1, <2>9 DEF Available, Unavailable, TypeOK
      <4> QED BY <4>1 DEF DirectedLeft
    <3>3. \A y \in ws : y.from = a => y.to # c
      BY <2>8, <2>9
    <3> QED BY <1>0, <1>6, <2>6, <3>1, <3>2, <3>3, KeepSees
  <2>10. CASE u = x
    <3>1. t = "avail"
      BY <1>4, <2>1, <2>7, <2>10
    <3>2. Bare(c) \notin items[v].dontsend
      BY <1>0, <1>3, PresenceAssumption DEF Bare, Item, RemoteJid, PresenceAssumption
    <3>3. Write(v, c, "avail") \in ws
      BY <1>3, <1>4, <2>5, <2>10, <3>1, <3>2 DEF BroadcastWrites, Names
    <3>4. v \in SeenBy(c)'
      BY <1>4, <2>6, <3>3 DEF Shows, Write
    <3> QED BY <1>2, <1>6, <1>7, <2>10, <3>4 DEF Shown
  <2>11. CASE u # x /\ c = x /\ ~(HasItem(v) /\ sess[c][1].said = "initial")
    <3>1. t = "avail" /\ w = SaidAvail(v, sess[x][1].said) /\ Available(v) /\ w = "initial"
      BY <1>4, <2>1, <2>7, <2>11
    <3>2. ~HasItem(v)
      BY <2>11, <3>1 DEF SaidAvail
    <3>3. HasSession(u) /\ items[a].type = "avail"
      <4>1. sess[u] # <<>> /\ sess[u][1].said # "no"
        BY <1>1, <1>4, <2>11
      <4> QED BY <1>6, <4>1 DEF SaidIsAvail, HasSession
    <3>4. ~Withdrawn(u, v[1])
      BY <1>3, <1>6, <1>8, <2>11, <3>1 DEF Withdrawn, DirectedLeft, Available
    <3>5. \E y \in ProbeReply(roster, u, v) : y.from = a /\ y.to = v[1] /\ y.type = "avail"
      BY <1>3, <1>4, <1>6, <2>11, <3>3, <3>4, ProbeShows
    <3>6. ProbeReply(roster, u, v) \subseteq ws
      BY <1>3, <1>4, <2>5, <2>11, <3>2 DEF BroadcastWrites, Names
    <3>7. a \in SeenBy(c)'
      BY <1>3, <1>4, <2>6, <2>11, <3>5, <3>6 DEF Shows
    <3> QED BY <1>7, <3>7 DEF Shown
  <2> QED BY <2>9, <2>10, <2>11
<1> QED BY <1>10, <1>11

\* Directed presence is shown to the client it is addressed to, and to no other.
LEMMA DirectedSees ==
    ASSUME PresenceAssumption, TypeOK, OneEach, SubscribersSeePresence, ToWasGranted,
           NEW x \in Users, NEW i \in 1 .. MaxSessions, NEW to \in DirectedTo,
           NEW t \in {"avail", "unavail"}, ClientDirected(x, i, to, t),
           NEW u \in Users, NEW c \in Users, Bound(u, c)'
    PROVE  Shown(u, c)'
<1>1. sess \in [Users -> Seq(Session)] /\ i \in 1 .. Len(sess[x]) /\ Len(sess[x]) <= 1
  BY DEF ClientDirected, TypeOK, OneEach
<1>2. i = 1 /\ sess[x] # <<>>
  BY <1>1, EmptySeq, LenProperties
<1>3. PICK v : v = userSessionJid(sess, x)
  OBVIOUS
<1>4. v \in FullJid /\ v[1] = x
  BY <1>1, <1>2, <1>3, JidOfSession
<1>5. PICK w : w = Write(v, to[1], t)
  OBVIOUS
<1>6. w.from = v /\ w.to = to[1] /\ w.type = t
  BY <1>5 DEF Write
<1>7. WriteAll(sess, {w})
  BY <1>2, <1>3, <1>5 DEF ClientDirected, userSessionJid
<1>8. Shows({w})
  <2>1. SameSight(sess)
    BY DEF SameSight
  <2> QED BY <1>1, <1>7, <2>1, WriteShows
<1>9. SameWords(sess, sess')
  BY <1>1, <1>7, DeliverWords DEF WriteAll
<1>10. /\ dplist' = [dplist EXCEPT ![<<v, to>>] = t]
       /\ UNCHANGED <<roster, severed>>
  BY <1>3 DEF ClientDirected
<1>11. sess'[u] # <<>> /\ sess'[c] # <<>>
  BY DEF Bound, Announced, Probed, HasSession
<1>12. PICK a : a = userSessionJid(sess, u)
  OBVIOUS
<1>13. a \in FullJid /\ a[1] = u /\ userSessionJid(sess', u) = a
  <2>1. sess[u] # <<>> /\ sess'[u][1].res = sess[u][1].res
    BY <1>9, <1>11 DEF SameWords
  <2>2. userSessionJid(sess', u) = a
    BY <1>12, <2>1 DEF userSessionJid
  <2> QED BY <1>1, <1>12, <2>1, <2>2, JidOfSession
<1>14. CASE u = x /\ c = to[1]
  <2>1. dplist'[<<v, to>>] = t
    BY <1>4, <1>10 DEF TypeOK
  <2>2. t # "unavail"
    BY <1>3, <1>12, <1>13, <1>14, <2>1 DEF Bound, Withdrawn, DirectedLeft
  <2>3. a \in SeenBy(c)'
    BY <1>3, <1>6, <1>8, <1>11, <1>12, <1>14, <2>2 DEF Shows
  <2> QED BY <1>13, <2>3 DEF Shown
<1>15. CASE ~(u = x /\ c = to[1])
  <2>1. \A y \in {w} : y.from = a => y.to # c
    BY <1>4, <1>6, <1>13, <1>15
  <2>2. DirectedLeft(a, c, "unavail") => DirectedLeft(a, c, "unavail")'
    <3>1. ASSUME NEW d \in DirectedTo, d[1] = c PROVE dplist'[<<a, d>>] = dplist[<<a, d>>]
      <4>1. <<a, d>> # <<v, to>>
        BY <1>4, <1>13, <1>15, <3>1
      <4> QED BY <1>10, <1>13, <4>1 DEF TypeOK
    <3> QED BY <3>1 DEF DirectedLeft
  <2>3. \A n \in {u, c} : sess'[n] # <<>> => /\ sess[n] # <<>>
                                             /\ sess'[n][1].res = sess[n][1].res
                                             /\ sess'[n][1].said = sess[n][1].said
    BY <1>9 DEF SameWords
  <2> QED BY <1>8, <1>10, <1>12, <2>1, <2>2, <2>3, KeepSees
<1> QED BY <1>14, <1>15

\* A step that writes to no local client, changes nobody's words and grants
\* no local user anything keeps the pairs.
LEMMA QuietSees ==
    ASSUME SubscribersSeePresence, ToWasGranted, severed \subseteq severed',
           dplist' = dplist, SameWords(sess, sess'), NEW u \in Users, NEW c \in Users,
           NEW ws, Shows(ws), \A w \in ws : w.to # c,
           SubTo(roster'[c][u]) => SubTo(roster[c][u]), Bound(u, c)'
    PROVE  Shown(u, c)'
<1>1. PICK v : v = userSessionJid(sess, u)
  OBVIOUS
<1>2. \A w \in ws : w.from = v => w.to # c
  OBVIOUS
<1>3. DirectedLeft(v, c, "unavail") => DirectedLeft(v, c, "unavail")'
  BY DEF DirectedLeft
<1>4. \A n \in {u, c} : sess'[n] # <<>> => /\ sess[n] # <<>>
                                           /\ sess'[n][1].res = sess[n][1].res
                                           /\ sess'[n][1].said = sess[n][1].said
  BY DEF SameWords
<1> QED BY <1>1, <1>2, <1>3, <1>4, KeepSees

\* The loopback of a grant shows.
LEMMA OutsideShows ==
    ASSUME PresenceAssumption, NEW ss \in [Users -> Seq(Session)], SameSight(ss),
           NEW ros \in [Users -> [Names -> Entry]], NEW u \in Users, NEW c \in Names,
           OutsideSubscribed(ros, ss, u, c)
    PROVE  Shows(OwnWrites(roster', u, c))
<1>1. WriteAll(ss, OwnWrites(roster', u, c))
  BY DEF OutsideSubscribed, OwnWrites
<1> QED BY <1>1, WriteShows

\* The grant between local users x and y: y's client is told of x by the
\* answer to its probe, x's client of y by y's own presence.
LEMMA GrantSees ==
    ASSUME PresenceAssumption, TypeOK, SubscribersSeePresence, ToWasGranted,
           SaidIsAvail, NEW x \in Users, NEW y \in Names, ClientSubscribed(x, y),
           NEW u \in Users, NEW c \in Users, Bound(u, c)'
    PROVE  Shown(u, c)'
<1>0. /\ sess \in [Users -> Seq(Session)]
      /\ roster \in [Users -> [Names -> Entry]]
      /\ u \in Names /\ c \in Names
  BY DEF TypeOK, Names
<1>1. PICK ros, ss : GrantMade(x, y, ros, ss)
  BY GrantTables
<1>2. /\ ros = [roster EXCEPT ![x][y] = Granted(roster[x][y])]
      /\ ros \in [Users -> [Names -> Entry]] /\ PushedOnly(ss)
      /\ \/ OutsideAccepts(ros, y, x) /\ OutsideSubscribed(ros, ss, y, x)
         \/ ~OutsideAccepts(ros, y, x) /\ roster' = ros /\ sess' = ss
      /\ UNCHANGED <<items, dplist, severed>>
  BY <1>1 DEF GrantMade
<1>3. PICK e : e = Granted(roster[x][y])
  OBVIOUS
<1>4. ss \in [Users -> Seq(Session)]
  BY <1>2 DEF PushedOnly
<1>5. SubTo(ros[c][u]) => SubTo(roster[c][u])
  <2>1. SubTo(e) => SubTo(roster[x][y])
    BY <1>0, <1>3, ToByAcceptedOnly
  <2> QED BY <1>0, <1>2, <1>3, <2>1
<1>6. SameSight(ss) /\ SameWords(sess, ss)
  BY <1>2, PushedSight, PushedWords
<1>7. CASE roster' = ros /\ sess' = ss
  <2>1. Shows({})
    BY <1>6, <1>7, QuietShows
  <2>2. \A w \in {} : w.to # c
    OBVIOUS
  <2>3. severed \subseteq severed' /\ dplist' = dplist /\ SameWords(sess, sess')
    BY <1>2, <1>6, <1>7
  <2>4. SubTo(roster'[c][u]) => SubTo(roster[c][u])
    BY <1>5, <1>7
  <2> QED BY <2>1, <2>2, <2>3, <2>4, QuietSees
<1>8. CASE OutsideAccepts(ros, y, x) /\ OutsideSubscribed(ros, ss, y, x)
  <2>1. y \in Users /\ HasSession(y) /\ x \in Names
    BY <1>8 DEF OutsideAccepts, HasSession, Names
  <2>2. PICK new, ws : new = roster' /\ ws = OwnWrites(new, y, x)
    OBVIOUS
  <2>3. new = [ros EXCEPT ![y][x] = Accepted(ros[y][x])]
    BY <2>2, <1>8 DEF OutsideSubscribed
  <2>4. Shows(ws)
    BY <1>2, <1>4, <1>6, <1>8, <2>1, <2>2, OutsideShows
  <2>5. SameWords(sess, sess')
    <3>1. SameWords(ss, sess')
      BY <1>4, <1>8, OutsideWords
    <3> QED BY <1>6, <3>1, SameWordsTrans
  <2>6. /\ sess'[u] # <<>> /\ sess[u] # <<>> /\ sess'[u][1].res = sess[u][1].res
        /\ sess[u][1].said # "no"
        /\ sess'[c] # <<>> /\ sess[c] # <<>> /\ sess[c][1].said = "initial"
        /\ SubFrom(new[u][c]) /\ SubTo(new[c][u])
    BY <2>2, <2>5 DEF Bound, Announced, Probed, Linked, HasSession, SameWords
  <2>7. PICK a, b : a = userSessionJid(sess, u) /\ b = userSessionJid(sess, y)
    OBVIOUS
  <2>8. /\ userSessionJid(sess', u) = a /\ a \in FullJid /\ a[1] = u
        /\ b \in FullJid /\ b[1] = y
    BY <1>0, <2>1, <2>6, <2>7, JidOfSession DEF HasSession, userSessionJid
  <2>9. items[a].type = "avail"
    BY <2>6, <2>7 DEF SaidIsAvail, HasSession
  <2>10. CASE u = x /\ c = y /\ x # y
    <3>1. HasItem(b)
      <4>1. items[b].type = "avail"
        BY <2>6, <2>7, <2>10 DEF SaidIsAvail, HasSession
      <4> QED BY <4>1 DEF HasItem
    <3>2. \A w \in ProbeReply(new, u, b) : w.from = a => w \in ws
      BY <2>2, <2>7, <2>8, <2>10, <3>1 DEF OwnWrites
    <3>3. ~Withdrawn(u, b[1])
      <4>1. ~DirectedLeft(a, c, "unavail")'
        BY <2>8 DEF Bound, Withdrawn, DirectedLeft
      <4> QED BY <1>2, <2>7, <2>8, <2>10, <4>1 DEF Withdrawn, DirectedLeft
    <3>4. \E w \in ProbeReply(new, u, b) : w.from = a /\ w.to = b[1] /\ w.type = "avail"
      <4>1. HasSession(u) /\ SubFrom(new[u][b[1]])
        BY <2>6, <2>8, <2>10 DEF HasSession
      <4> QED BY <2>7, <2>9, <3>3, <4>1, ProbeShows
    <3>5. a \in SeenBy(c)'
      BY <2>4, <2>6, <2>8, <2>10, <3>2, <3>4 DEF Shows
    <3> QED BY <2>8, <3>5 DEF Shown
  <2>11. CASE u = y /\ c = x
    <3>1. a = b /\ HasItem(a)
      BY <2>7, <2>9, <2>11 DEF HasItem
    <3>2. Write(a, c, "avail") \in ws
      BY <2>2, <2>7, <2>9, <2>11, <3>1 DEF OwnWrites
    <3>3. a \in SeenBy(c)'
      BY <2>4, <2>6, <3>2 DEF Shows, Write
    <3> QED BY <2>8, <3>3 DEF Shown
  <2>12. CASE ~(u = x /\ c = y) /\ ~(u = y /\ c = x)
    <3>1. \A w \in ws : w.from = a => w.to # c
      <4> SUFFICES ASSUME NEW w \in ws, w.from = a PROVE w.to # c
        OBVIOUS
      <4>1. CASE w \in ProbeReply(new, x, b)
        <5>1. w.from[1] = x /\ w.to = b[1]
          BY <4>1, ProbeAddress
        <5> QED BY <2>8, <2>12, <5>1
      <4>2. CASE w = Write(b, x, items[b].type)
        <5>1. w.from = b /\ w.to = x
          BY <4>2 DEF Write
        <5> QED BY <2>8, <2>12, <5>1
      <4> QED BY <2>2, <2>7, <4>1, <4>2 DEF OwnWrites
    <3>2. new[c][u] = ros[c][u]
      BY <1>0, <1>2, <2>3, <2>12
    <3>3. DirectedLeft(a, c, "unavail") => DirectedLeft(a, c, "unavail")'
      BY <1>2 DEF DirectedLeft
    <3>4. \A n \in {u, c} : sess'[n] # <<>> => /\ sess[n] # <<>>
                                               /\ sess'[n][1].res = sess[n][1].res
                                               /\ sess'[n][1].said = sess[n][1].said
      BY <2>5 DEF SameWords
    <3>5. SubTo(roster'[c][u]) => SubTo(roster[c][u])
      BY <1>5, <2>2, <3>2
    <3> QED BY <1>2, <2>4, <2>7, <3>1, <3>3, <3>4, <3>5, KeepSees
  <2> QED BY <2>10, <2>11, <2>12
<1> QED BY <1>2, <1>7, <1>8

\* Every step leaves every bound pair shown.
LEMMA StepSees ==
    ASSUME PresenceAssumption, OneAtATime, TypeOK, AskInv, OneEach, SaidIsAvail,
           ToWasGranted, SubscribersSeePresence, [Next]_vars
    PROVE  SubscribersSeePresence'
<1> SUFFICES ASSUME NEW u \in Users, NEW c \in Users, Bound(u, c)'
             PROVE  Shown(u, c)'
  <2>1. SubscribersSeePresence' <=> (\A u, c \in Users : Bound(u, c) => Shown(u, c))'
    BY SeePairs, PTL
  <2> QED BY <2>1
<1> DEFINE Goal == Shown(u, c)'
<1>0. /\ sess \in [Users -> Seq(Session)]
      /\ roster \in [Users -> [Names -> Entry]]
      /\ SameSight(sess) /\ SameWords(sess, sess) /\ severed \subseteq severed'
      /\ u \in Names /\ c \in Names
  BY StepFrom DEF TypeOK, SameSight, SameWords, FromStays, Names
<1>1. /\ sess'[u] # <<>> /\ sess'[u][1].said # "no"
      /\ sess'[c] # <<>> /\ sess'[c][1].said = "initial"
  BY DEF Bound, Announced, Probed, HasSession
<1>2. \A w \in {} : w.to # c
  OBVIOUS
<1>3. ASSUME dplist' = dplist, NEW ss \in [Users -> Seq(Session)], SameSight(ss),
             SameWords(sess, ss), NEW ws, WriteAll(ss, ws), \A w \in ws : w.to # c,
             SubTo(roster'[c][u]) => SubTo(roster[c][u])
      PROVE  Goal
  <2>1. Shows(ws)
    BY <1>3, WriteShows
  <2>2. SameWords(ss, sess')
    BY <1>3, DeliverWords DEF WriteAll
  <2>3. SameWords(sess, sess')
    BY <1>3, <2>2, SameWordsTrans
  <2> QED BY <1>0, <1>3, <2>1, <2>3, QuietSees
<1>4. ASSUME dplist' = dplist, SameSight(sess'), SameWords(sess, sess'),
             SubTo(roster'[c][u]) => SubTo(roster[c][u])
      PROVE  Goal
  <2>1. Shows({})
    BY <1>4, QuietShows
  <2> QED BY <1>0, <1>2, <1>4, <2>1, QuietSees
<1>5. CASE UNCHANGED vars
  <2>1. sess' = sess /\ roster' = roster /\ dplist' = dplist
    BY <1>5 DEF vars
  <2>2. SameSight(sess')
    BY <2>1 DEF SameSight
  <2> QED BY <1>0, <1>4, <2>1, <2>2
<1>6. ASSUME NEW x \in Users, NEW r \in Resources, NEW i \in 1 .. MaxSessions, Login(x, r, i)
      PROVE  Goal
  <2>1. sess'[x][1] = NewSession(r)
    BY <1>6, LoginView
  <2>2. \A n \in Users : n # x => sess'[n] = sess[n]
    BY <1>6, LoginView
  <2>3. u # x /\ c # x
    BY <1>1, <2>1 DEF NewSession
  <2>4. sess'[u] = sess[u] /\ sess'[c] = sess[c]
    BY <2>2, <2>3
  <2>5. UNCHANGED <<roster, dplist, severed, rsees>>
    BY <1>6 DEF Login
  <2>6. Bound(u, c)
    BY <2>4, <2>5 DEF Bound, Announced, Probed, Linked, Withdrawn, HasSession, DirectedLeft,
                      userSessionJid
  <2>7. Shown(u, c)
    BY <2>6, SeePairs
  <2> QED BY <2>4, <2>5, <2>7 DEF Shown, SeenBy, userSessionJid
<1>7. ASSUME NEW x \in Users, NEW i \in 1 .. MaxSessions, SessionGone(x, i)
      PROVE  Goal
  <2>1. PICK ss : ss = [sess EXCEPT ![x] = <<>>]
    OBVIOUS
  <2>2. WriteAll(ss, {}) /\ UNCHANGED <<roster, dplist>>
    BY <1>7, <2>1, GoneView
  <2>3. ss \in [Users -> Seq(Session)] /\ SameSight(ss) /\ SameWords(sess, ss)
    BY <1>0, <2>1 DEF SameSight, SameWords
  <2> QED BY <1>2, <1>3, <2>2, <2>3
<1>8. ASSUME NEW x \in Users, NEW t \in {"avail", "unavail"}, ClientBroadcast(x, t)
      PROVE  Goal
  BY <1>8, BroadcastSees
<1>9. ASSUME NEW x \in Users, NEW i \in 1 .. MaxSessions, NEW to \in DirectedTo,
             NEW t \in {"avail", "unavail"}, ClientDirected(x, i, to, t)
      PROVE  Goal
  BY <1>9, DirectedSees
<1>10. ASSUME NEW x \in Users, RosterGet(x)
       PROVE  Goal
  <2>1. /\ sess' = [sess EXCEPT ![x][1].copy = roster[x]] /\ sess[x] # <<>>
        /\ UNCHANGED <<roster, dplist>>
    BY <1>10 DEF RosterGet, HasSession
  <2> DEFINE s == sess[x]
             d == s[1]
             f == [d EXCEPT !.copy = roster[x]]
  <2>2. s \in Seq(Session) /\ s # <<>> /\ d \in Session
    BY <1>0, <2>1, FirstIsSession
  <2>3. f.online = d.online /\ f.res = d.res /\ f.said = d.said
    BY <2>2 DEF Session
  <2>4. sess'[x] = [s EXCEPT ![1] = f] /\ \A n \in Users : n # x => sess'[n] = sess[n]
    BY <1>0, <2>1
  <2>5. 1 \in 1 .. Len(s)
    BY <2>2, EmptySeq, LenProperties
  <2> HIDE DEF s, d, f
  <2>6. sess'[x][1] = f
    <3>1. ASSUME NEW q, q = [s EXCEPT ![1] = f] PROVE q[1] = f
      BY ONLY <3>1, <2>2, <2>5
    <3> QED BY <2>4, <3>1
  <2>7. SameSight(sess') /\ SameWords(sess, sess')
    BY <2>1, <2>3, <2>4, <2>6 DEF SameSight, SameWords, s, d
  <2> QED BY <1>4, <2>1, <2>7
<1>11. ASSUME NEW x \in Users, NEW y \in Names,
              (\E remove \in BOOLEAN : RosterSet(x, y, remove)) \/ ClientSubscribe(x, y)
       PROVE  Goal
  <2>1. sess' = sess \/ \E e : sess' = Push(sess, x, y, e)
    BY <1>11 DEF RosterSet, ClientSubscribe
  <2>2. SameSight(sess') /\ SameWords(sess, sess')
    BY <1>0, <2>1, PushSight, PushWords
  <2>3. dplist' = dplist
    BY <1>11 DEF RosterSet, ClientSubscribe
  <2>4. SubTo(roster'[c][u]) => SubTo(roster[c][u])
    <3>1. \E e \in {NoEntry, Added(roster[x][y]), Asked(roster[x][y])} :
              roster' = [roster EXCEPT ![x][y] = e]
      BY <1>11 DEF RosterSet, ClientSubscribe
    <3>2. roster[c][u] \in Entry
      BY <1>0
    <3> QED BY <1>0, <3>1, <3>2, ToByAcceptedOnly
  <2> QED BY <1>4, <2>2, <2>3, <2>4
<1>12. ASSUME NEW x \in Users, NEW y \in Names, ClientSubscribed(x, y)
       PROVE  Goal
  BY <1>12, GrantSees
<1>13. ASSUME NEW x \in Users, NEW y \in Remotes, RemoteSubscribed(y, x)
       PROVE  Goal
  <2>1. y \in Names /\ dplist' = dplist
    BY <1>13, RemoteTables
  <2>2. PICK tt : PushedOnly(tt) /\ OutsideSubscribed(roster, tt, x, y)
    BY <1>13, RemoteTables
  <2>3. tt \in [Users -> Seq(Session)] /\ SameSight(tt) /\ SameWords(sess, tt)
    BY <2>2, PushedSight, PushedWords DEF PushedOnly
  <2>4. PICK new, ws : new = roster' /\ ws = OwnWrites(new, x, y)
    OBVIOUS
  <2>5. Shows(ws)
    BY <1>0, <2>1, <2>2, <2>3, <2>4, OutsideShows
  <2>6. SameWords(sess, sess')
    <3>1. SameWords(tt, sess')
      BY <2>2, <2>3, OutsideWords
    <3> QED BY <2>3, <3>1, SameWordsTrans
  <2>7. ~HasSession(y) /\ y # u /\ y # c
    BY PresenceAssumption DEF HasSession, PresenceAssumption
  <2>8. \A w \in ws : w.to # c
    <3>1. ProbeReply(new, y, userSessionJid(sess, x)) = {}
      BY <2>7 DEF ProbeReply
    <3>2. \A w \in ws : w.to = y
      BY <2>4, <3>1 DEF OwnWrites, Write
    <3> QED BY <2>7, <3>2
  <2>9. SubTo(roster'[c][u]) => SubTo(roster[c][u])
    <3>1. \E e : roster' = [roster EXCEPT ![x][y] = e]
      BY <2>2 DEF OutsideSubscribed
    <3> QED BY <1>0, <2>7, <3>1
  <2> QED BY <1>0, <2>1, <2>5, <2>6, <2>8, <2>9, QuietSees
<1>14. ASSUME NEW x \in Users, NEW from \in RemoteJid, RemoteProbe(from, x)
       PROVE  Goal
  <2>1. WriteAll(sess, ProbeReply(roster, x, from)) /\ UNCHANGED <<roster, dplist>>
    BY <1>14 DEF RemoteProbe
  <2>2. \A w \in ProbeReply(roster, x, from) : w.to # c
    <3>1. from[1] # c
      BY PresenceAssumption DEF RemoteJid, PresenceAssumption
    <3>2. \A w \in ProbeReply(roster, x, from) : w.to = from[1]
      BY ProbeAddress
    <3> QED BY <3>1, <3>2
  <2> QED BY <1>0, <1>3, <2>1, <2>2
<1>15. ASSUME NEW x \in Users, NEW from \in RemoteJid, RemoteError(from, x)
       PROVE  Goal
  <2>1. UNCHANGED <<sess, roster, dplist>>
    BY <1>15 DEF RemoteError
  <2>2. SameSight(sess')
    BY <2>1 DEF SameSight
  <2> QED BY <1>0, <1>4, <2>1, <2>2
<1>16. CASE Restart
  BY <1>1, <1>16 DEF Restart
<1> QED BY <1>5, <1>6, <1>7, <1>8, <1>9, <1>10, <1>11, <1>12, <1>13, <1>14, <1>15, <1>16
        DEF Next

\* The inductive invariant: the property with the facts about the rosters and
\* the presence list that a grant and a probe need.
SInv == OneEach /\ SaidIsAvail /\ ToWasGranted /\ SubscribersSeePresence

\* With a mutual subscription, in every reachable state of a server whose
\* users have one session at a time, a user who has announced itself is seen
\* by every contact whose session began with a probing broadcast, in whatever
\* order they logged in, asked, granted and announced themselves.
THEOREM SubscribersSee == OneAtATime => (Spec => []SubscribersSeePresence)
<1> SUFFICES ASSUME OneAtATime PROVE Spec => []SubscribersSeePresence
  OBVIOUS
<1>1. Init => SInv
  <2>1. Init => OneEach
    BY EmptySeq DEF Init, OneEach
  <2>2. Init => SaidIsAvail /\ SubscribersSeePresence
    BY DEF Init, SaidIsAvail, SubscribersSeePresence, HasSession
  <2>3. Init => ToWasGranted
    BY DEF Init, ToWasGranted, Names, NoEntry, SubTo
  <2> QED BY <2>1, <2>2, <2>3 DEF SInv
<1>2. TypeOK /\ AskInv /\ SInv /\ [Next]_vars => SInv'
  BY StepOne, StepSaid, StepToWasGranted, StepSees, PresenceAssumption DEF SInv
<1>3. SInv => SubscribersSeePresence
  BY DEF SInv
<1> QED BY <1>1, <1>2, <1>3, TypeCorrect, AskOutstanding, PTL DEF Spec
=============================================================================
