------------------------------ MODULE Presence ------------------------------
(***************************************************************************)
(* The presence manager, the rosters and the dispatch of presence and     *)
(* roster stanzas of the ambrosia server (src/main.cpp), over the table of *)
(* client sessions that the router keeps (src/router.cpp).                 *)
(*                                                                         *)
(* The server is one Qt event loop: a slot runs to its end before the next *)
(* one starts, so every stanza handler is one action.  Stanzas a handler   *)
(* addresses to a local user loop back into the same handler               *)
(* (writeFromHost), so an action carries the reactions of the local        *)
(* targets as well.  What a handler writes is a set of presence writes     *)
(* and a set of roster pushes; the router hands both to the first session  *)
(* of the addressed node.                                                  *)
(***************************************************************************)
EXTENDS Naturals, Sequences, SequencesExt

CONSTANTS
    Users,        \* nodes of this host
    Remotes,      \* contacts on other hosts
    Resources,    \* resources a session can be bound to
    NoRes,        \* the empty resource: <<n, NoRes>> is a bare jid
    Contacts,     \* bound: <<u, c>>, clients of u edit or subscribe to the entry of c
    DirectedTo,   \* bound: jids that clients send directed presence to
    MaxSessions,  \* bound: sessions of one user at a time
    MaxOrphans    \* bound: last sessions lost between two restarts

Names == Users \cup Remotes
Bare(n) == <<n, NoRes>>
FullJid == Users \X Resources
RemoteJid == Remotes \X (Resources \cup {NoRes})

ASSUME PresenceAssumption ==
    /\ Users \cap Remotes = {}
    /\ NoRes \notin Resources
    /\ Contacts \subseteq Users \X Names
    /\ DirectedTo \subseteq Names \X (Resources \cup {NoRes})
    /\ MaxSessions \in Nat
    /\ MaxOrphans \in Nat

VARIABLES
    sess,    \* [Users -> Seq(Session)]: the router's client sessions, in list order
    roster,  \* [Users -> [Names -> Entry]]: the rosters on disk
    items,   \* PresenceManager::list, by full jid
    dplist,  \* PresenceManager::dplist, by <<user, to>>
    orphans, \* entries of PresenceManager::list whose user is the empty jid
    rsees,   \* history: local jids each remote contact was last told available
    pushed,  \* history: <<u, c>>, u's presence went to c with the roster grant
    severed  \* history: <<u, c>>, the presence link from u to c was cut

vars == <<sess, roster, items, dplist, orphans, rsees, pushed, severed>>

-----------------------------------------------------------------------------
(* Data.                                                                   *)

Subs == {"absent", "none", "from", "to", "both"}
Entry == [sub : Subs, ask : BOOLEAN]
NoEntry == [sub |-> "absent", ask |-> FALSE]
HasEntry(e) == e.sub # "absent"
SubFrom(e) == e.sub \in {"from", "both"}
SubTo(e) == e.sub \in {"to", "both"}

Item == [type : {"none", "avail", "unavail"}, dontsend : SUBSET RemoteJid]
NoPresence == [type |-> "none", dontsend |-> {}]
HasItem(j) == items[j].type # "none"

\* "no" until the session broadcasts available presence; "initial" when that
\* made the server probe the contacts, "update" when it did not.
Said == {"no", "update", "initial"}

\* What a client has: its resource, the jids it was last told available, its
\* copy of the roster (<<>> until the first roster result), what it broadcast.
NoCopy == <<>>
Session == [res : Resources, online : SUBSET FullJid,
            copy : {NoCopy} \cup [Names -> Entry], said : Said]
NewSession(r) == [res |-> r, online |-> {}, copy |-> NoCopy, said |-> "no"]

HasSession(n) == n \in Users /\ sess[n] # <<>>

\* Router::userSessionJid: the jid of the node's first session.
userSessionJid(ss, u) == <<u, ss[u][1].res>>

HasDPItem(j, to) == to \in DirectedTo /\ dplist[<<j, to>>] # "none"

-----------------------------------------------------------------------------
(* What a handler writes.  A presence write is [from, to, type], "to" being *)
(* a node since sessionForUser looks at nothing else.                       *)

Write(from, to, type) == [from |-> from, to |-> to, type |-> type]

Told(known, writes, n) ==
    (known \ {w.from : w \in {x \in writes : x.to = n}})
        \cup {w.from : w \in {x \in writes : x.to = n /\ x.type = "avail"}}

\* Router::write to a local node: the first session gets it, or nobody.
Deliver(ss, writes) ==
    [n \in Users |->
        IF ss[n] = <<>> THEN <<>>
        ELSE [ss[n] EXCEPT ![1].online = Told(@, writes, n)]]

\* Mutation: the pushed item was copied before its ask was set.
PushBeforeAsk(ss, u, c, e) ==
    IF ss[u] = <<>> \/ ss[u][1].copy = NoCopy THEN ss
    ELSE [ss EXCEPT ![u][1].copy[c] = [e EXCEPT !.ask = FALSE]]

\* The roster push of u's entry for c, also a Router::write to u.
Push(ss, u, c, e) ==
    IF ss[u] = <<>> \/ ss[u][1].copy = NoCopy THEN ss
    ELSE [ss EXCEPT ![u][1].copy[c] = e]

WriteAll(ss, writes) ==
    /\ sess' = Deliver(ss, writes)
    /\ rsees' = [n \in Remotes |-> Told(rsees[n], writes, n)]

StoredPresence(v, from) ==
    IF HasItem(v) THEN items[v].type ELSE IF v = from THEN "avail" ELSE "unavail"

\* Mutation: any prober is answered.
ProbeReplyToAll(ros, t, from) ==
    IF ~HasSession(t) THEN {}
    ELSE LET v == userSessionJid(sess, t) IN
         {Write(v, from[1],
                IF HasDPItem(v, from) THEN dplist[<<v, from>>] ELSE StoredPresence(v, from))}

\* incomingFromOutsideNormal with a probe for node t: a directed presence
\* answers for the prober's exact jid, else the roster decides.  A session
\* that probes itself has stored the presence it is broadcasting.
ProbeReply(ros, t, from) ==
    IF ~HasSession(t) THEN {}
    ELSE LET v == userSessionJid(sess, t) IN
         IF HasDPItem(v, from) THEN {Write(v, from[1], dplist[<<v, from>>])}
         ELSE IF SubFrom(ros[t][from[1]])
         THEN {Write(v, from[1], StoredPresence(v, from))}
         ELSE {}

-----------------------------------------------------------------------------
(* The steps of a roster entry.                                            *)

\* incomingFromClientSub, "subscribe".
Asked(e) ==
    IF ~HasEntry(e) THEN [sub |-> "none", ask |-> TRUE]
    ELSE IF ~SubTo(e) THEN [e EXCEPT !.ask = TRUE]
    ELSE e

\* Mutation: "to" is overwritten.
GrantedFrom(e) == IF e.sub \in {"none", "to"} THEN [e EXCEPT !.sub = "from"] ELSE e

\* incomingFromClientSub, "subscribed".
Granted(e) ==
    CASE e.sub = "none" -> [e EXCEPT !.sub = "from"]
      [] e.sub = "to"   -> [e EXCEPT !.sub = "both"]
      [] OTHER          -> e

\* Mutation: ask stays set.
AcceptedAsking(e) ==
    CASE e.sub = "none" -> [e EXCEPT !.sub = "to"]
      [] e.sub = "from" -> [e EXCEPT !.sub = "both"]
      [] OTHER          -> e

\* incomingFromOutsideSub, "subscribed".
Accepted(e) ==
    CASE e.sub = "none" -> [sub |-> "to", ask |-> FALSE]
      [] e.sub = "from" -> [sub |-> "both", ask |-> FALSE]
      [] OTHER          -> e

\* Mutation: a new item without a subscription.
AddedBlank(e) == IF HasEntry(e) THEN e ELSE [sub |-> "", ask |-> FALSE]

\* Roster::applyChanges for one change without remove.
Added(e) == IF HasEntry(e) THEN e ELSE [sub |-> "none", ask |-> FALSE]

-----------------------------------------------------------------------------
(* Sessions.                                                               *)

Init ==
    /\ sess = [u \in Users |-> <<>>]
    /\ roster = [u \in Users |-> [n \in Names |-> NoEntry]]
    /\ items = [j \in FullJid |-> NoPresence]
    /\ dplist = [d \in FullJid \X DirectedTo |-> "none"]
    /\ orphans = 0
    /\ rsees = [n \in Remotes |-> {}]
    /\ pushed = {}
    /\ severed = {}

\* A stream is bound to a jid.  The session entered the router's list when the
\* connection was accepted, so it may stand before an older login of the user.
Login(u, r, i) ==
    /\ Len(sess[u]) < MaxSessions
    /\ i \in 1 .. Len(sess[u]) + 1
    /\ sess' = [sess EXCEPT ![u] = InsertAt(@, i, NewSession(r))]
    /\ pushed' = IF sess[u] = <<>> THEN {p \in pushed : p[2] # u} ELSE pushed
    /\ UNCHANGED <<roster, items, dplist, orphans, rsees, severed>>

\* A broadcast that finds no item for v and is unavailable: the item was
\* already appended when the handler returns.
InitialUnavailable(ss, v) ==
    /\ ~HasItem(v)
    /\ items' = [items EXCEPT ![v].type = "unavail"]
    /\ WriteAll(ss, {})
    /\ UNCHANGED dplist

\* Mutation: directed presence is forgotten without being withdrawn.
BroadcastToRosterOnly(v, t) ==
    LET u == v[1]
        probed == {c \in Names : ~HasItem(v) /\ SubTo(roster[u][c])}
        heard == {c \in Names : SubFrom(roster[u][c]) /\ Bare(c) \notin items[v].dontsend}
    IN  (UNION {ProbeReply(roster, c, v) : c \in probed}) \cup {Write(v, c, t) : c \in heard}

\* Mutation: the probes go to the contacts of from/both.
BroadcastProbingFrom(v, t) ==
    LET u == v[1]
        probed == {c \in Names : ~HasItem(v) /\ SubFrom(roster[u][c])}
        heard == {c \in Names : SubFrom(roster[u][c]) /\ Bare(c) \notin items[v].dontsend}
        direct == {to \in DirectedTo : HasItem(v) /\ t = "unavail" /\ HasDPItem(v, to)}
    IN  (UNION {ProbeReply(roster, c, v) : c \in probed})
            \cup {Write(v, c, t) : c \in heard}
            \cup {Write(v, to[1], t) : to \in direct}

\* The writes of a broadcast of type t by v that gets past that return.
BroadcastWrites(v, t) ==
    LET u == v[1]
        probed == {c \in Names : ~HasItem(v) /\ SubTo(roster[u][c])}
        heard == {c \in Names : /\ SubFrom(roster[u][c])
                                /\ Bare(c) \notin items[v].dontsend}
        direct == {to \in DirectedTo : HasItem(v) /\ t = "unavail" /\ HasDPItem(v, to)}
    IN  (UNION {ProbeReply(roster, c, v) : c \in probed})
            \cup {Write(v, c, t) : c \in heard}
            \cup {Write(v, to[1], t) : to \in direct}

SaidAvail(v, said) ==
    IF ~HasItem(v) THEN "initial" ELSE IF said = "no" THEN "update" ELSE said

\* incomingFromClientNormal without a "to" from the user whose first session is v.
Available(v) ==
    /\ items' = [items EXCEPT ![v].type = "avail"]
    /\ WriteAll([sess EXCEPT ![v[1]][1].said = SaidAvail(v, @)],
                BroadcastWrites(v, "avail"))
    /\ UNCHANGED dplist

Unavailable(ss, v) ==
    /\ HasItem(v)
    /\ items' = [items EXCEPT ![v] = NoPresence]
    /\ dplist' = [d \in DOMAIN dplist |-> IF d[1] = v THEN "none" ELSE dplist[d]]
    /\ WriteAll([ss EXCEPT ![v[1]][1].said = "no"], BroadcastWrites(v, "unavail"))

ClientBroadcast(u, t) ==
    /\ HasSession(u)
    /\ LET v == userSessionJid(sess, u) IN
       \/ t = "avail" /\ Available(v)
       \/ t = "unavail" /\ (InitialUnavailable(sess, v) \/ Unavailable(sess, v))
    /\ UNCHANGED <<roster, orphans, pushed, severed>>

\* A stream ends: sess_done drops the session from the list, then
\* router_userSessionGone feeds a made-up unavailable presence to the presence
\* manager, for whichever session of the user is first by now.
SessionGone(u, i) ==
    /\ i \in 1 .. Len(sess[u])
    /\ LET ss == [sess EXCEPT ![u] = RemoveAt(@, i)] IN
       \/ /\ ss[u] = <<>>
          /\ orphans < MaxOrphans
          /\ orphans' = orphans + 1
          /\ WriteAll(ss, {})
          /\ UNCHANGED <<items, dplist>>
       \/ /\ ss[u] # <<>>
          /\ LET v == userSessionJid(ss, u) IN
             InitialUnavailable(ss, v) \/ Unavailable(ss, v)
          /\ UNCHANGED orphans
    /\ UNCHANGED <<roster, pushed, severed>>

\* incomingFromClientNormal with a "to", from the u's i-th session: the entry
\* is kept for the first session's jid, the stanza keeps its own sender.
ClientDirected(u, i, to, t) ==
    /\ i \in 1 .. Len(sess[u])
    /\ <<u, to[1]>> \in Contacts
    /\ dplist' = [dplist EXCEPT ![<<userSessionJid(sess, u), to>>] = t]
    /\ WriteAll(sess, {Write(<<u, sess[u][i].res>>, to[1], t)})
    /\ UNCHANGED <<roster, items, orphans, pushed, severed>>

-----------------------------------------------------------------------------
(* Rosters and subscriptions.                                              *)

\* iq get: the result goes to the first session of the node.
RosterGet(u) ==
    /\ HasSession(u)
    /\ sess' = [sess EXCEPT ![u][1].copy = roster[u]]
    /\ UNCHANGED <<roster, items, dplist, orphans, rsees, pushed, severed>>

\* iq set with one change for c.
RosterSet(u, c, remove) ==
    /\ HasSession(u)
    /\ <<u, c>> \in Contacts
    /\ LET e == IF remove THEN NoEntry ELSE Added(roster[u][c]) IN
       /\ roster' = [roster EXCEPT ![u][c] = e]
       /\ sess' = Push(sess, u, c, e)
       /\ severed' = IF remove /\ HasEntry(roster[u][c])
                     THEN severed \cup {<<u, c>>} ELSE severed
    /\ UNCHANGED <<items, dplist, orphans, rsees, pushed>>

ClientSubscribe(u, c) ==
    /\ HasSession(u)
    /\ <<u, c>> \in Contacts
    /\ LET e == Asked(roster[u][c]) IN
       /\ roster' = [roster EXCEPT ![u][c] = e]
       /\ sess' = IF e # roster[u][c] THEN Push(sess, u, c, e) ELSE sess
    /\ UNCHANGED <<items, dplist, orphans, rsees, pushed, severed>>

\* incomingFromOutsideSub, "subscribed" from node c to a user u with a session,
\* in a state whose rosters are ros: ss are the sessions with what the step
\* pushes (pushes and presence do not meet in a client), and a user that probes
\* itself is answered before its presence is pushed to it.
OutsideAccepts(ros, u, c) == HasSession(u) /\ Accepted(ros[u][c]) # ros[u][c]

AcceptedPush(ros, u, c) == Push(sess, u, c, Accepted(ros[u][c]))

OutsideSubscribed(ros, ss, u, c) ==
    LET v == userSessionJid(sess, u)
        e == Accepted(ros[u][c])
        newros == [ros EXCEPT ![u][c] = e]
        own == IF HasItem(v)
               THEN {w \in ProbeReply(newros, c, v) : w.from # v}
                        \cup {Write(v, c, items[v].type)}
               ELSE {}
    IN  /\ roster' = newros
        /\ WriteAll(ss, own)
        /\ pushed' = IF own # {} /\ ~SubFrom(e) THEN pushed \cup {<<u, c>>} ELSE pushed

\* incomingFromClientSub, "subscribed": only a change of the entry is
\* forwarded, a local contact accepts it within the same call, and the item
\* copied before that call is pushed last.
ClientSubscribed(u, c) ==
    /\ HasSession(u)
    /\ Granted(roster[u][c]) # roster[u][c]
    /\ LET e == Granted(roster[u][c])
           ros == [roster EXCEPT ![u][c] = e]
       IN  IF OutsideAccepts(ros, c, u)
           THEN OutsideSubscribed(ros, Push(AcceptedPush(ros, c, u), u, c, e), c, u)
           ELSE roster' = ros /\ sess' = Push(sess, u, c, e) /\ UNCHANGED <<rsees, pushed>>
    /\ UNCHANGED <<items, dplist, orphans, severed>>

-----------------------------------------------------------------------------
(* Presence from other hosts.                                              *)

RemoteSubscribed(c, u) ==
    /\ OutsideAccepts(roster, u, c)
    /\ OutsideSubscribed(roster, AcceptedPush(roster, u, c), u, c)
    /\ UNCHANGED <<items, dplist, orphans, severed>>

RemoteProbe(from, u) ==
    /\ WriteAll(sess, ProbeReply(roster, u, from))
    /\ UNCHANGED <<roster, items, dplist, orphans, pushed, severed>>

RemoteError(from, u) ==
    /\ HasSession(u)
    /\ LET v == userSessionJid(sess, u) IN
       /\ HasItem(v)
       /\ items' = [items EXCEPT ![v].dontsend = @ \cup {from}]
    /\ severed' = severed \cup {<<u, from[1]>>}
    /\ UNCHANGED <<sess, roster, dplist, orphans, rsees, pushed>>

-----------------------------------------------------------------------------
(* The process dies and is started again.  What saveUser wrote survives:   *)
(* all of it, the file of a handler that died after its save and before    *)
(* its writes, or a file that was opened with Truncate and not written.    *)

\* Mutation: the grant is forwarded before it is saved.
CrashForwardFirst ==
    {roster}
    \cup {[roster EXCEPT ![p[1]][p[2]] = Accepted(@)] : p \in {q \in Users \X Names : HasSession(q[1])}}

CrashImages ==
    {roster}
    \cup {[roster EXCEPT ![p[1]][p[2]] = Granted(@)] : p \in {q \in Users \X Names : HasSession(q[1])}}
    \cup {[roster EXCEPT ![u] = [n \in Names |-> NoEntry]] : u \in {x \in Users : HasSession(x)}}

Restart ==
    /\ roster' \in CrashImages
    /\ sess' = [u \in Users |-> <<>>]
    /\ items' = [j \in FullJid |-> NoPresence]
    /\ dplist' = [d \in FullJid \X DirectedTo |-> "none"]
    /\ orphans' = 0
    /\ severed' = severed \cup (Users \X Remotes)
         \cup {p \in Users \X Names : HasEntry(roster[p[1]][p[2]]) /\ ~HasEntry(roster'[p[1]][p[2]])}
    /\ UNCHANGED <<rsees, pushed>>

Next ==
    \/ \E u \in Users :
        \/ \E r \in Resources, i \in 1 .. MaxSessions : Login(u, r, i)
        \/ \E i \in 1 .. MaxSessions : SessionGone(u, i)
        \/ \E t \in {"avail", "unavail"} : ClientBroadcast(u, t)
        \/ \E i \in 1 .. MaxSessions, to \in DirectedTo, t \in {"avail", "unavail"} :
               ClientDirected(u, i, to, t)
        \/ RosterGet(u)
        \/ \E c \in Names, remove \in BOOLEAN : RosterSet(u, c, remove)
        \/ \E c \in Names : ClientSubscribe(u, c)
        \/ \E c \in Names : ClientSubscribed(u, c)
        \/ \E c \in Remotes : RemoteSubscribed(c, u)
        \/ \E from \in RemoteJid : RemoteProbe(from, u)
        \/ \E from \in RemoteJid : RemoteError(from, u)
    \/ Restart

Spec == Init /\ [][Next]_vars

-----------------------------------------------------------------------------
(* Properties.                                                             *)

\* Every variable has its type.
TypeOK ==
    /\ sess \in [Users -> Seq(Session)]
    /\ roster \in [Users -> [Names -> Entry]]
    /\ items \in [FullJid -> Item]
    /\ dplist \in [FullJid \X DirectedTo -> {"none", "avail", "unavail"}]
    /\ orphans \in 0 .. MaxOrphans
    /\ rsees \in [Remotes -> SUBSET FullJid]
    /\ pushed \subseteq Users \X Names
    /\ severed \subseteq Users \X Names

\* A request is outstanding only while the contact's presence is not yet
\* granted: no order of subscribe, subscribed, roster edits and restarts
\* leaves ask="subscribe" on an entry that is already to/both, which the
\* client would show as waiting for ever (main.cpp sets ask and sub apart).
AskInv ==
    \A u \in Users, c \in Names : roster[u][c].ask => roster[u][c].sub \in {"none", "from"}

\* A user in its own roster that granted its own request: the nested handler
\* saved and pushed "both", the outer one then pushed its copy from before.
SupersededCopy(u, e) ==
    roster[u][u] = [sub |-> "both", ask |-> FALSE] /\ e.sub = "from"

\* Once a client has fetched its roster, the pushes of the places that change
\* it on disk keep every entry of the client's copy equal to the stored one,
\* nested handlers included; the one entry that can lag is the client's own,
\* after a grant to itself.
ClientRosterInSync ==
    \A u \in Users : HasSession(u) /\ sess[u][1].copy # NoCopy =>
        \A c \in Names :
            \/ sess[u][1].copy[c] = roster[u][c]
            \/ c = u /\ SupersededCopy(u, sess[u][1].copy[c])

SeenBy(c) ==
    IF c \in Remotes THEN rsees[c]
    ELSE IF sess[c] = <<>> THEN {} ELSE sess[c][1].online

DirectedLeft(j, c, t) == \E to \in DirectedTo : to[1] = c /\ dplist[<<j, to>>] = t

\* No ghosts: a contact sees a user available only while the server still
\* holds that presence, as an item or as a directed presence; whether it still
\* has a session to withdraw it from is LostIsUnavailable.  The exceptions are
\* exactly the presence handed over with a roster grant and the links cut by a
\* deleted entry, an error or a restart.
NoGhost ==
    \A c \in Names : \A j \in SeenBy(c) :
        \/ items[j].type = "avail"
        \/ DirectedLeft(j, c, "avail")
        \/ <<j[1], c>> \in pushed \cup severed

\* Subscribers see presence: with a mutual subscription, a user who has
\* announced itself in this session is seen by every contact whose session
\* began with a probing broadcast, in whatever order the two logged in,
\* asked, granted and announced themselves.
SubscribersSeePresence ==
    \A u, c \in Users :
        /\ HasSession(u) /\ sess[u][1].said # "no"
        /\ HasSession(c) /\ sess[c][1].said = "initial"
        /\ SubFrom(roster[u][c]) /\ SubTo(roster[c][u])
        /\ <<u, c>> \notin severed
        /\ ~DirectedLeft(userSessionJid(sess, u), c, "unavail")
        => userSessionJid(sess, u) \in SeenBy(c)

\* Presence is not leaked: a contact comes to see a user available only when
\* the user's roster lets it, when the user sent it directed presence, or with
\* the roster grant; no chain of probes and loopbacks does more.
OnlyAuthorisedLearn ==
    [][\A c \in Names : \A j \in SeenBy(c)' \ SeenBy(c) :
        \/ SubFrom(roster'[j[1]][c])
        \/ DirectedLeft(j, c, "avail")'
        \/ <<j[1], c>> \in pushed']_vars

\* A grant has two sides: a local user's entry gains "to" only when the
\* contact's own roster says "from" by the end of the same step, although the
\* two rosters are two files saved by two handlers.
GrantIsMutual ==
    [][\A a, b \in Users :
        SubTo(roster'[b][a]) /\ ~SubTo(roster[b][a]) => SubFrom(roster'[a][b])]_vars

\* Subscriptions only grow: no step takes "from" or "to" away from an entry
\* except by deleting the entry (unsubscribing is not supported).
SubscriptionGrows ==
    [][\A u \in Users, c \in Names :
        \/ ~HasEntry(roster'[u][c])
        \/ /\ SubFrom(roster[u][c]) => SubFrom(roster'[u][c])
           /\ SubTo(roster[u][c]) => SubTo(roster'[u][c])]_vars

\* TODO:4, "if a client connection is lost, handle as unavailable": whoever
\* has an item in the presence list has a session.
LostIsUnavailable == \A j \in FullJid : HasItem(j) => HasSession(j[1])

\* main.cpp:774, "broadcast presence to roster items of from/both": besides
\* directed presence, what a contact sees of a user was sent to a subscriber
\* and is withdrawn from it, unless the link was cut.
NoGhostAfterGrant ==
    \A c \in Names : \A j \in SeenBy(c) :
        \/ items[j].type = "avail"
        \/ DirectedLeft(j, c, "avail")
        \/ <<j[1], c>> \in severed
=============================================================================
