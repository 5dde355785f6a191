------------------------------- MODULE WsHub --------------------------------
(***************************************************************************)
(* The WebSocket hub of a gateway (ws/hub.rs) with the sessions that use   *)
(* it (ws/session.rs) and the stream listener that broadcasts through it.  *)
(* The hub keeps three maps under a lock each; an operation on it takes    *)
(* them one after the other, so every critical section is a step here and  *)
(* those of different sessions and of the listener interleave.  A session  *)
(* handles one message at a time, and unregisters itself at its end.       *)
(***************************************************************************)
EXTENDS Integers, FiniteSets

CONSTANTS Clients, Topics, Users,
          NoUser,
          MaxMessages,   \* bound on the messages of a client
          MaxBroadcasts  \* bound on the broadcasts

ASSUME UsersAssumption == NoUser \notin Users \cup Topics /\ Topics \cap Users = {}
ASSUME BoundsAssumption == MaxMessages \in Nat /\ MaxBroadcasts \in Nat

VARIABLES session,       \* client -> where its handle_ws_session is
          wire,          \* client -> its connection: "open", "closed" (a Close
                         \* frame or an error is to be read) or "ended"
          clients,       \* the registered clients
          user_id,       \* client -> the user of its ClientSession
          topics,        \* topic -> its subscribers
          user_clients,  \* user -> the clients of the user
          rx,            \* client -> payloads in its channel
          cast,          \* the broadcast under way: the clients it will go to
          casts,         \* how many broadcasts were begun
          asked,         \* client -> messages handled
          arg,           \* client -> topic or user of the message being handled
          acked,         \* history: client -> topics and users acknowledged to it
          proved,        \* history: client -> users whose token it showed
          got            \* history: client -> <<broadcast, topic or user>> sent to it

vars == <<session, wire, clients, user_id, topics, user_clients, rx, cast, casts,
          asked, arg, acked, proved, got>>

hub == <<clients, user_id, topics, user_clients>>
history == <<acked, proved, got>>

NoCast == [to |-> NoUser, ids |-> {}, due |-> {}]

Init ==
  /\ session = [c \in Clients |-> "new"]
  /\ wire = [c \in Clients |-> "open"]
  /\ clients = {}
  /\ user_id = [c \in Clients |-> NoUser]
  /\ topics = [t \in Topics |-> {}]
  /\ user_clients = [u \in Users |-> {}]
  /\ rx = [c \in Clients |-> 0]
  /\ cast = NoCast
  /\ casts = 0
  /\ asked = [c \in Clients |-> 0]
  /\ arg = [c \in Clients |-> NoUser]
  /\ acked = [c \in Clients |-> {}]
  /\ proved = [c \in Clients |-> {}]
  /\ got = [c \in Clients |-> {}]

Goto(c, place) == session' = [session EXCEPT ![c] = place]

Register(c) ==
  /\ session[c] = "new"
  /\ Goto(c, "loop")
  /\ clients' = clients \cup {c}
  /\ UNCHANGED <<wire, user_id, topics, user_clients, rx, cast, casts, asked, arg, history>>

-----------------------------------------------------------------------------
\* Messages of a client: the session handles one and then acknowledges it.

\* The session takes the next message from the client, about x.
Takes(c, x, place) ==
  /\ session[c] = "loop" /\ wire[c] = "open"
  /\ asked[c] < MaxMessages
  /\ asked' = [asked EXCEPT ![c] = @ + 1]
  /\ arg' = [arg EXCEPT ![c] = x]
  /\ Goto(c, place)
  /\ UNCHANGED <<wire, clients, rx, cast, casts, got>>

\* Mutant of SubscribersWith: the topic is made anew.
SubscribersWithOnly(c, t) == [topics EXCEPT ![t] = {c}]

\* topics.entry(topic).or_default().insert(client_id)
SubscribersWith(c, t) == [topics EXCEPT ![t] = @ \cup {c}]

Subscribe(c, t) ==
  /\ Takes(c, t, "acknowledge")
  /\ topics' = SubscribersWith(c, t)
  /\ UNCHANGED <<user_id, user_clients, acked, proved>>

Unsubscribe(c, t) ==
  /\ Takes(c, NoUser, "acknowledge")
  /\ topics' = [topics EXCEPT ![t] = @ \ {c}]
  /\ acked' = [acked EXCEPT ![c] = @ \ {t}]
  /\ UNCHANGED <<user_id, user_clients, proved>>

\* Auth with a valid token of u, whomever the session was authenticated as
\* before; authenticate, first section.
Authenticate(c, u) ==
  /\ Takes(c, u, "authenticate")
  /\ user_id' = [user_id EXCEPT ![c] = u]
  /\ proved' = [proved EXCEPT ![c] = @ \cup {u}]
  /\ UNCHANGED <<topics, user_clients, acked>>

\* authenticate, second section.
AddToUser(c) ==
  /\ session[c] = "authenticate"
  /\ user_clients' = [user_clients EXCEPT ![arg[c]] = @ \cup {c}]
  /\ Goto(c, "acknowledge")
  /\ UNCHANGED <<wire, clients, user_id, topics, rx, cast, casts, asked, arg, history>>

\* Mutant of Refuse: the client is entered for the user its token names
\* before the token is verified.
RefuseLate(c, u) ==
  /\ Takes(c, NoUser, "acknowledge")
  /\ user_clients' = [user_clients EXCEPT ![u] = @ \cup {c}]
  /\ UNCHANGED <<user_id, topics, acked, proved>>

\* Malformed JSON, a ping, or a token (naming u) that is not valid: only a reply.
Refuse(c, u) ==
  /\ Takes(c, NoUser, "acknowledge")
  /\ UNCHANGED <<user_id, topics, user_clients, acked, proved>>

\* send_to_client.
Acknowledge(c) ==
  /\ session[c] = "acknowledge"
  /\ rx' = [rx EXCEPT ![c] = @ + 1]
  /\ acked' = [acked EXCEPT ![c] = @ \cup ({arg[c]} \ {NoUser})]
  /\ arg' = [arg EXCEPT ![c] = NoUser]
  /\ Goto(c, "loop")
  /\ UNCHANGED <<wire, hub, cast, casts, asked, proved, got>>

-----------------------------------------------------------------------------
\* The end of a session.

\* The client closes, or its connection breaks, or just ends.
HangUp(c) ==
  /\ wire[c] = "open"
  /\ \E w \in {"closed", "ended"} : wire' = [wire EXCEPT ![c] = w]
  /\ UNCHANGED <<session, hub, rx, cast, casts, asked, arg, history>>

\* The Close frame or the error is read.  (The end of the stream is no
\* message: select! takes it for a branch that does not apply.)
ReadClose(c) ==
  /\ session[c] = "loop" /\ wire[c] = "closed"
  /\ Goto(c, "unregister")
  /\ UNCHANGED <<wire, hub, rx, cast, casts, asked, arg, history>>

\* A payload is taken from the channel and sent; when the connection is not
\* open that may fail, which ends the session.
Deliver(c) ==
  /\ session[c] = "loop" /\ rx[c] > 0
  /\ rx' = [rx EXCEPT ![c] = @ - 1]
  /\ \/ UNCHANGED session
     \/ wire[c] # "open" /\ Goto(c, "unregister")
  /\ UNCHANGED <<wire, hub, cast, casts, asked, arg, history>>

\* unregister, its three sections; the third with the user_id of the first.
\* What is left in the channel is not read any more.
Unregister(c) ==
  /\ session[c] = "unregister"
  /\ clients' = clients \ {c}
  /\ rx' = [rx EXCEPT ![c] = 0]
  /\ acked' = [acked EXCEPT ![c] = {}]
  /\ Goto(c, "leave_topics")
  /\ UNCHANGED <<wire, user_id, topics, user_clients, cast, casts, asked, arg, proved, got>>

LeaveTopics(c) ==
  /\ session[c] = "leave_topics"
  /\ topics' = [t \in Topics |-> topics[t] \ {c}]
  /\ Goto(c, IF user_id[c] = NoUser THEN "gone" ELSE "leave_user")
  /\ UNCHANGED <<wire, clients, user_id, user_clients, rx, cast, casts, asked, arg, history>>

\* Mutant of LeaveUser: the user's set is left alone.
LeaveUserNot(c) ==
  /\ session[c] = "leave_user"
  /\ Goto(c, "gone")
  /\ UNCHANGED <<wire, hub, rx, cast, casts, asked, arg, history>>

LeaveUser(c) ==
  /\ session[c] = "leave_user"
  /\ user_clients' = [user_clients EXCEPT ![user_id[c]] = @ \ {c}]
  /\ Goto(c, "gone")
  /\ UNCHANGED <<wire, clients, user_id, topics, rx, cast, casts, asked, arg, history>>

-----------------------------------------------------------------------------
\* broadcast_topic and send_private, called by the stream listener one at a
\* time: the ids are copied under one lock, the sends happen under another.

Copy(x, ids) ==
  /\ cast = NoCast /\ casts < MaxBroadcasts
  /\ casts' = casts + 1
  /\ cast' = [to |-> x, ids |-> ids, due |-> {c \in Clients : x \in acked[c]}]
  /\ UNCHANGED <<session, wire, hub, rx, asked, arg, history>>

BroadcastTopic(t) == Copy(t, topics[t])
SendPrivate(u) == Copy(u, user_clients[u])

\* Those of the ids that are still registered get the payload.
SendAll ==
  LET here == cast.ids \cap clients
  IN  /\ cast # NoCast
      /\ rx' = [c \in Clients |-> IF c \in here THEN rx[c] + 1 ELSE rx[c]]
      /\ got' = [c \in Clients |-> IF c \in here THEN got[c] \cup {<<casts, cast.to>>}
                                   ELSE got[c]]
      /\ cast' = NoCast
      /\ UNCHANGED <<session, wire, hub, casts, asked, arg, acked, proved>>

Handle(c) ==
  \/ Register(c) \/ AddToUser(c) \/ Acknowledge(c) \/ ReadClose(c) \/ Deliver(c)
  \/ Unregister(c) \/ LeaveTopics(c) \/ LeaveUser(c)

Next ==
  \/ \E c \in Clients :
       \/ Handle(c) \/ HangUp(c)
       \/ \E t \in Topics : Subscribe(c, t) \/ Unsubscribe(c, t)
       \/ \E u \in Users : Authenticate(c, u) \/ Refuse(c, u)
  \/ \E t \in Topics : BroadcastTopic(t)
  \/ \E u \in Users : SendPrivate(u)
  \/ SendAll

Spec == Init /\ [][Next]_vars
-----------------------------------------------------------------------------
\* Properties.

\* A message for a user goes only to clients that showed a token of the user,
\* though the clients are copied under one lock and sent to under another.
OnlyToOwners ==
  \A c \in Clients : \A m \in got[c] : m[2] \in Users => m[2] \in proved[c]

\* When a session has unregistered, through three sections between which others
\* come and go, its client is registered no more, in no topic, and not with the
\* user it was authenticated as last.  It stays with the users whose tokens it
\* showed before that one: unregister knows only the user_id of the session, so
\* "removing all its topic subscriptions and user mappings" (hub.rs 42) goes too
\* far.
GoneIsClean ==
  \A c \in Clients : session[c] = "gone" =>
    /\ c \notin clients
    /\ \A t \in Topics : c \notin topics[t]
    /\ \A u \in Users : c \in user_clients[u] => u \in proved[c] \ {user_id[c]}

\* A client that was told it is subscribed, or authenticated, before a
\* broadcast began gets it, unless its session is at its end: what other
\* sessions do in between does not matter.
AckedGetsAll ==
  [][cast # NoCast /\ cast' = NoCast =>
       \A c \in cast.due : c \in clients => <<casts, cast.to>> \in got'[c]]_vars
=============================================================================
