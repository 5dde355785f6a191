---------------------------- MODULE WsHubProofs -----------------------------
(***************************************************************************)
(* Proofs about WsHub, for any number of clients, topics, users, messages  *)
(* and broadcasts.                                                         *)
(***************************************************************************)
EXTENDS WsHub, TLAPS

Places == {"new", "loop", "authenticate", "acknowledge", "unregister", "leave_topics",
           "leave_user", "gone"}

Names == Topics \cup Users \cup {NoUser}

\* The type of every variable.
HubType ==
  /\ session \in [Clients -> Places]
  /\ wire \in [Clients -> {"open", "closed", "ended"}]
  /\ clients \subseteq Clients
  /\ user_id \in [Clients -> Users \cup {NoUser}]
  /\ topics \in [Topics -> SUBSET Clients]
  /\ user_clients \in [Users -> SUBSET Clients]
  /\ rx \in [Clients -> Nat]
  /\ cast \in [to : Names, ids : SUBSET Clients, due : SUBSET Clients]
  /\ casts \in Nat
  /\ asked \in [Clients -> Nat]
  /\ arg \in [Clients -> Names]
  /\ acked \in [Clients -> SUBSET Names]
  /\ proved \in [Clients -> SUBSET Users]
  /\ got \in [Clients -> SUBSET (Nat \X Names)]

-----------------------------------------------------------------------------
\* Types.

LEMMA TypeInit == Init => HubType
BY DEF Init, HubType, NoCast, Places, Names

\* A message that a session takes.
LEMMA TakesType ==
  ASSUME HubType, NEW c \in Clients, NEW x \in Names, NEW place \in Places, Takes(c, x, place)
  PROVE  /\ session' \in [Clients -> Places] /\ wire' = wire
         /\ clients' = clients /\ rx' = rx /\ cast' = cast /\ casts' = casts /\ got' = got
         /\ asked' \in [Clients -> Nat] /\ arg' \in [Clients -> Names]
BY DEF HubType, Takes, Goto

LEMMA TypeStep == HubType /\ [Next]_vars => HubType'
<1> SUFFICES ASSUME HubType, [Next]_vars PROVE HubType'
  OBVIOUS
<1>1. ASSUME NEW c \in Clients, Handle(c) PROVE HubType'
  <2>1. CASE Register(c)
    BY <2>1 DEF Register, Goto, HubType, Places, history
  <2>2. CASE AddToUser(c)
    BY <2>2 DEF AddToUser, Goto, HubType, Places, history
  <2>3. CASE Acknowledge(c)
    <3>1. acked[c] \cup ({arg[c]} \ {NoUser}) \subseteq Names /\ NoUser \in Names
      BY DEF HubType, Names
    <3>2. acked' \in [Clients -> SUBSET Names] /\ arg' \in [Clients -> Names]
      BY <2>3, <3>1 DEF Acknowledge, HubType
    <3>3. rx' \in [Clients -> Nat] /\ session' \in [Clients -> Places]
      BY <2>3 DEF Acknowledge, Goto, HubType, Places
    <3> QED
      BY <2>3, <3>2, <3>3 DEF Acknowledge, HubType, hub
  <2>4. CASE ReadClose(c)
    BY <2>4 DEF ReadClose, Goto, HubType, Places, hub, history
  <2>5. CASE Deliver(c)
    <3>1. rx[c] - 1 \in Nat
      BY <2>5 DEF Deliver, HubType
    <3>2. rx' \in [Clients -> Nat] /\ session' \in [Clients -> Places]
      BY <2>5, <3>1 DEF Deliver, Goto, HubType, Places
    <3> QED
      BY <2>5, <3>2 DEF Deliver, HubType, hub, history
  <2>6. CASE Unregister(c)
    BY <2>6 DEF Unregister, Goto, HubType, Places
  <2>7. CASE LeaveTopics(c)
    <3>1. topics' \in [Topics -> SUBSET Clients] /\ session' \in [Clients -> Places]
      BY <2>7 DEF LeaveTopics, Goto, HubType, Places
    <3> QED
      BY <2>7, <3>1 DEF LeaveTopics, HubType, history
  <2>8. CASE LeaveUser(c)
    BY <2>8 DEF LeaveUser, Goto, HubType, Places, history
  <2> QED
    BY <1>1, <2>1, <2>2, <2>3, <2>4, <2>5, <2>6, <2>7, <2>8 DEF Handle
<1>2. ASSUME NEW c \in Clients, HangUp(c) PROVE HubType'
  BY <1>2 DEF HangUp, HubType, hub, history
<1>3. ASSUME NEW c \in Clients, NEW t \in Topics, Subscribe(c, t) PROVE HubType'
  <2>1. Takes(c, t, "acknowledge") /\ t \in Names /\ "acknowledge" \in Places
    BY <1>3 DEF Subscribe, Names, Places
  <2> QED
    BY <1>3, <2>1, TakesType DEF Subscribe, SubscribersWith, HubType
<1>4. ASSUME NEW c \in Clients, NEW t \in Topics, Unsubscribe(c, t) PROVE HubType'
  <2>1. Takes(c, NoUser, "acknowledge") /\ NoUser \in Names /\ "acknowledge" \in Places
    BY <1>4 DEF Unsubscribe, Names, Places
  <2> QED
    BY <1>4, <2>1, TakesType DEF Unsubscribe, HubType
<1>5. ASSUME NEW c \in Clients, NEW u \in Users, Authenticate(c, u) PROVE HubType'
  <2>1. Takes(c, u, "authenticate") /\ u \in Names /\ "authenticate" \in Places
    BY <1>5 DEF Authenticate, Names, Places
  <2> QED
    BY <1>5, <2>1, TakesType DEF Authenticate, HubType
<1>6. ASSUME NEW c \in Clients, NEW u \in Users, Refuse(c, u) PROVE HubType'
  <2>1. Takes(c, NoUser, "acknowledge") /\ NoUser \in Names /\ "acknowledge" \in Places
    BY <1>6 DEF Refuse, Names, Places
  <2> QED
    BY <1>6, <2>1, TakesType DEF Refuse, HubType
<1>7. ASSUME NEW x \in Names, NEW ids \in SUBSET Clients, Copy(x, ids) PROVE HubType'
  BY <1>7 DEF Copy, HubType, hub, history
<1>8. ASSUME NEW t \in Topics, BroadcastTopic(t) PROVE HubType'
  BY <1>7, <1>8 DEF BroadcastTopic, HubType, Names
<1>9. ASSUME NEW u \in Users, SendPrivate(u) PROVE HubType'
  BY <1>7, <1>9 DEF SendPrivate, HubType, Names
<1>10. CASE SendAll
  <2>1. rx' \in [Clients -> Nat]
    BY <1>10 DEF SendAll, HubType
  <2>2. <<casts, cast.to>> \in Nat \X Names
    BY DEF HubType
  <2>3. got' \in [Clients -> SUBSET (Nat \X Names)]
    BY <1>10, <2>2 DEF SendAll, HubType
  <2>4. cast' \in [to : Names, ids : SUBSET Clients, due : SUBSET Clients]
    BY <1>10 DEF SendAll, NoCast, Names
  <2> QED
    BY <1>10, <2>1, <2>3, <2>4 DEF SendAll, HubType, hub
<1>11. CASE UNCHANGED vars
  BY <1>11 DEF vars, HubType
<1> QED
  BY <1>1, <1>2, <1>3, <1>4, <1>5, <1>6, <1>8, <1>9, <1>10, <1>11 DEF Next

-----------------------------------------------------------------------------
\* Who gets what was meant for a user.

\* The clients in a user's set, in a message under way to the user or about
\* to enter the set have all shown a token of the user.
OwnersInv ==
  /\ \A u \in Users : \A c \in user_clients[u] : u \in proved[c]
  /\ \A c \in Clients : session[c] = "authenticate" => arg[c] \in proved[c]
  /\ cast.to \in Users => \A c \in cast.ids : cast.to \in proved[c]
  /\ OnlyToOwners

LEMMA OwnersStep == HubType /\ OwnersInv /\ [Next]_vars => OwnersInv'
<1> SUFFICES ASSUME HubType, OwnersInv, [Next]_vars PROVE OwnersInv'
  OBVIOUS
<1> USE DEF OwnersInv, OnlyToOwners
<1>1. ASSUME NEW c \in Clients, Handle(c) PROVE OwnersInv'
  <2>1. CASE Register(c)
    BY <2>1 DEF Register, Goto, HubType, history
  <2>2. CASE AddToUser(c)
    BY <2>2 DEF AddToUser, Goto, HubType, history
  <2>3. CASE Acknowledge(c)
    BY <2>3 DEF Acknowledge, Goto, HubType, hub
  <2>4. CASE ReadClose(c)
    BY <2>4 DEF ReadClose, Goto, HubType, hub, history
  <2>5. CASE Deliver(c)
    BY <2>5 DEF Deliver, Goto, HubType, hub, history
  <2>6. CASE Unregister(c)
    BY <2>6 DEF Unregister, Goto, HubType
  <2>7. CASE LeaveTopics(c)
    BY <2>7 DEF LeaveTopics, Goto, HubType, history
  <2>8. CASE LeaveUser(c)
    BY <2>8 DEF LeaveUser, Goto, HubType, history
  <2> QED
    BY <1>1, <2>1, <2>2, <2>3, <2>4, <2>5, <2>6, <2>7, <2>8 DEF Handle
<1>2. ASSUME NEW c \in Clients, HangUp(c) PROVE OwnersInv'
  BY <1>2 DEF HangUp, hub, history
<1>3. ASSUME NEW c \in Clients, NEW t \in Topics, Subscribe(c, t) \/ Unsubscribe(c, t)
      PROVE  OwnersInv'
  BY <1>3 DEF Subscribe, Unsubscribe, Takes, Goto, HubType
<1>4. ASSUME NEW c \in Clients, NEW u \in Users, Authenticate(c, u) PROVE OwnersInv'
  BY <1>4 DEF Authenticate, Takes, Goto, HubType
<1>5. ASSUME NEW c \in Clients, NEW u \in Users, Refuse(c, u) PROVE OwnersInv'
  BY <1>5 DEF Refuse, Takes, Goto, HubType
<1>6. ASSUME NEW t \in Topics, BroadcastTopic(t) PROVE OwnersInv'
  BY <1>6, UsersAssumption DEF BroadcastTopic, Copy, hub, history
<1>7. ASSUME NEW u \in Users, SendPrivate(u) PROVE OwnersInv'
  BY <1>7 DEF SendPrivate, Copy, hub, history
<1>8. CASE SendAll
  <2>1. ASSUME NEW c \in Clients, NEW m \in got'[c], m[2] \in Users PROVE m[2] \in proved[c]
    BY <1>8, <2>1 DEF SendAll, HubType
  <2> QED
    BY <1>8, <2>1, UsersAssumption DEF SendAll, NoCast, hub
<1>9. CASE UNCHANGED vars
  BY <1>9 DEF vars
<1> QED
  BY <1>1, <1>2, <1>3, <1>4, <1>5, <1>6, <1>7, <1>8, <1>9 DEF Next

\* A message for a user goes only to clients that showed a token of the user:
\* authenticate, send_private and the sections between which they let go of
\* the locks (hub.rs).
THEOREM PrivateMessagesOnlyToOwners == Spec => []OnlyToOwners
<1>1. Init => HubType /\ OwnersInv
  <2>1. Init => OwnersInv
    BY UsersAssumption DEF Init, NoCast, OwnersInv, OnlyToOwners
  <2> QED
    BY <2>1, TypeInit
<1>2. HubType /\ OwnersInv /\ [Next]_vars => (HubType /\ OwnersInv)'
  BY TypeStep, OwnersStep
<1>3. OwnersInv => OnlyToOwners
  BY DEF OwnersInv
<1> QED
  BY <1>1, <1>2, <1>3, PTL DEF Spec

-----------------------------------------------------------------------------
\* What a session leaves behind.

\* A client is in the sets of users whose tokens it showed, the last of which it
\* is authenticated as; and what each section of unregister has removed stays
\* removed.
CleanInv ==
  /\ \A u \in Users : \A c \in user_clients[u] : u \in proved[c]
  /\ \A c \in Clients : user_id[c] = NoUser => proved[c] = {}
  /\ \A c \in Clients : session[c] = "authenticate" => arg[c] = user_id[c] /\ arg[c] \in proved[c]
  /\ \A c \in Clients : session[c] \in {"leave_topics", "leave_user", "gone"} => c \notin clients
  /\ \A c \in Clients : session[c] \in {"leave_user", "gone"} => \A t \in Topics : c \notin topics[t]
  /\ \A c \in Clients : session[c] = "gone" =>
       \A u \in Users : c \in user_clients[u] => u # user_id[c]

LEMMA CleanStep == HubType /\ CleanInv /\ [Next]_vars => CleanInv'
<1> SUFFICES ASSUME HubType, CleanInv, [Next]_vars PROVE CleanInv'
  OBVIOUS
<1> USE DEF CleanInv
<1>1. ASSUME NEW c \in Clients, Handle(c) PROVE CleanInv'
  <2>1. CASE Register(c)
    BY <2>1 DEF Register, Goto, HubType, history
  <2>2. CASE AddToUser(c)
    BY <2>2 DEF AddToUser, Goto, HubType, history
  <2>3. CASE Acknowledge(c)
    BY <2>3 DEF Acknowledge, Goto, HubType, hub
  <2>4. CASE ReadClose(c)
    BY <2>4 DEF ReadClose, Goto, HubType, hub, history
  <2>5. CASE Deliver(c)
    BY <2>5 DEF Deliver, Goto, HubType, hub, history
  <2>6. CASE Unregister(c)
    BY <2>6 DEF Unregister, Goto, HubType
  <2>7. CASE LeaveTopics(c)
    <3>1. \A d \in Clients : session'[d] # session[d] => d = c
      BY <2>7 DEF LeaveTopics, Goto, HubType
    <3>2. user_id[c] = NoUser => \A u \in Users : c \notin user_clients[u]
      OBVIOUS
    <3>3. session'[c] \in {"leave_user", "gone"} /\ (session'[c] = "gone" => user_id[c] = NoUser)
      BY <2>7 DEF LeaveTopics, Goto, HubType
    <3>4. \A t \in Topics : topics'[t] = topics[t] \ {c}
      BY <2>7 DEF LeaveTopics
    <3>5. session[c] = "leave_topics" /\ UNCHANGED <<clients, user_id, user_clients, arg, proved>>
      BY <2>7 DEF LeaveTopics, history
    <3> QED
      BY <3>1, <3>2, <3>3, <3>4, <3>5
  <2>8. CASE LeaveUser(c)
    BY <2>8 DEF LeaveUser, Goto, HubType, history
  <2> QED
    BY <1>1, <2>1, <2>2, <2>3, <2>4, <2>5, <2>6, <2>7, <2>8 DEF Handle
<1>2. ASSUME NEW c \in Clients, HangUp(c) PROVE CleanInv'
  BY <1>2 DEF HangUp, hub, history
<1>3. ASSUME NEW c \in Clients, NEW t \in Topics, Subscribe(c, t) PROVE CleanInv'
  BY <1>3 DEF Subscribe, SubscribersWith, Takes, Goto, HubType
<1>4. ASSUME NEW c \in Clients, NEW t \in Topics, Unsubscribe(c, t) PROVE CleanInv'
  BY <1>4 DEF Unsubscribe, Takes, Goto, HubType
<1>5. ASSUME NEW c \in Clients, NEW u \in Users, Authenticate(c, u) PROVE CleanInv'
  <2>1. /\ session[c] = "loop" /\ session'[c] = "authenticate" /\ arg'[c] = u /\ user_id'[c] = u
        /\ UNCHANGED <<clients, topics, user_clients>> /\ proved'[c] = proved[c] \cup {u}
    BY <1>5 DEF Authenticate, Takes, Goto, HubType
  <2>2. ASSUME NEW d \in Clients, d # c
        PROVE  /\ session'[d] = session[d] /\ arg'[d] = arg[d] /\ user_id'[d] = user_id[d]
               /\ proved'[d] = proved[d]
    BY <1>5, <2>2 DEF Authenticate, Takes, Goto, HubType
  <2>3. \A v \in Users : \A d \in user_clients[v] : d \in Clients /\ v \in proved'[d]
    BY <2>1, <2>2 DEF HubType
  <2> QED
    BY <2>1, <2>2, <2>3, UsersAssumption
<1>6. ASSUME NEW c \in Clients, NEW u \in Users, Refuse(c, u) PROVE CleanInv'
  BY <1>6 DEF Refuse, Takes, Goto, HubType
<1>7. ASSUME NEW x, NEW ids, Copy(x, ids) PROVE CleanInv'
  BY <1>7 DEF Copy, hub, history
<1>8. CASE SendAll
  BY <1>8 DEF SendAll, hub
<1>9. CASE UNCHANGED vars
  BY <1>9 DEF vars
<1> QED
  BY <1>1, <1>2, <1>3, <1>4, <1>5, <1>6, <1>7, <1>8, <1>9 DEF Next, BroadcastTopic, SendPrivate

\* When a session has unregistered, its client is registered no more, in no
\* topic and not with the user it was authenticated as last, whatever it and
\* other sessions did before and in between, authenticating as several users
\* included (unregister and authenticate, hub.rs).
THEOREM UnregisteredIsClean == Spec => []GoneIsClean
<1>1. Init => HubType /\ CleanInv
  <2>1. Init => CleanInv
    BY DEF Init, CleanInv
  <2> QED
    BY <2>1, TypeInit
<1>2. HubType /\ CleanInv /\ [Next]_vars => (HubType /\ CleanInv)'
  BY TypeStep, CleanStep
<1>3. CleanInv => GoneIsClean
  BY DEF CleanInv, GoneIsClean
<1> QED
  BY <1>1, <1>2, <1>3, PTL DEF Spec

-----------------------------------------------------------------------------
\* Who is not left out of a broadcast.

\* What was or is about to be acknowledged to a client is in the maps, until
\* its session is over.
AckedOf(c) ==
  /\ \A t \in acked[c] \cap Topics : c \in topics[t]
  /\ \A u \in acked[c] \cap Users : c \in user_clients[u]
  /\ session[c] = "acknowledge" /\ arg[c] \in Topics => c \in topics[arg[c]]
  /\ session[c] = "acknowledge" /\ arg[c] \in Users => c \in user_clients[arg[c]]
  /\ session[c] \in {"leave_topics", "leave_user", "gone"} => acked[c] = {}
  /\ session[c] = "authenticate" => arg[c] \in Users

\* And a broadcast goes to all it is due to.
AckedInv ==
  /\ \A c \in Clients : AckedOf(c)
  /\ cast.due \subseteq cast.ids

\* A step that takes a client from no map and leaves its session alone.
LEMMA AckedFrame ==
  ASSUME NEW d \in Clients, AckedOf(d),
         session'[d] = session[d], arg'[d] = arg[d], acked'[d] = acked[d],
         \A t \in Topics : d \in topics[t] => d \in topics'[t],
         \A u \in Users : d \in user_clients[u] => d \in user_clients'[u]
  PROVE  AckedOf(d)'
BY DEF AckedOf

\* A step of one session.
LEMMA AckedSession ==
  ASSUME HubType, AckedInv, NEW c \in Clients,
         Handle(c) \/ HangUp(c) \/ (\E t \in Topics : Subscribe(c, t) \/ Unsubscribe(c, t))
           \/ (\E u \in Users : Authenticate(c, u) \/ Refuse(c, u))
  PROVE  AckedInv'
<1>1. cast' = cast
  BY DEF Handle, Register, AddToUser, Acknowledge, ReadClose, Deliver, Unregister, LeaveTopics,
         LeaveUser, HangUp, Subscribe, Unsubscribe, Authenticate, Refuse, Takes
<1>2. ASSUME NEW d \in Clients, d # c PROVE AckedOf(d)'
  <2>1. session'[d] = session[d] /\ arg'[d] = arg[d] /\ acked'[d] = acked[d]
    <3>1. ASSUME NEW place, Goto(c, place) PROVE session'[d] = session[d]
      BY <1>2, <3>1 DEF Goto, HubType
    <3>2. session'[d] = session[d]
      BY <3>1 DEF Handle, Register, AddToUser, Acknowledge, ReadClose, Deliver, Unregister,
         LeaveTopics, LeaveUser, HangUp, Subscribe, Unsubscribe, Authenticate, Refuse, Takes
    <3>3. arg'[d] = arg[d]
      BY <1>2 DEF Handle, Register, AddToUser, Acknowledge, ReadClose, Deliver, Unregister,
         LeaveTopics, LeaveUser, HangUp, Subscribe, Unsubscribe, Authenticate, Refuse, Takes, HubType
    <3>4. acked'[d] = acked[d]
      BY <1>2 DEF Handle, Register, AddToUser, Acknowledge, ReadClose, Deliver, Unregister,
         LeaveTopics, LeaveUser, HangUp, Subscribe, Unsubscribe, Authenticate, Refuse, Takes,
         history, HubType
    <3> QED
      BY <3>2, <3>3, <3>4
  <2>2. \A t \in Topics : d \in topics[t] => d \in topics'[t]
    BY <1>2 DEF Handle, Register, AddToUser, Acknowledge, ReadClose, Deliver, Unregister,
       LeaveTopics, LeaveUser, HangUp, Subscribe, Unsubscribe, Authenticate, Refuse,
       SubscribersWith, hub, HubType
  <2>3. \A u \in Users : d \in user_clients[u] => d \in user_clients'[u]
    BY <1>2 DEF Handle, Register, AddToUser, Acknowledge, ReadClose, Deliver, Unregister,
       LeaveTopics, LeaveUser, HangUp, Subscribe, Unsubscribe, Authenticate, Refuse, hub, HubType
  <2> QED
    BY <2>1, <2>2, <2>3, AckedFrame DEF AckedInv
<1>3. AckedOf(c)'
  <2> USE DEF AckedOf, HubType
  <2>1. AckedOf(c)
    BY DEF AckedInv
  <2>2. CASE Register(c)
    BY <2>1, <2>2 DEF Register, Goto, history
  <2>3. CASE AddToUser(c)
    BY <2>1, <2>3, UsersAssumption DEF AddToUser, Goto, history
  <2>4. CASE Acknowledge(c)
    BY <2>1, <2>4 DEF Acknowledge, Goto, hub
  <2>5. CASE ReadClose(c)
    BY <2>1, <2>5 DEF ReadClose, Goto, hub, history
  <2>6. CASE Deliver(c)
    BY <2>1, <2>6 DEF Deliver, Goto, hub, history
  <2>7. CASE Unregister(c)
    BY <2>1, <2>7 DEF Unregister, Goto
  <2>8. CASE LeaveTopics(c)
    BY <2>1, <2>8 DEF LeaveTopics, Goto, history
  <2>9. CASE LeaveUser(c)
    BY <2>1, <2>9 DEF LeaveUser, Goto, history
  <2>10. CASE HangUp(c)
    BY <2>1, <2>10 DEF HangUp, hub, history
  <2>11. ASSUME NEW t \in Topics, Subscribe(c, t) PROVE AckedOf(c)'
    BY <2>1, <2>11, UsersAssumption DEF Subscribe, SubscribersWith, Takes, Goto
  <2>12. ASSUME NEW t \in Topics, Unsubscribe(c, t) PROVE AckedOf(c)'
    BY <2>1, <2>12, UsersAssumption DEF Unsubscribe, Takes, Goto
  <2>13. ASSUME NEW u \in Users, Authenticate(c, u) PROVE AckedOf(c)'
    BY <2>1, <2>13 DEF Authenticate, Takes, Goto
  <2>14. ASSUME NEW u \in Users, Refuse(c, u) PROVE AckedOf(c)'
    BY <2>1, <2>14, UsersAssumption DEF Refuse, Takes, Goto
  <2> HIDE DEF AckedOf, HubType
  <2> QED
    BY <2>2, <2>3, <2>4, <2>5, <2>6, <2>7, <2>8, <2>9, <2>10, <2>11, <2>12, <2>13, <2>14 DEF Handle
<1> QED
  BY <1>1, <1>2, <1>3 DEF AckedInv

LEMMA AckedStep == HubType /\ AckedInv /\ [Next]_vars => AckedInv'
<1> SUFFICES ASSUME HubType, AckedInv, [Next]_vars PROVE AckedInv'
  OBVIOUS
<1>1. ASSUME UNCHANGED <<session, arg, acked, topics, user_clients>> PROVE (\A c \in Clients : AckedOf(c))'
  BY <1>1 DEF AckedInv, AckedOf
<1>2. ASSUME NEW t \in Topics, BroadcastTopic(t) PROVE AckedInv'
  <2>1. \A c \in Clients : t \in acked[c] => c \in topics[t]
    BY DEF AckedInv, AckedOf
  <2> QED
    BY <1>1, <1>2, <2>1 DEF AckedInv, BroadcastTopic, Copy, hub, history
<1>3. ASSUME NEW u \in Users, SendPrivate(u) PROVE AckedInv'
  <2>1. \A c \in Clients : u \in acked[c] => c \in user_clients[u]
    BY DEF AckedInv, AckedOf
  <2> QED
    BY <1>1, <1>3, <2>1 DEF AckedInv, SendPrivate, Copy, hub, history
<1>4. CASE SendAll
  BY <1>1, <1>4 DEF AckedInv, SendAll, NoCast, hub
<1>5. CASE UNCHANGED vars
  BY <1>1, <1>5 DEF AckedInv, vars
<1> QED
  BY <1>2, <1>3, <1>4, <1>5, AckedSession DEF Next

\* A client that was told it is subscribed or authenticated before a
\* broadcast began gets it, unless its session is at its end, whatever other
\* sessions do between the copy of the ids and the sends (broadcast_topic and
\* send_private, hub.rs).
THEOREM AcknowledgedGetAll == Spec => AckedGetsAll
<1>1. Init => HubType /\ AckedInv
  <2>1. Init => AckedInv
    BY DEF Init, AckedInv, AckedOf, NoCast
  <2> QED
    BY <2>1, TypeInit
<1>2. HubType /\ AckedInv /\ [Next]_vars => (HubType /\ AckedInv)'
  BY TypeStep, AckedStep
<1>3. HubType /\ AckedInv /\ [Next]_vars =>
        [cast # NoCast /\ cast' = NoCast =>
           \A c \in cast.due : c \in clients => <<casts, cast.to>> \in got'[c]]_vars
  <2> SUFFICES ASSUME HubType, AckedInv, Next, cast # NoCast, cast' = NoCast,
                      NEW c \in cast.due, c \in clients
               PROVE  <<casts, cast.to>> \in got'[c]
    OBVIOUS
  <2>1. ASSUME cast' = cast PROVE FALSE
    BY <2>1
  <2>2. ASSUME NEW x, NEW ids, Copy(x, ids) PROVE FALSE
    BY <2>2 DEF Copy
  <2>3. SendAll
    BY <2>1, <2>2 DEF Next, Handle, Register, AddToUser, Acknowledge, ReadClose, Deliver,
       Unregister, LeaveTopics, LeaveUser, HangUp, Subscribe, Unsubscribe, Authenticate,
       Refuse, Takes, BroadcastTopic, SendPrivate
  <2>4. c \in Clients /\ c \in cast.ids \cap clients
    BY DEF HubType, AckedInv
  <2> QED
    BY <2>3, <2>4 DEF SendAll
<1> QED
  BY <1>1, <1>2, <1>3, PTL DEF Spec, AckedGetsAll
=============================================================================
