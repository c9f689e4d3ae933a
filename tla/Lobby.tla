------------------------------- MODULE Lobby -------------------------------
(***************************************************************************)
(* The meeting point of the server: Lobby.cpp with its list of users       *)
(* (Users.cpp) and its pools of identifiers (UniqueId.cpp), driven by the  *)
(* sessions of the connected peers (PeerSession in Server.cpp).            *)
(*                                                                         *)
(* AddUser, RemoveUser and Deliver hold the lobby's mutex, and a session   *)
(* handles one packet at a time: an action is the handler of one packet or *)
(* of the end of a connection.  A request that only produces a reply (an   *)
(* error, a chat message, a request for a table that forwards it) changes  *)
(* nothing here and is not an action; of a table only the seats are kept,  *)
(* the rest is in PlayingTable.                                            *)
(***************************************************************************)
EXTENDS Naturals, FiniteSets

CONSTANTS
  Peers,           \* connections that may be opened, each once
  NoPeer,          \* no session is recorded for an identifier
  Nicknames,
  USERS_UID,       \* Protocol::USERS_UID: first identifier of a user
  MAXIMUM_USERS,   \* Protocol::MAXIMUM_USERS
  TABLES_UID,      \* Protocol::TABLES_UID: first identifier of a table
  NbTables,        \* tables created when the server starts
  NbPlayers,       \* seats of a table
  Uids,            \* identifiers that the header of a packet may name
  ClientFaults     \* what the clients may do wrong

INVALID_UID == 0
LOBBY_UID   == 1
NOWHERE     == NbPlayers

\* UniqueId::UniqueId: the identifiers of a pool made with these parameters.
IdRange(min, max) ==
  LET lo == IF min = 0 THEN 1 ELSE min
      hi == IF max <= lo THEN lo + 1 ELSE max
  IN  lo..hi

UserIds == IdRange(USERS_UID, MAXIMUM_USERS)
Tables  == TABLES_UID..(TABLES_UID + NbTables - 1)
Places  == 0..(NbPlayers - 1)

ASSUME LobbyAssumption ==
  /\ NoPeer \notin Peers
  /\ USERS_UID \in Nat /\ MAXIMUM_USERS \in Nat
  /\ TABLES_UID \in Nat /\ NbTables \in Nat /\ NbPlayers \in Nat
  /\ LOBBY_UID < USERS_UID /\ LOBBY_UID < TABLES_UID
  /\ MAXIMUM_USERS < TABLES_UID /\ USERS_UID + 1 < TABLES_UID
  /\ UserIds \cup {INVALID_UID} \subseteq Uids
  /\ ClientFaults \subseteq {"EarlyJoin", "BadPacket", "QuitLobby", "OtherSender"}

VARIABLES
  session,   \* the session of each peer
  uid,       \* PeerSession::uuid
  userIds,   \* mUserIds: identifiers in use
  peers,     \* mPeers: the session recorded for an identifier
  users,     \* mUsers: entries of the users who have logged in
  seats      \* mPlayers[i].uuid of each table

lobbyVars == <<session, uid, userIds, peers, users, seats>>

\* "none"       not connected yet
\* "pending"    connected, mIsPending
\* "accepted"   the pass phrase was right
\* "closed"     the end of the connection was read, nothing is read any more
\* "lost"       the connection failed inside a packet, nothing is read any more
\* "destroyed"  the object was destroyed while its next read was under way
SessionStates == {"none", "pending", "accepted", "closed", "lost", "destroyed"}

Entries ==
  [uuid : UserIds, table : Tables \cup {LOBBY_UID, INVALID_UID},
   place : Places \cup {NOWHERE}, nick : Nicknames]

-----------------------------------------------------------------------------
(* UniqueId *)

\* UniqueId::TakeId: u is the lowest identifier that is not in use, or the
\* invalid one when there is none.
TakesId(u) ==
  LET free == UserIds \ userIds
  IN  IF free = {} THEN u = INVALID_UID
                   ELSE u \in free /\ \A v \in free : u <= v

-----------------------------------------------------------------------------
(* Users *)

\* Users::IsHere.
IsHere(u) == \E e \in users : e.uuid = u

\* Users::GetPlayerTable: a user who is not listed is in the lobby.
GetPlayerTable(u) ==
  IF IsHere(u) THEN (CHOOSE e \in users : e.uuid = u).table ELSE LOBBY_UID

\* Users::CheckNickName: somebody else has this nickname.
CheckNickName(u, nick) == \E e \in users : e.uuid # u /\ e.nick = nick

\* Users::SetPlayingTable.
SetPlayingTable(u, t, place) ==
  {IF e.uuid = u THEN [e EXCEPT !.table = t, !.place = place] ELSE e : e \in users}

\* Users::Remove.
Remove(u) == {e \in users : e.uuid # u}

-----------------------------------------------------------------------------
(* The sessions and Lobby::AddUser, Lobby::RemoveUser. *)

\* An object that nothing refers to any more is destroyed: mPeers holds the
\* only lasting reference to a session.
Dropped(s) == IF s \in {"pending", "accepted"} THEN "destroyed" ELSE s

\* Faulty variant of AddUser: std::map::insert, which keeps the session that
\* is recorded already.
AddUserInsert(p) ==
  /\ session[p] = "none"
  /\ \E u \in UserIds \cup {INVALID_UID} :
       /\ TakesId(u)
       /\ userIds' = userIds \cup ({u} \ {INVALID_UID})
       /\ uid' = [uid EXCEPT ![p] = u]
       /\ peers' = [peers EXCEPT ![u] = IF @ = NoPeer THEN p ELSE @]
       /\ session' = [session EXCEPT ![p] = "pending"]
  /\ UNCHANGED <<users, seats>>

\* Server::Accept, PeerSession::Start, Lobby::AddUser.  The session recorded
\* for the same identifier before is dropped.
AddUser(p) ==
  /\ session[p] = "none"
  /\ \E u \in UserIds \cup {INVALID_UID} :
       /\ TakesId(u)
       /\ userIds' = userIds \cup ({u} \ {INVALID_UID})
       /\ uid' = [uid EXCEPT ![p] = u]
       /\ peers' = [peers EXCEPT ![u] = p]
       /\ session' = [q \in Peers |-> IF q = p THEN "pending"
                                      ELSE IF q = peers[u] THEN Dropped(session[q])
                                      ELSE session[q]]
  /\ UNCHANGED <<users, seats>>

\* PlayingTable::RemovePlayer, the seats.
Unseat(u, t) ==
  [s \in Tables |-> IF s = t THEN [i \in Places |-> IF seats[s][i] = u THEN INVALID_UID
                                                                       ELSE seats[s][i]]
                             ELSE seats[s]]

\* Faulty variants of RemoveUser: the user stays in the list, or at his table.
RemoveUserKeepsEntry(u) ==
  /\ seats' = IF GetPlayerTable(u) # LOBBY_UID THEN Unseat(u, GetPlayerTable(u)) ELSE seats
  /\ users' = SetPlayingTable(u, INVALID_UID, NOWHERE)
  /\ userIds' = userIds \ {u}
  /\ UNCHANGED peers

RemoveUserKeepsSeat(u) ==
  /\ users' = Remove(u)
  /\ userIds' = userIds \ {u}
  /\ UNCHANGED <<peers, seats>>

\* Lobby::RemoveUser.  The session stays in mPeers.
RemoveUser(u) ==
  /\ seats' = IF GetPlayerTable(u) # LOBBY_UID THEN Unseat(u, GetPlayerTable(u)) ELSE seats
  /\ users' = Remove(u)
  /\ userIds' = userIds \ {u}
  /\ UNCHANGED peers

\* PeerSession::ReadHeader reads the end of the connection.
Disconnect(p) ==
  /\ session[p] \in {"pending", "accepted"}
  /\ RemoveUser(uid[p])
  /\ session' = [session EXCEPT ![p] = "closed"]
  /\ UNCHANGED uid

\* PeerSession::ReadBody fails: the user is not removed, nothing is read again.
LoseBody(p) ==
  /\ session[p] \in {"pending", "accepted"}
  /\ session' = [session EXCEPT ![p] = "lost"]
  /\ UNCHANGED <<uid, userIds, peers, users, seats>>

\* PeerSession::HandleBody with the right pass phrase.
PassPhrase(p) ==
  /\ session[p] = "pending"
  /\ session' = [session EXCEPT ![p] = "accepted"]
  /\ UNCHANGED <<uid, userIds, peers, users, seats>>

\* PeerSession::HandleBody with a packet that cannot be decrypted or a wrong
\* pass phrase.  The user is removed and the session goes on reading.
BadPacket(p) ==
  /\ session[p] = "pending" \/ (session[p] = "accepted" /\ "BadPacket" \in ClientFaults)
  /\ RemoveUser(uid[p])
  /\ UNCHANGED <<session, uid>>

-----------------------------------------------------------------------------
(* Lobby::Deliver: the requests of a peer.                                 *)

\* PeerSession::HandleBody takes the sender of a request from the header of
\* its packet and does not compare it with the identifier of the session.  A
\* client that follows the protocol puts the identifier there that
\* "RequestLogin" gave it.
Sends(p, u) ==
  /\ session[p] = "accepted"
  /\ u = uid[p] \/ "OtherSender" \in ClientFaults

\* Faulty variant of ReplyLogin: the identifier is not looked up in the pool.
ReplyLoginAnyId(p, u, nick) ==
  /\ Sends(p, u)
  /\ ~IsHere(u)
  /\ ~CheckNickName(u, nick)
  /\ users' = users \cup {[uuid |-> u, table |-> LOBBY_UID,
                           place |-> NOWHERE, nick |-> nick]}
  /\ UNCHANGED <<session, uid, userIds, peers, seats>>

\* "ReplyLogin", Users::AddEntry.
ReplyLogin(p, u, nick) ==
  /\ Sends(p, u)
  /\ u \in userIds
  /\ ~IsHere(u)
  /\ ~CheckNickName(u, nick)
  /\ users' = users \cup {[uuid |-> u, table |-> LOBBY_UID,
                           place |-> NOWHERE, nick |-> nick]}
  /\ UNCHANGED <<session, uid, userIds, peers, seats>>

\* PlayingTable::AddPlayer: i is the first free seat of table t, where u does
\* not sit yet.
FreeSeat(u, t, i) ==
  /\ \A j \in Places : seats[t][j] # u
  /\ seats[t][i] = INVALID_UID
  /\ \A j \in Places : seats[t][j] = INVALID_UID => i <= j

\* A client that follows the protocol asks for a table after it was granted
\* access.  It is then listed, unless one of its packets has been refused in
\* the meantime, which the server does not tell.
UnlistedJoin(p, u) ==
  "EarlyJoin" \in ClientFaults \/ "BadPacket" \in ClientFaults \/ u # uid[p]

\* "RequestJoinTable".  The lobby does not check that the sender is listed.
RequestJoinTable(p, u, t) ==
  /\ Sends(p, u)
  /\ IsHere(u) \/ UnlistedJoin(p, u)
  /\ GetPlayerTable(u) = LOBBY_UID
  /\ \E i \in Places :
       /\ FreeSeat(u, t, i)
       /\ seats' = [seats EXCEPT ![t][i] = u]
       /\ users' = SetPlayingTable(u, t, i)
  /\ UNCHANGED <<session, uid, userIds, peers>>

\* Faulty variant of RequestQuitTable: the entry of the user is not refreshed.
QuitTableKeepsEntry(p, u, t) ==
  /\ Sends(p, u)
  /\ GetPlayerTable(u) = t
  /\ seats' = Unseat(u, t)
  /\ UNCHANGED <<session, uid, userIds, peers, users>>

\* "RequestQuitTable", Lobby::RemovePlayerFromTable.
RequestQuitTable(p, u, t) ==
  /\ Sends(p, u)
  /\ GetPlayerTable(u) = t
  /\ seats' = Unseat(u, t)
  /\ users' = SetPlayingTable(u, INVALID_UID, NOWHERE)
  /\ UNCHANGED <<session, uid, userIds, peers>>

\* Faulty variant of RequestChangeNickname: the nickname is not checked.
ChangeNicknameUnchecked(p, u, nick) ==
  /\ Sends(p, u)
  /\ users' = {IF e.uuid = u THEN [e EXCEPT !.nick = nick] ELSE e : e \in users}
  /\ UNCHANGED <<session, uid, userIds, peers, seats>>

\* "RequestChangeNickname", Users::ChangeNickName.
RequestChangeNickname(p, u, nick) ==
  /\ Sends(p, u)
  /\ ~CheckNickName(u, nick)
  /\ users' = {IF e.uuid = u THEN [e EXCEPT !.nick = nick] ELSE e : e \in users}
  /\ UNCHANGED <<session, uid, userIds, peers, seats>>

-----------------------------------------------------------------------------

LobbyInit ==
  /\ session = [p \in Peers |-> "none"]
  /\ uid = [p \in Peers |-> INVALID_UID]
  /\ userIds = {}
  /\ peers = [u \in UserIds \cup {INVALID_UID} |-> NoPeer]
  /\ users = {}
  /\ seats = [t \in Tables |-> [i \in Places |-> INVALID_UID]]

\* Tables that the clients ask to quit.
QuitTargets ==
  Tables \cup (IF "QuitLobby" \in ClientFaults THEN {LOBBY_UID, INVALID_UID} ELSE {})

LobbyNext ==
  \E p \in Peers :
    \/ AddUser(p)
    \/ PassPhrase(p)
    \/ BadPacket(p)
    \/ Disconnect(p)
    \/ LoseBody(p)
    \/ \E u \in Uids :
         \/ \E nick \in Nicknames : ReplyLogin(p, u, nick) \/ RequestChangeNickname(p, u, nick)
         \/ \E t \in Tables : RequestJoinTable(p, u, t)
         \/ \E t \in QuitTargets : RequestQuitTable(p, u, t)

LobbySpec == LobbyInit /\ [][LobbyNext]_lobbyVars

=============================================================================
