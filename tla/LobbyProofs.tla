---------------------------- MODULE LobbyProofs ----------------------------
(***************************************************************************)
(* The safety invariants of the lobby, for any number of peers,            *)
(* identifiers, tables and seats.  LobbyInv is inductive: who may read a   *)
(* connection (SessionOwner) decides where mail goes, and one entry per    *)
(* user makes the entries agree with the seats.  It holds whomever the     *)
(* clients name as the sender; what the owner of an identifier has done    *)
(* and where the others sit takes the history variables.                   *)
(***************************************************************************)
EXTENDS LobbyProperties, TLAPS

\* The identifiers of users are neither the invalid one nor the lobby's, and
\* neither are those of tables.
LEMMA Identifiers ==
  /\ INVALID_UID \notin UserIds
  /\ LOBBY_UID \notin Tables /\ INVALID_UID \notin Tables
  /\ Places \subseteq Nat
  /\ UserIds \subseteq Uids /\ INVALID_UID \in Uids
BY LobbyAssumption DEF UserIds, IdRange, Tables, Places, INVALID_UID, LOBBY_UID

\* The table of a listed user is the table of his only entry.
LEMMA TableOfEntry ==
  ASSUME UniqueEntries, NEW e \in users
  PROVE  GetPlayerTable(e.uuid) = e.table
<1>1. IsHere(e.uuid)
  BY DEF IsHere
<1>2. \A f \in users : f.uuid = e.uuid => f = e
  BY DEF UniqueEntries
<1>3. (CHOOSE f \in users : f.uuid = e.uuid) = e
  BY <1>2
<1> QED
  BY <1>1, <1>3 DEF GetPlayerTable

\* SetPlayingTable and Remove act on the entry of one user.
LEMMA EntriesAfter ==
  ASSUME LobbyInv, NEW u, NEW t \in Tables \cup {LOBBY_UID, INVALID_UID},
         NEW i \in Places \cup {NOWHERE}
  PROVE  /\ SetPlayingTable(u, t, i) \subseteq Entries
         /\ \A f \in SetPlayingTable(u, t, i) :
              \E e \in users : /\ f.uuid = e.uuid /\ f.nick = e.nick
                               /\ e.uuid = u => f.table = t /\ f.place = i
                               /\ e.uuid # u => f = e
<1>1. users \subseteq Entries
  BY DEF LobbyInv, LobbyTypeOK
<1>2. ASSUME NEW f \in SetPlayingTable(u, t, i)
      PROVE  /\ f \in Entries
             /\ \E e \in users : /\ f.uuid = e.uuid /\ f.nick = e.nick
                                 /\ e.uuid = u => f.table = t /\ f.place = i
                                 /\ e.uuid # u => f = e
  <2>1. PICK e \in users :
          f = IF e.uuid = u THEN [e EXCEPT !.table = t, !.place = i] ELSE e
    BY DEF SetPlayingTable
  <2>2. e \in Entries
    BY <1>1
  <2> QED
    BY <2>1, <2>2 DEF Entries
<1> QED
  BY <1>2

\* A user has at most one entry after SetPlayingTable too.
LEMMA EntriesUnique ==
  ASSUME LobbyInv, NEW u, NEW t \in Tables \cup {LOBBY_UID, INVALID_UID},
         NEW i \in Places \cup {NOWHERE},
         NEW f \in SetPlayingTable(u, t, i), NEW g \in SetPlayingTable(u, t, i), f # g
  PROVE  f.uuid # g.uuid /\ f.nick # g.nick
<1>1. PICK e \in users :
        f = IF e.uuid = u THEN [e EXCEPT !.table = t, !.place = i] ELSE e
  BY DEF SetPlayingTable
<1>2. PICK d \in users :
        g = IF d.uuid = u THEN [d EXCEPT !.table = t, !.place = i] ELSE d
  BY DEF SetPlayingTable
<1>3. e # d
  BY <1>1, <1>2
<1>4. e.uuid # d.uuid /\ e.nick # d.nick
  BY <1>3 DEF LobbyInv, UniqueEntries
<1>5. e \in Entries /\ d \in Entries
  BY DEF LobbyInv, LobbyTypeOK
<1> QED
  BY <1>1, <1>2, <1>4, <1>5 DEF Entries

\* Lobby::AddUser keeps the invariant: the session it records has never been
\* recorded, and the one it replaces had the same identifier.
LEMMA AddUserStep ==
  ASSUME LobbyInv, NEW p \in Peers, AddUser(p)
  PROVE  LobbyInv'
<1>1. PICK u \in UserIds \cup {INVALID_UID} :
        /\ TakesId(u)
        /\ userIds' = userIds \cup ({u} \ {INVALID_UID})
        /\ uid' = [uid EXCEPT ![p] = u]
        /\ peers' = [peers EXCEPT ![u] = p]
        /\ session' = [q \in Peers |-> IF q = p THEN "pending"
                                       ELSE IF q = peers[u] THEN Dropped(session[q])
                                       ELSE session[q]]
  BY DEF AddUser
<1>2. users' = users /\ seats' = seats /\ session[p] = "none"
  BY DEF AddUser
<1>3. u \notin userIds
  BY <1>1, Identifiers DEF TakesId, LobbyInv, LobbyTypeOK
<1>4. /\ session \in [Peers -> SessionStates] /\ uid \in [Peers -> UserIds \cup {INVALID_UID}]
      /\ userIds \subseteq UserIds
      /\ peers \in [UserIds \cup {INVALID_UID} -> Peers \cup {NoPeer}]
  BY DEF LobbyInv, LobbyTypeOK
<1>5. \A q \in Peers : /\ q # p => uid'[q] = uid[q]
                       /\ q # p /\ q # peers[u] => session'[q] = session[q]
                       /\ q # p /\ q = peers[u] => session'[q] = Dropped(session[q])
  BY <1>1, <1>4
<1>6. uid'[p] = u /\ session'[p] = "pending" /\ peers'[u] = p
  BY <1>1, <1>4
<1>7. \A v \in UserIds \cup {INVALID_UID} : v # u => peers'[v] = peers[v]
  BY <1>1, <1>4
<1>8. \A v \in UserIds \cup {INVALID_UID} :
        peers[v] # NoPeer => /\ peers[v] \in Peers /\ peers[v] # p
                             /\ uid[peers[v]] = v
                             /\ v # u => peers[v] # peers[u]
  BY <1>2, <1>4, LobbyAssumption DEF LobbyInv, SessionOwner
<1>9. LobbyTypeOK'
  <2>1. \A q \in Peers : Dropped(session[q]) \in SessionStates
    BY <1>4 DEF Dropped, SessionStates
  <2>2. session' \in [Peers -> SessionStates]
    BY <1>1, <1>4, <2>1 DEF SessionStates
  <2> QED
    BY <1>1, <1>2, <1>4, <2>2 DEF LobbyInv, LobbyTypeOK
<1>10. SessionOwner'
  <2>1. ASSUME NEW v \in UserIds \cup {INVALID_UID}, peers'[v] # NoPeer
        PROVE  uid'[peers'[v]] = v /\ session'[peers'[v]] # "none"
    <3>1. CASE v = u
      BY <1>6, <3>1
    <3>2. CASE v # u
      <4>1. session[peers[v]] # "none"
        BY <1>7, <2>1, <3>2 DEF LobbyInv, SessionOwner
      <4> QED
        BY <1>5, <1>7, <1>8, <2>1, <3>2, <4>1
    <3> QED
      BY <3>1, <3>2
  <2>2. ASSUME NEW q \in Peers, session'[q] \in {"pending", "accepted"}
        PROVE  peers'[uid'[q]] = q
    <3>1. CASE q = p
      BY <1>6, <3>1
    <3>2. CASE q # p
      <4>1. q # peers[u] /\ session[q] \in {"pending", "accepted"}
        BY <1>5, <2>2, <3>2 DEF Dropped
      <4>2. peers[uid[q]] = q /\ uid[q] \in UserIds \cup {INVALID_UID}
        BY <1>4, <4>1 DEF LobbyInv, SessionOwner
      <4> QED
        BY <1>5, <1>7, <3>2, <4>1, <4>2
    <3> QED
      BY <3>1, <3>2
  <2> QED
    BY <2>1, <2>2 DEF SessionOwner
<1>11. ASSUME NEW v \in userIds
       PROVE  v # u /\ peers'[v] = peers[v] /\ session'[peers[v]] = session[peers[v]]
              /\ uid'[peers[v]] = uid[peers[v]] /\ peers[v] # NoPeer
  <2>1. v # u /\ v \in UserIds \cup {INVALID_UID} /\ peers[v] # NoPeer
    BY <1>3, <1>4 DEF LobbyInv, MailToOwner
  <2> QED
    BY <1>5, <1>7, <1>8, <2>1
<1>12. MailToOwner'
  <2> SUFFICES ASSUME NEW v \in userIds'
               PROVE  /\ peers'[v] # NoPeer /\ uid'[peers'[v]] = v
                      /\ session'[peers'[v]] \in {"pending", "accepted", "lost"}
    BY DEF MailToOwner
  <2>1. CASE v = u
    BY <1>6, <2>1, LobbyAssumption
  <2>2. CASE v \in userIds
    BY <1>11, <2>2 DEF LobbyInv, MailToOwner
  <2> QED
    BY <1>1, <2>1, <2>2
<1>13. EntriesInUse'
  BY <1>1, <1>2, <1>11 DEF LobbyInv, EntriesInUse
<1>14. UniqueEntries' /\ EntrySeat'
  BY <1>2 DEF LobbyInv, UniqueEntries, EntrySeat
<1> QED
  BY <1>9, <1>10, <1>12, <1>13, <1>14 DEF LobbyInv

\* Unseat clears the seats of one user at one table and no other.
LEMMA UnseatSeats ==
  ASSUME LobbyInv, NEW u, NEW t
  PROVE  /\ Unseat(u, t) \in [Tables -> [Places -> Uids]]
         /\ \A s \in Tables, i \in Places :
              Unseat(u, t)[s][i] = IF s = t /\ seats[s][i] = u THEN INVALID_UID ELSE seats[s][i]
<1>1. seats \in [Tables -> [Places -> Uids]]
  BY DEF LobbyInv, LobbyTypeOK
<1> QED
  BY <1>1, Identifiers DEF Unseat

\* Lobby::RemoveUser keeps what the invariant says of users and seats, and
\* what it says of mail when no other session changes.
LEMMA RemoveUserStep ==
  ASSUME LobbyInv, NEW p \in Peers, RemoveUser(uid[p]), UNCHANGED uid,
         session' = session \/ session' = [session EXCEPT ![p] = "closed"]
  PROVE  LobbyInv'
<1> DEFINE u == uid[p]
<1>1. users' = {e \in users : e.uuid # u} /\ userIds' = userIds \ {u} /\ peers' = peers
  BY DEF RemoveUser, Remove
<1>2. seats' = seats \/ seats' = Unseat(u, GetPlayerTable(u))
  BY DEF RemoveUser
<1>3. /\ session \in [Peers -> SessionStates] /\ uid \in [Peers -> UserIds \cup {INVALID_UID}]
      /\ userIds \subseteq UserIds
      /\ peers \in [UserIds \cup {INVALID_UID} -> Peers \cup {NoPeer}]
  BY DEF LobbyInv, LobbyTypeOK
<1>4. \A q \in Peers : session'[q] = session[q] \/ (q = p /\ session'[q] = "closed")
  BY <1>3
<1>5. LobbyTypeOK'
  <2>1. session' \in [Peers -> SessionStates]
    BY <1>3 DEF SessionStates
  <2>2. seats' \in [Tables -> [Places -> Uids]]
    BY <1>2, UnseatSeats DEF LobbyInv, LobbyTypeOK
  <2> QED
    BY <1>1, <2>1, <2>2 DEF LobbyInv, LobbyTypeOK
<1>6. SessionOwner'
  <2>1. ASSUME NEW v \in UserIds \cup {INVALID_UID}, peers[v] # NoPeer
        PROVE  uid[peers[v]] = v /\ session'[peers[v]] # "none"
    <3>1. peers[v] \in Peers
      BY <1>3, <2>1
    <3> QED
      BY <1>4, <2>1, <3>1 DEF LobbyInv, SessionOwner
  <2>2. ASSUME NEW q \in Peers, session'[q] \in {"pending", "accepted"}
        PROVE  peers[uid[q]] = q
    BY <1>4, <2>2 DEF LobbyInv, SessionOwner
  <2> QED
    BY <1>1, <2>1, <2>2 DEF SessionOwner
<1>7. ASSUME NEW v \in userIds, v # u
      PROVE  session'[peers[v]] = session[peers[v]]
  <2>1. peers[v] # NoPeer /\ uid[peers[v]] = v
    BY DEF LobbyInv, MailToOwner
  <2>2. peers[v] \in Peers /\ peers[v] # p
    BY <1>3, <1>7, <2>1
  <2> QED
    BY <1>4, <2>2
<1>8. MailToOwner'
  BY <1>1, <1>7 DEF LobbyInv, MailToOwner
<1>9. EntriesInUse'
  BY <1>1, <1>7 DEF LobbyInv, EntriesInUse
<1>10. UniqueEntries'
  BY <1>1 DEF LobbyInv, UniqueEntries
<1>11. EntrySeat'
  <2> SUFFICES ASSUME NEW e \in users, e.uuid # u, e.table \in Tables
               PROVE  e.place \in Places /\ seats'[e.table][e.place] = e.uuid
    BY <1>1 DEF EntrySeat
  <2>1. e.place \in Places /\ seats[e.table][e.place] = e.uuid
    BY DEF LobbyInv, EntrySeat
  <2>2. Unseat(u, GetPlayerTable(u))[e.table][e.place] = e.uuid
    BY <2>1, UnseatSeats
  <2> QED
    BY <1>2, <2>1, <2>2
<1> QED
  BY <1>5, <1>6, <1>8, <1>9, <1>10, <1>11 DEF LobbyInv

\* A session that goes from "pending" to "accepted", or loses its connection
\* inside a packet, keeps its identifier and its entry.
LEMMA SessionStep ==
  ASSUME LobbyInv, NEW p \in Peers, PassPhrase(p) \/ LoseBody(p)
  PROVE  LobbyInv'
<1>1. UNCHANGED <<uid, userIds, peers, users, seats>>
  BY DEF PassPhrase, LoseBody
<1>2. /\ session \in [Peers -> SessionStates]
      /\ peers \in [UserIds \cup {INVALID_UID} -> Peers \cup {NoPeer}]
      /\ userIds \subseteq UserIds
  BY DEF LobbyInv, LobbyTypeOK
<1>3. /\ session[p] \in {"pending", "accepted"}
      /\ session' = [session EXCEPT ![p] = session'[p]]
      /\ session'[p] \in {"accepted", "lost"}
      /\ \A q \in Peers : q # p => session'[q] = session[q]
  BY <1>2 DEF PassPhrase, LoseBody
<1>4. LobbyTypeOK'
  BY <1>1, <1>2, <1>3 DEF LobbyInv, LobbyTypeOK, SessionStates
<1>5. SessionOwner'
  <2>1. ASSUME NEW v \in UserIds \cup {INVALID_UID}, peers[v] # NoPeer
        PROVE  uid[peers[v]] = v /\ session'[peers[v]] # "none"
    <3>1. peers[v] \in Peers
      BY <1>2, <2>1
    <3> QED
      BY <1>3, <2>1, <3>1 DEF LobbyInv, SessionOwner
  <2> QED
    BY <1>1, <1>3, <2>1 DEF LobbyInv, SessionOwner
<1>6. ASSUME NEW v \in userIds
      PROVE  /\ session'[peers[v]] \in {"pending", "accepted", "lost"}
             /\ session[peers[v]] \in {"accepted", "lost"}
                  => session'[peers[v]] \in {"accepted", "lost"}
  <2>1. peers[v] \in Peers /\ session[peers[v]] \in {"pending", "accepted", "lost"}
    BY <1>2 DEF LobbyInv, MailToOwner
  <2> QED
    BY <1>3, <2>1
<1>7. MailToOwner' /\ EntriesInUse'
  BY <1>1, <1>6 DEF LobbyInv, MailToOwner, EntriesInUse
<1>8. UniqueEntries' /\ EntrySeat'
  BY <1>1 DEF LobbyInv, UniqueEntries, EntrySeat
<1> QED
  BY <1>4, <1>5, <1>7, <1>8 DEF LobbyInv

\* The requests that change the entries or the seats keep what the invariant
\* says of the sessions.
LEMMA SessionsUnchanged ==
  ASSUME LobbyInv, UNCHANGED <<session, uid, userIds, peers>>
  PROVE  SessionOwner' /\ MailToOwner'
BY DEF LobbyInv, SessionOwner, MailToOwner

\* "ReplyLogin": the new entry has an identifier in use that no other entry has.
LEMMA LoginStep ==
  ASSUME LobbyInv, NEW p \in Peers, NEW u \in Uids, NEW nick \in Nicknames,
         ReplyLogin(p, u, nick)
  PROVE  LobbyInv'
<1> DEFINE new == [uuid |-> u, table |-> LOBBY_UID, place |-> NOWHERE, nick |-> nick]
<1>1. /\ UNCHANGED <<session, uid, userIds, peers, seats>>
      /\ users' = users \cup {new}
      /\ u \in userIds
      /\ \A e \in users : e.uuid # u /\ e.nick # nick
  BY DEF ReplyLogin, IsHere, CheckNickName
<1>2. new \in Entries
  BY <1>1 DEF LobbyInv, LobbyTypeOK, Entries
<1>3. LobbyTypeOK'
  BY <1>1, <1>2 DEF LobbyInv, LobbyTypeOK
<1>5. EntriesInUse'
  BY <1>1 DEF LobbyInv, EntriesInUse
<1>6. UniqueEntries'
  BY <1>1 DEF LobbyInv, UniqueEntries
<1>7. EntrySeat'
  BY <1>1, Identifiers DEF LobbyInv, EntrySeat
<1> QED
  BY <1>1, <1>3, <1>5, <1>6, <1>7, SessionsUnchanged DEF LobbyInv

\* "RequestJoinTable": the seat was free, so nobody else's entry names it.
LEMMA JoinStep ==
  ASSUME LobbyInv, NEW p \in Peers, NEW u \in Uids, NEW t \in Tables,
         RequestJoinTable(p, u, t)
  PROVE  LobbyInv'
<1>1. UNCHANGED <<session, uid, userIds, peers>>
  BY DEF RequestJoinTable
<1>2. PICK i \in Places : /\ FreeSeat(u, t, i)
                          /\ seats' = [seats EXCEPT ![t][i] = u]
                          /\ users' = SetPlayingTable(u, t, i)
  BY DEF RequestJoinTable
<1>3. /\ seats \in [Tables -> [Places -> Uids]]
      /\ u \in Uids
  BY DEF LobbyInv, LobbyTypeOK
<1>4. /\ users' \subseteq Entries
      /\ \A f \in users' :
           \E e \in users : /\ f.uuid = e.uuid /\ f.nick = e.nick
                            /\ e.uuid = u => f.table = t /\ f.place = i
                            /\ e.uuid # u => f = e
  BY <1>2, EntriesAfter
<1>5. seats' \in [Tables -> [Places -> Uids]]
  BY <1>2, <1>3
<1>6. LobbyTypeOK'
  BY <1>1, <1>4, <1>5 DEF LobbyInv, LobbyTypeOK
<1>7. EntriesInUse'
  BY <1>1, <1>4 DEF LobbyInv, EntriesInUse
<1>8. UniqueEntries'
  BY <1>2, EntriesUnique DEF UniqueEntries
<1>9. EntrySeat'
  <2> SUFFICES ASSUME NEW f \in users', f.table \in Tables
               PROVE  f.place \in Places /\ seats'[f.table][f.place] = f.uuid
    BY DEF EntrySeat
  <2>1. PICK e \in users : /\ f.uuid = e.uuid
                           /\ e.uuid = u => f.table = t /\ f.place = i
                           /\ e.uuid # u => f = e
    BY <1>4
  <2>2. CASE e.uuid = u
    BY <1>2, <1>3, <2>1, <2>2
  <2>3. CASE e.uuid # u
    <3>1. e.place \in Places /\ seats[e.table][e.place] = e.uuid /\ e.table \in Tables
      BY <2>1, <2>3 DEF LobbyInv, EntrySeat
    <3>2. e.uuid # INVALID_UID
      BY Identifiers DEF LobbyInv, LobbyTypeOK, Entries
    <3>3. seats[t][i] = INVALID_UID
      BY <1>2 DEF FreeSeat
    <3> QED
      BY <1>2, <1>3, <2>1, <2>3, <3>1, <3>2, <3>3
  <2> QED
    BY <2>2, <2>3
<1> QED
  BY <1>1, <1>6, <1>7, <1>8, <1>9, SessionsUnchanged DEF LobbyInv

\* "RequestQuitTable": the entry of the user names no table afterwards.
LEMMA QuitStep ==
  ASSUME LobbyInv, NEW p \in Peers, NEW u \in Uids, NEW t, RequestQuitTable(p, u, t)
  PROVE  LobbyInv'
<1>1. /\ UNCHANGED <<session, uid, userIds, peers>>
      /\ seats' = Unseat(u, t)
      /\ users' = SetPlayingTable(u, INVALID_UID, NOWHERE)
  BY DEF RequestQuitTable
<1>2. /\ users' \subseteq Entries
      /\ \A f \in users' :
           \E e \in users : /\ f.uuid = e.uuid /\ f.nick = e.nick
                            /\ e.uuid = u => f.table = INVALID_UID /\ f.place = NOWHERE
                            /\ e.uuid # u => f = e
  BY <1>1, EntriesAfter
<1>3. LobbyTypeOK'
  BY <1>1, <1>2, UnseatSeats DEF LobbyInv, LobbyTypeOK
<1>4. EntriesInUse'
  BY <1>1, <1>2 DEF LobbyInv, EntriesInUse
<1>5. UniqueEntries'
  BY <1>1, EntriesUnique DEF UniqueEntries
<1>6. EntrySeat'
  <2> SUFFICES ASSUME NEW f \in users', f.table \in Tables
               PROVE  f.place \in Places /\ seats'[f.table][f.place] = f.uuid
    BY DEF EntrySeat
  <2>1. f \in users /\ f.uuid # u
    BY <1>2, Identifiers
  <2>2. f.place \in Places /\ seats[f.table][f.place] = f.uuid
    BY <2>1 DEF LobbyInv, EntrySeat
  <2> QED
    BY <1>1, <2>1, <2>2, UnseatSeats
<1> QED
  BY <1>1, <1>3, <1>4, <1>5, <1>6, SessionsUnchanged DEF LobbyInv

\* "RequestChangeNickname": only the nickname of one entry changes, to one
\* that no other entry has.
LEMMA NicknameStep ==
  ASSUME LobbyInv, NEW p \in Peers, NEW u \in Uids, NEW nick \in Nicknames,
         RequestChangeNickname(p, u, nick)
  PROVE  LobbyInv'
<1> DEFINE Renamed(e) == IF e.uuid = u THEN [e EXCEPT !.nick = nick] ELSE e
<1>1. /\ UNCHANGED <<session, uid, userIds, peers, seats>>
      /\ users' = {Renamed(e) : e \in users}
      /\ \A e \in users : e.uuid # u => e.nick # nick
  BY DEF RequestChangeNickname, CheckNickName
<1>2. ASSUME NEW e \in users
      PROVE  /\ Renamed(e) \in Entries /\ Renamed(e).uuid = e.uuid
             /\ Renamed(e).table = e.table /\ Renamed(e).place = e.place
             /\ Renamed(e).nick = IF e.uuid = u THEN nick ELSE e.nick
  <2>1. e \in Entries
    BY DEF LobbyInv, LobbyTypeOK
  <2> QED
    BY <2>1 DEF Entries
<1> HIDE DEF Renamed
<1>3. LobbyTypeOK'
  BY <1>1, <1>2 DEF LobbyInv, LobbyTypeOK
<1>4. EntriesInUse'
  BY <1>1, <1>2 DEF LobbyInv, EntriesInUse
<1>5. UniqueEntries'
  <2> SUFFICES ASSUME NEW e \in users, NEW d \in users, Renamed(e) # Renamed(d)
               PROVE  Renamed(e).uuid # Renamed(d).uuid /\ Renamed(e).nick # Renamed(d).nick
    BY <1>1 DEF UniqueEntries
  <2>1. e.uuid # d.uuid /\ e.nick # d.nick
    BY DEF LobbyInv, UniqueEntries
  <2> QED
    BY <1>1, <1>2, <2>1
<1>6. EntrySeat'
  BY <1>1, <1>2 DEF LobbyInv, EntrySeat
<1> QED
  BY <1>1, <1>3, <1>4, <1>5, <1>6, SessionsUnchanged DEF LobbyInv

\* Every step of the lobby keeps its invariant.
LEMMA LobbyInvStep ==
  LobbyInv /\ [LobbyNext]_lobbyVars => LobbyInv'
<1> SUFFICES ASSUME LobbyInv, [LobbyNext]_lobbyVars
             PROVE  LobbyInv'
  OBVIOUS
<1>1. CASE UNCHANGED lobbyVars
  BY <1>1 DEF lobbyVars, LobbyInv, LobbyTypeOK, SessionOwner, MailToOwner,
              EntriesInUse, UniqueEntries, EntrySeat
<1>2. ASSUME NEW p \in Peers, AddUser(p) PROVE LobbyInv'
  BY <1>2, AddUserStep
<1>3. ASSUME NEW p \in Peers, PassPhrase(p) \/ LoseBody(p) PROVE LobbyInv'
  BY <1>3, SessionStep
<1>4. ASSUME NEW p \in Peers, BadPacket(p) PROVE LobbyInv'
  BY <1>4, RemoveUserStep DEF BadPacket
<1>5. ASSUME NEW p \in Peers, Disconnect(p) PROVE LobbyInv'
  BY <1>5, RemoveUserStep DEF Disconnect
<1>6. ASSUME NEW p \in Peers, NEW u \in Uids, NEW nick \in Nicknames,
             ReplyLogin(p, u, nick)
      PROVE  LobbyInv'
  BY <1>6, LoginStep
<1>7. ASSUME NEW p \in Peers, NEW u \in Uids, NEW nick \in Nicknames,
             RequestChangeNickname(p, u, nick)
      PROVE  LobbyInv'
  BY <1>7, NicknameStep
<1>8. ASSUME NEW p \in Peers, NEW u \in Uids, NEW t \in Tables,
             RequestJoinTable(p, u, t)
      PROVE  LobbyInv'
  BY <1>8, JoinStep
<1>9. ASSUME NEW p \in Peers, NEW u \in Uids, NEW t \in QuitTargets,
             RequestQuitTable(p, u, t)
      PROVE  LobbyInv'
  BY <1>9, QuitStep
<1> QED
  BY <1>1, <1>2, <1>3, <1>4, <1>5, <1>6, <1>7, <1>8, <1>9 DEF LobbyNext

\* The invariant holds when the server starts.
LEMMA LobbyInvInit ==
  LobbyInit => LobbyInv
<1> SUFFICES ASSUME LobbyInit PROVE LobbyInv
  OBVIOUS
<1>1. LobbyTypeOK
  BY Identifiers DEF LobbyInit, LobbyTypeOK, SessionStates
<1>2. SessionOwner /\ MailToOwner
  BY DEF LobbyInit, SessionOwner, MailToOwner
<1>3. EntriesInUse /\ UniqueEntries /\ EntrySeat
  BY DEF LobbyInit, EntriesInUse, UniqueEntries, EntrySeat
<1> QED
  BY <1>1, <1>2, <1>3 DEF LobbyInv

\* Whatever the clients do and whomever they name as the sender of a request,
\* with any number of peers, identifiers and tables: mail goes to the owner of
\* an identifier, the list of users holds identifiers in use, once each and
\* under different nicknames, and an entry that names a seat is right.
THEOREM LobbyCorrect == LobbySpec => []LobbyInv
<1> QED
  BY LobbyInvInit, LobbyInvStep, PTL DEF LobbySpec

\* The identifiers that the pool gives and that the list of users holds are
\* identifiers of the pool, or the invalid one; those that sit at the tables
\* are ones that the header of a packet may name.
THEOREM LobbyTypeCorrect == LobbySpec => []LobbyTypeOK
<1>1. LobbyInv => LobbyTypeOK
  BY DEF LobbyInv
<1> QED
  BY <1>1, LobbyCorrect, PTL

\* mPeers finds, under the identifier of a session that reads its connection,
\* that session and no other, however identifiers are released and given again.
THEOREM SessionOwnerCorrect == LobbySpec => []SessionOwner
<1>1. LobbyInv => SessionOwner
  BY DEF LobbyInv
<1> QED
  BY <1>1, LobbyCorrect, PTL

\* Lobby::Send never writes to a former owner of an identifier, although
\* RemoveUser leaves the old session in mPeers.
THEOREM MailCorrect == LobbySpec => []MailToOwner
<1>1. LobbyInv => MailToOwner
  BY DEF LobbyInv
<1> QED
  BY <1>1, LobbyCorrect, PTL

\* Users keeps one entry per user and one user per nickname.
THEOREM EntriesCorrect == LobbySpec => []UniqueEntries
<1>1. LobbyInv => UniqueEntries
  BY DEF LobbyInv
<1> QED
  BY <1>1, LobbyCorrect, PTL

\* Lobby::Deliver forwards the requests of a user to the table where he sits: his
\* entry and the seats of the table agree.
THEOREM EntrySeatCorrect == LobbySpec => []EntrySeat
<1>1. LobbyInv => EntrySeat
  BY DEF LobbyInv
<1> QED
  BY <1>1, LobbyCorrect, PTL

-----------------------------------------------------------------------------
(* Seats and entries, as long as nobody strays. *)

\* A listed user has no seat but the one his entry names, others have none.
LEMMA SeatsOfUser ==
  ASSUME LobbyInv, AllListed, NEW u, u # INVALID_UID, NEW t \in Tables, NEW i \in Places,
         seats[t][i] = u
  PROVE  GetPlayerTable(u) = t
<1>1. PICK e \in users : e.uuid = u /\ e.table = t
  BY Identifiers DEF AllListed
<1> QED
  BY <1>1, TableOfEntry DEF LobbyInv

\* Lobby::RemoveUser frees the seat of the user it removes.
LEMMA RemoveUserListed ==
  ASSUME LobbyInv, AllListed, NEW p \in Peers, RemoveUser(uid[p])
  PROVE  AllListed'
<1> DEFINE u == uid[p]
<1> SUFFICES ASSUME NEW t \in Tables, NEW i \in Places, seats'[t][i] # INVALID_UID
             PROVE  \E e \in users' : e.uuid = seats'[t][i] /\ e.table = t /\ e.place = i
  BY DEF AllListed
<1>1. seats' = IF GetPlayerTable(u) # LOBBY_UID THEN Unseat(u, GetPlayerTable(u)) ELSE seats
  BY DEF RemoveUser
<1>2. users' = {e \in users : e.uuid # u}
  BY DEF RemoveUser, Remove
<1>3. seats'[t][i] = seats[t][i]
  BY <1>1, UnseatSeats
<1>4. seats[t][i] # u
  <2> SUFFICES ASSUME seats[t][i] = u PROVE FALSE
    OBVIOUS
  <2>1. u # INVALID_UID
    BY <1>3
  <2>2. GetPlayerTable(u) = t /\ t # LOBBY_UID
    BY <2>1, SeatsOfUser, Identifiers
  <2> QED
    BY <1>1, <2>2, UnseatSeats
<1>5. PICK e \in users : e.uuid = seats[t][i] /\ e.table = t /\ e.place = i
  BY <1>3 DEF AllListed
<1> QED
  BY <1>2, <1>3, <1>4, <1>5

\* Whoever leaves his table by "RequestQuitTable" has no seat left.
LEMMA QuitListed ==
  ASSUME LobbyInv, AllListed, NEW p \in Peers, NEW u \in Uids, NEW s,
         RequestQuitTable(p, u, s)
  PROVE  AllListed'
<1> SUFFICES ASSUME NEW t \in Tables, NEW i \in Places, seats'[t][i] # INVALID_UID
             PROVE  \E e \in users' : e.uuid = seats'[t][i] /\ e.table = t /\ e.place = i
  BY DEF AllListed
<1>1. /\ GetPlayerTable(u) = s /\ seats' = Unseat(u, s)
      /\ users' = SetPlayingTable(u, INVALID_UID, NOWHERE)
  BY DEF RequestQuitTable
<1>2. seats'[t][i] = seats[t][i] /\ ~(s = t /\ seats[t][i] = u)
  BY <1>1, UnseatSeats
<1>3. seats[t][i] # INVALID_UID
  BY <1>2
<1>4. seats[t][i] # u
  BY <1>1, <1>2, <1>3, SeatsOfUser
<1>5. PICK e \in users : e.uuid = seats[t][i] /\ e.table = t /\ e.place = i
  BY <1>2 DEF AllListed
<1>6. e \in users'
  BY <1>1, <1>4, <1>5 DEF SetPlayingTable
<1> QED
  BY <1>2, <1>5, <1>6

\* "RequestJoinTable" of a listed user in the lobby, who has no seat yet.
LEMMA JoinListed ==
  ASSUME LobbyInv, AllListed, ~Strays,
         NEW p \in Peers, NEW u \in Uids, NEW s \in Tables,
         RequestJoinTable(p, u, s)
  PROVE  AllListed'
<1> SUFFICES ASSUME NEW t \in Tables, NEW i \in Places, seats'[t][i] # INVALID_UID
             PROVE  \E e \in users' : e.uuid = seats'[t][i] /\ e.table = t /\ e.place = i
  BY DEF AllListed
<1>1. GetPlayerTable(u) = LOBBY_UID
  BY DEF RequestJoinTable
<1>2. PICK j \in Places : /\ seats[s][j] = INVALID_UID
                          /\ seats' = [seats EXCEPT ![s][j] = u]
                          /\ users' = SetPlayingTable(u, s, j)
  BY DEF RequestJoinTable, FreeSeat
<1>3. seats \in [Tables -> [Places -> Uids]] /\ users \subseteq Entries
  BY DEF LobbyInv, LobbyTypeOK
<1>4. CASE t = s /\ i = j
  <2>0. seats'[t][i] = u /\ IsHere(u)
    BY <1>2, <1>3, <1>4 DEF Strays
  <2>1. PICK e \in users : e.uuid = u
    BY <2>0 DEF IsHere
  <2>2. [e EXCEPT !.table = s, !.place = j] \in users'
    BY <1>2, <2>1 DEF SetPlayingTable
  <2>3. e \in Entries
    BY <1>3
  <2>4. [e EXCEPT !.table = s, !.place = j].uuid = u
        /\ [e EXCEPT !.table = s, !.place = j].table = s
        /\ [e EXCEPT !.table = s, !.place = j].place = j
    BY <2>1, <2>3 DEF Entries
  <2> QED
    BY <1>4, <2>0, <2>2, <2>4
<1>5. CASE ~(t = s /\ i = j)
  <2>1. seats'[t][i] = seats[t][i]
    BY <1>2, <1>3, <1>5
  <2>2. seats[t][i] # INVALID_UID
    BY <2>1
  <2>3. seats[t][i] # u
    BY <1>1, <2>2, SeatsOfUser, Identifiers
  <2>4. PICK e \in users : e.uuid = seats[t][i] /\ e.table = t /\ e.place = i
    BY <2>1 DEF AllListed
  <2>5. e \in users'
    BY <1>2, <2>3, <2>4 DEF SetPlayingTable
  <2> QED
    BY <2>1, <2>4, <2>5
<1> QED
  BY <1>4, <1>5

\* A step that leaves the seats alone keeps the tables and the places of all
\* entries.
LEMMA OtherListed ==
  ASSUME LobbyInv, AllListed, seats' = seats,
         \A e \in users : \E f \in users' : f.uuid = e.uuid /\ f.table = e.table /\ f.place = e.place
  PROVE  AllListed'
<1> SUFFICES ASSUME NEW t \in Tables, NEW i \in Places, seats[t][i] # INVALID_UID
             PROVE  \E f \in users' : f.uuid = seats[t][i] /\ f.table = t /\ f.place = i
  BY DEF AllListed
<1>1. PICK e \in users : e.uuid = seats[t][i] /\ e.table = t /\ e.place = i
  BY DEF AllListed
<1> QED
  BY <1>1

\* A step of the lobby in which nobody strays.
LEMMA ListedStep ==
  ASSUME LobbyInv, AllListed, ~Strays, [LobbyNext]_lobbyVars
  PROVE  AllListed'
<1>1. CASE UNCHANGED <<users, seats>>
  BY <1>1, OtherListed
<1>2. ASSUME NEW p \in Peers, BadPacket(p) \/ Disconnect(p) PROVE AllListed'
  BY <1>2, RemoveUserListed DEF BadPacket, Disconnect
<1>3. ASSUME NEW p \in Peers, NEW u \in Uids, NEW nick \in Nicknames,
             ReplyLogin(p, u, nick)
      PROVE  AllListed'
  <2>1. seats' = seats /\ users \subseteq users'
    BY <1>3 DEF ReplyLogin
  <2> QED
    BY <2>1, OtherListed
<1>4. ASSUME NEW p \in Peers, NEW u \in Uids, NEW nick \in Nicknames,
             RequestChangeNickname(p, u, nick)
      PROVE  AllListed'
  <2>1. /\ seats' = seats
        /\ users' = {IF e.uuid = u THEN [e EXCEPT !.nick = nick] ELSE e : e \in users}
    BY <1>4 DEF RequestChangeNickname
  <2>2. ASSUME NEW e \in users
        PROVE  \E f \in users' : f.uuid = e.uuid /\ f.table = e.table /\ f.place = e.place
    <3>1. e \in Entries
      BY DEF LobbyInv, LobbyTypeOK
    <3>2. CASE e.uuid = u
      <4>1. [e EXCEPT !.nick = nick] \in users'
        BY <2>1, <3>2
      <4>2. /\ [e EXCEPT !.nick = nick].uuid = e.uuid
            /\ [e EXCEPT !.nick = nick].table = e.table
            /\ [e EXCEPT !.nick = nick].place = e.place
        BY <3>1 DEF Entries
      <4> QED
        BY <4>1, <4>2
    <3>3. CASE e.uuid # u
      BY <2>1, <3>3
    <3> QED
      BY <3>2, <3>3
  <2> QED
    BY <2>1, <2>2, OtherListed
<1>5. ASSUME NEW p \in Peers, NEW u \in Uids, NEW t \in Tables,
             RequestJoinTable(p, u, t)
      PROVE  AllListed'
  BY <1>5, JoinListed
<1>6. ASSUME NEW p \in Peers, NEW u \in Uids, NEW t \in QuitTargets,
             RequestQuitTable(p, u, t)
      PROVE  AllListed'
  BY <1>6, QuitListed
<1> QED
  BY <1>1, <1>2, <1>3, <1>4, <1>5, <1>6
  DEF LobbyNext, lobbyVars, AddUser, PassPhrase, LoseBody

\* Until somebody takes a seat without being listed, nobody keeps a seat whom
\* the lobby does not list there: no seat is left behind by a user who quits,
\* is removed or disconnects, and no user has two seats.
THEOREM SeatsCorrect == RecordedSpec => []SeatedAreListed
<1> DEFINE Inv == LobbyInv /\ SeatedAreListed /\ strayed \in BOOLEAN
<1>1. RecordedInit => Inv
  <2> SUFFICES ASSUME RecordedInit PROVE Inv
    OBVIOUS
  <2>1. LobbyInv /\ strayed \in BOOLEAN
    BY LobbyInvInit DEF RecordedInit
  <2>2. AllListed
    BY DEF RecordedInit, LobbyInit, AllListed
  <2> QED
    BY <2>1, <2>2 DEF SeatedAreListed
<1>2. Inv /\ [RecordedNext]_<<lobbyVars, strayed, borrowed>> => Inv'
  <2> SUFFICES ASSUME Inv, [RecordedNext]_<<lobbyVars, strayed, borrowed>> PROVE Inv'
    OBVIOUS
  <2>1. [LobbyNext]_lobbyVars
    BY DEF RecordedNext
  <2>2. LobbyInv'
    BY <2>1, LobbyInvStep
  <2>3. CASE UNCHANGED <<lobbyVars, strayed, borrowed>>
    BY <2>2, <2>3 DEF lobbyVars, SeatedAreListed, AllListed
  <2>4. CASE RecordedNext
    <3>1. strayed' = (strayed \/ Strays)
      BY <2>4 DEF RecordedNext
    <3>2. ~strayed' => ~strayed /\ ~Strays
      BY <3>1
    <3>3. ~strayed' => AllListed'
      BY <2>1, <3>2, ListedStep DEF SeatedAreListed
    <3> QED
      BY <2>2, <3>1, <3>3 DEF SeatedAreListed
  <2> QED
    BY <2>3, <2>4
<1>3. Inv => SeatedAreListed
  OBVIOUS
<1> QED
  BY <1>1, <1>2, <1>3, PTL DEF RecordedSpec

-----------------------------------------------------------------------------
(* Who has shown the pass phrase. *)

\* As long as an identifier stays in use its session stays recorded, and a
\* session that has shown the pass phrase is not asked for it again.
LEMMA OwnerKeeps ==
  ASSUME LobbyInv, [LobbyNext]_lobbyVars, NEW v \in userIds, v \in userIds',
         session[peers[v]] \in {"accepted", "lost"}
  PROVE  session'[peers'[v]] \in {"accepted", "lost"}
<1>1. /\ session \in [Peers -> SessionStates] /\ uid \in [Peers -> UserIds \cup {INVALID_UID}]
      /\ userIds \subseteq UserIds
      /\ peers \in [UserIds \cup {INVALID_UID} -> Peers \cup {NoPeer}]
  BY DEF LobbyInv, LobbyTypeOK
<1>2. peers[v] \in Peers /\ uid[peers[v]] = v /\ v \in UserIds
  BY <1>1 DEF LobbyInv, MailToOwner
<1>3. CASE UNCHANGED <<session, peers>>
  BY <1>3
<1>4. ASSUME NEW p \in Peers, AddUser(p)
      PROVE  session'[peers'[v]] \in {"accepted", "lost"}
  <2>1. PICK u \in UserIds \cup {INVALID_UID} :
          /\ TakesId(u)
          /\ peers' = [peers EXCEPT ![u] = p]
          /\ session' = [q \in Peers |-> IF q = p THEN "pending"
                                         ELSE IF q = peers[u] THEN Dropped(session[q])
                                         ELSE session[q]]
    BY <1>4 DEF AddUser
  <2>2. u # v
    BY <2>1, Identifiers, <1>1 DEF TakesId
  <2>3. peers'[v] = peers[v]
    BY <1>1, <2>1, <2>2
  <2>4. peers[v] # p
    BY <1>4 DEF AddUser
  <2>5. peers[v] # peers[u]
    <3> SUFFICES ASSUME peers[u] = peers[v] PROVE FALSE
      OBVIOUS
    <3>1. peers[u] # NoPeer
      BY <1>2, LobbyAssumption
    <3>2. uid[peers[u]] = u
      BY <3>1 DEF LobbyInv, SessionOwner
    <3> QED
      BY <1>2, <2>2, <3>2
  <2> QED
    BY <1>2, <2>1, <2>3, <2>4, <2>5
<1>5. ASSUME NEW p \in Peers, PassPhrase(p) \/ LoseBody(p)
      PROVE  session'[peers'[v]] \in {"accepted", "lost"}
  BY <1>1, <1>2, <1>5 DEF PassPhrase, LoseBody
<1>6. ASSUME NEW p \in Peers, Disconnect(p)
      PROVE  session'[peers'[v]] \in {"accepted", "lost"}
  <2>1. v # uid[p] /\ peers' = peers
    BY <1>6 DEF Disconnect, RemoveUser
  <2>2. peers[v] # p /\ session' = [session EXCEPT ![p] = "closed"]
    BY <1>2, <1>6, <2>1 DEF Disconnect
  <2> QED
    BY <1>1, <1>2, <2>1, <2>2
<1> QED
  BY <1>3, <1>4, <1>5, <1>6
  DEF LobbyNext, lobbyVars, BadPacket, RemoveUser, ReplyLogin, RequestChangeNickname,
      RequestJoinTable, RequestQuitTable

\* Only a login lists somebody who was not listed, and his identifier is in use.
LEMMA NewlyListed ==
  ASSUME LobbyInv, [LobbyNext]_lobbyVars, NEW e \in users', ~IsHere(e.uuid)
  PROVE  e.uuid \in userIds
<1>1. CASE users' \subseteq users
  BY <1>1 DEF IsHere
<1>2. ASSUME NEW p \in Peers, NEW u \in Uids, NEW nick \in Nicknames,
             ReplyLogin(p, u, nick)
      PROVE  e.uuid \in userIds
  BY <1>2 DEF ReplyLogin, IsHere
<1>3. ASSUME NEW p \in Peers, NEW u \in Uids, NEW nick \in Nicknames,
             RequestChangeNickname(p, u, nick)
      PROVE  e.uuid \in userIds
  <2>1. PICK d \in users : e = IF d.uuid = u THEN [d EXCEPT !.nick = nick] ELSE d
    BY <1>3 DEF RequestChangeNickname
  <2>2. d \in Entries
    BY DEF LobbyInv, LobbyTypeOK
  <2>3. e.uuid = d.uuid
    BY <2>1, <2>2 DEF Entries
  <2> QED
    BY <2>3 DEF IsHere
<1>4. ASSUME NEW p \in Peers, NEW u \in Uids, NEW t \in Tables,
             RequestJoinTable(p, u, t)
      PROVE  e.uuid \in userIds
  <2>1. PICK i \in Places : users' = SetPlayingTable(u, t, i)
    BY <1>4 DEF RequestJoinTable
  <2>2. \E d \in users : e.uuid = d.uuid
    BY <2>1, EntriesAfter
  <2> QED
    BY <2>2 DEF IsHere
<1>5. ASSUME NEW p \in Peers, NEW u \in Uids, NEW t \in QuitTargets,
             RequestQuitTable(p, u, t)
      PROVE  e.uuid \in userIds
  <2>1. users' = SetPlayingTable(u, INVALID_UID, NOWHERE)
    BY <1>5 DEF RequestQuitTable
  <2>2. \E d \in users : e.uuid = d.uuid
    BY <2>1, EntriesAfter
  <2> QED
    BY <2>2 DEF IsHere
<1> QED
  BY <1>1, <1>2, <1>3, <1>4, <1>5
  DEF LobbyNext, lobbyVars, AddUser, PassPhrase, LoseBody, BadPacket, Disconnect,
      RemoveUser, Remove

\* Users::AddEntry lists only peers that have shown the pass phrase, as long as
\* nobody logs in for them, and nobody inherits an entry together with an
\* identifier.
THEOREM AuthenticatedCorrect == RecordedSpec => []UsersAuthenticated
<1> DEFINE Inv == LobbyInv /\ UsersAuthenticated
           Step == [RecordedNext]_<<lobbyVars, strayed, borrowed>>
<1>1. RecordedInit => Inv
  BY LobbyInvInit DEF RecordedInit, LobbyInit, UsersAuthenticated
<1>2. Inv /\ Step => Inv'
  <2> SUFFICES ASSUME Inv, Step PROVE Inv'
    OBVIOUS
  <2>1. [LobbyNext]_lobbyVars
    BY DEF RecordedNext
  <2>2. LobbyInv'
    BY <2>1, LobbyInvStep
  <2>3. CASE UNCHANGED <<lobbyVars, strayed, borrowed>>
    BY <2>2, <2>3 DEF lobbyVars, UsersAuthenticated
  <2>4. CASE RecordedNext
    <3> SUFFICES ASSUME NEW e \in users'
                 PROVE  /\ e.uuid \in userIds'
                        /\ \/ e.uuid \in borrowed'
                           \/ session'[peers'[e.uuid]] \in {"accepted", "lost"}
      BY <2>2 DEF UsersAuthenticated
    <3> DEFINE u == e.uuid
    <3>1. u \in userIds' /\ u \in UserIds
      BY <2>2 DEF LobbyInv, EntriesInUse, LobbyTypeOK
    <3>2. IsHere(u)' /\ borrowed' = Borrows
      BY <2>4 DEF RecordedNext, IsHere
    <3>3. CASE IsHere(u)
      <4>1. u \in userIds /\ (u \in borrowed \/ session[peers[u]] \in {"accepted", "lost"})
        BY <3>3 DEF IsHere, UsersAuthenticated
      <4>2. u \in borrowed => u \in borrowed'
        BY <3>1, <3>2, <3>3 DEF Borrows
      <4> QED
        BY <2>1, <3>1, <4>1, <4>2, OwnerKeeps
    <3>4. CASE ~IsHere(u)
      <4>1. u \in userIds
        BY <2>1, <3>4, NewlyListed
      <4>2. session[peers[u]] # "accepted" => u \in borrowed'
        BY <3>1, <3>2, <3>4 DEF Borrows
      <4> QED
        BY <2>1, <3>1, <4>1, <4>2, OwnerKeeps
    <3> QED
      BY <3>3, <3>4
  <2> QED
    BY <2>3, <2>4
<1>3. Inv => UsersAuthenticated
  OBVIOUS
<1> QED
  BY <1>1, <1>2, <1>3, PTL DEF RecordedSpec

=============================================================================
