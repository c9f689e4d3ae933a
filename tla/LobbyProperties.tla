-------------------------- MODULE LobbyProperties --------------------------
(***************************************************************************)
(* What the lobby keeps true of its users, its sessions and its tables.    *)
(***************************************************************************)
EXTENDS Lobby

VARIABLES
  strayed,   \* history: a user who is not listed has been given a seat
  borrowed   \* history: listed identifiers whose login came from another session
             \* while their own had not shown the pass phrase

\* A seat has just been given to a user who is not listed.
Strays ==
  \E t \in Tables, i \in Places :
    /\ seats'[t][i] # seats[t][i]
    /\ seats'[t][i] # INVALID_UID
    /\ ~IsHere(seats'[t][i])

\* The listed identifiers that were listed just now although the session that
\* has them has not shown the pass phrase, and those of before.
Borrows ==
  {u \in UserIds : /\ IsHere(u)'
                   /\ IF IsHere(u) THEN u \in borrowed ELSE session[peers[u]] # "accepted"}

RecordedInit == LobbyInit /\ strayed = FALSE /\ borrowed = {}
RecordedNext == LobbyNext /\ strayed' = (strayed \/ Strays) /\ borrowed' = Borrows

\* LobbySpec with the history variables.
RecordedSpec == RecordedInit /\ [][RecordedNext]_<<lobbyVars, strayed, borrowed>>

\* Type of the lobby's state: in particular an identifier that is given or
\* listed is one of the pool (or the invalid one); one that is seated is any
\* that the header of a packet may name.
LobbyTypeOK ==
  /\ session \in [Peers -> SessionStates]
  /\ uid \in [Peers -> UserIds \cup {INVALID_UID}]
  /\ userIds \subseteq UserIds
  /\ peers \in [UserIds \cup {INVALID_UID} -> Peers \cup {NoPeer}]
  /\ users \subseteq Entries
  /\ seats \in [Tables -> [Places -> Uids]]

\* mPeers records a session under the identifier that the session has, and a
\* session that reads its connection is recorded, whatever was released, given
\* again or refused in between; so two sessions that read their connections
\* never have the same identifier, not even the invalid one.
SessionOwner ==
  /\ \A u \in UserIds \cup {INVALID_UID} :
       peers[u] # NoPeer => uid[peers[u]] = u /\ session[peers[u]] # "none"
  /\ \A p \in Peers : session[p] \in {"pending", "accepted"} => peers[uid[p]] = p

\* Lobby::Send to an identifier in use writes to the session that has this
\* identifier now, which the server has not closed, and never to one that had
\* it before, although RemoveUser leaves the old session in mPeers and TakeId
\* gives the identifier again.
MailToOwner ==
  \A u \in userIds :
    /\ peers[u] # NoPeer
    /\ uid[peers[u]] = u
    /\ session[peers[u]] \in {"pending", "accepted", "lost"}

\* A listed user has an identifier in use.
EntriesInUse == \A e \in users : e.uuid \in userIds

\* A listed user has an identifier in use, and its session has shown the pass
\* phrase, unless the login came from another session in its name, which
\* PeerSession::HandleBody does not rule out: whoever gets a released
\* identifier does not inherit the entry, the table or the nickname of its
\* former owner.
UsersAuthenticated ==
  \A e \in users :
    /\ e.uuid \in userIds
    /\ e.uuid \in borrowed \/ session[peers[e.uuid]] \in {"accepted", "lost"}

\* Users::AddEntry and Users::ChangeNickName together keep one entry per
\* user and one user per nickname.
UniqueEntries ==
  \A e, f \in users : e # f => e.uuid # f.uuid /\ e.nick # f.nick

\* A user whose entry names a table occupies the seat of his entry there.
\* Lobby::Deliver forwards a request to a table on the word of the entry.
EntrySeat ==
  \A e \in users : e.table \in Tables => /\ e.place \in Places
                                         /\ seats[e.table][e.place] = e.uuid

\* The inductive invariant of the lobby.
LobbyInv ==
  /\ LobbyTypeOK
  /\ SessionOwner
  /\ MailToOwner
  /\ EntriesInUse
  /\ UniqueEntries
  /\ EntrySeat

\* Every occupied seat is the one that the entry of its occupant names.
AllListed ==
  \A t \in Tables, i \in Places :
    seats[t][i] # INVALID_UID =>
      \E e \in users : e.uuid = seats[t][i] /\ e.table = t /\ e.place = i

\* A seat is occupied only by a listed user whose entry names that seat: no
\* user has two seats, and no seat stays with someone who has gone, as long as
\* nobody has taken a seat without being listed, which "RequestJoinTable" does
\* not check.  Lobby::SendPlayerEvent, which announces the join, says of the
\* player "Cannot find player, should be in the list!" when he is not.
SeatedAreListed == ~strayed => AllListed

\* "A user can join a table if he is _NOT_ already around a table": the
\* condition of "RequestJoinTable" holds for a listed user without a seat.
UnseatedMayJoin ==
  \A e \in users :
    (\A t \in Tables, i \in Places : seats[t][i] # e.uuid)
      => GetPlayerTable(e.uuid) = LOBBY_UID
=============================================================================
