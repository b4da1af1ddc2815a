------------------------------ MODULE Friendships ------------------------------
(***************************************************************************)
(* The backend's side of friendships: the friendships table and the        *)
(* handlers of friends.go, one step per SQL statement that changes or      *)
(* decides something, so that two requests may cross; the public_profile   *)
(* flag of a user; and what the endpoints that read them answer.           *)
(*                                                                         *)
(* A request that is refused changes nothing and is not a step.            *)
(***************************************************************************)
EXTENDS Ranking, Sequences, FiniteSetsExt, SequencesExt

CONSTANTS
    Users,
    typed,           \* the keystrokes of a user in the board's window
    BoardLimit,      \* leaderboardLimit, 50
    Earlier          \* tables that earlier requests may have left

Row == [requester : Users, addressee : Users, status : {"pending", "accepted"}]

\* Two users have one row at most, and never with themselves.
OneRowIn(rows) ==
    \A f, g \in rows :
        /\ f.requester # f.addressee
        /\ {f.requester, f.addressee} = {g.requester, g.addressee} => f = g

ASSUME FriendshipsAssumption ==
    /\ IsFiniteSet(Users) /\ typed \in [Users -> Nat]
    /\ BoardLimit \in Nat \ {0}
    /\ Earlier \subseteq SUBSET Row /\ \A rows \in Earlier : OneRowIn(rows)

VARIABLES
    friendships,     \* the rows of the table
    checked,         \* <<u, v>>: a request of u to v has found no row, has not inserted one
    public,          \* public_profile of each user
    wants            \* <<u, v>>: since a row of theirs last went, u has asked or accepted v

friendshipVars == <<friendships, checked, public, wants>>

Pending(u, v) == [requester |-> u, addressee |-> v, status |-> "pending"]

\* The rows of u and v, whoever asked.
Between(u, v) == {f \in friendships : {f.requester, f.addressee} = {u, v}}

-----------------------------------------------------------------------------
FriendshipsInit ==
    /\ friendships \in Earlier
    /\ checked = {}
    /\ public = [u \in Users |-> FALSE]
    /\ wants = {<<f.requester, f.addressee>> : f \in friendships}
                  \cup {<<f.addressee, f.requester>> : f \in {g \in friendships : g.status = "accepted"}}

\* handleSendFriendRequest up to its SELECT; with a row, or to oneself, it ends here.
CheckRequest(u, v) ==
    /\ u # v
    /\ Between(u, v) = {}
    /\ checked' = checked \cup {<<u, v>>}
    /\ UNCHANGED <<friendships, public, wants>>

\* Fault: there is no index over the unordered pair, only the primary key.
InsertRequest_NoIndex(u, v) ==
    /\ <<u, v>> \in checked
    /\ checked' = checked \ {<<u, v>>}
    /\ IF \A f \in friendships : f.requester # u \/ f.addressee # v
       THEN friendships' = friendships \cup {Pending(u, v)} /\ wants' = wants \cup {<<u, v>>}
       ELSE UNCHANGED <<friendships, wants>>
    /\ UNCHANGED public

\* Its INSERT; friendships_unordered_pair refuses it if a row is there by now.
InsertRequest(u, v) ==
    /\ <<u, v>> \in checked
    /\ checked' = checked \ {<<u, v>>}
    /\ IF Between(u, v) = {}
       THEN friendships' = friendships \cup {Pending(u, v)} /\ wants' = wants \cup {<<u, v>>}
       ELSE UNCHANGED <<friendships, wants>>
    /\ UNCHANGED public

\* handleAcceptFriendRequest: u accepts the request of v.
AcceptRequest(u, v) ==
    /\ Pending(v, u) \in friendships
    /\ friendships' = (friendships \ {Pending(v, u)})
                          \cup {[requester |-> v, addressee |-> u, status |-> "accepted"]}
    /\ wants' = wants \cup {<<u, v>>}
    /\ UNCHANGED <<checked, public>>

\* The rows of u and v with the status go; there has to be one.
Delete(u, v, status) ==
    LET gone == {f \in Between(u, v) : f.status = status}
    IN  /\ gone # {}
        /\ friendships' = friendships \ gone
        /\ wants' = wants \ {<<u, v>>, <<v, u>>}
        /\ UNCHANGED <<checked, public>>

\* handleDeclineFriendRequest (of either side) and handleRemoveFriend.
DeclineRequest(u, v) == Delete(u, v, "pending")
RemoveFriend(u, v)   == Delete(u, v, "accepted")

\* The UPDATE of handlePatchSettings.
SetPublic(u, value) ==
    /\ public' = [public EXCEPT ![u] = value]
    /\ UNCHANGED <<friendships, checked, wants>>

FriendshipsNext ==
    \/ \E u, v \in Users : \/ CheckRequest(u, v) \/ InsertRequest(u, v)
                           \/ AcceptRequest(u, v) \/ DeclineRequest(u, v) \/ RemoveFriend(u, v)
    \/ \E u \in Users, value \in BOOLEAN : SetPublic(u, value)

FriendshipsSpec == FriendshipsInit /\ [][FriendshipsNext]_friendshipVars

-----------------------------------------------------------------------------
\* What the endpoints answer.  handleListFriends reads its three lists one after
\* the other.
Lists == <<"friends", "incoming", "outgoing">>

Listed(u, list) ==
    CASE list = "friends"  -> {v \in Users : \E f \in Between(u, v) : f.status = "accepted"}
      [] list = "incoming" -> {v \in Users : Pending(v, u) \in friendships}
      [] list = "outgoing" -> {v \in Users : Pending(u, v) \in friendships}

\* friendsScopeClause: u and the friends of u.
friendsScope(u) ==
    {u} \cup {v \in Users : \E f \in friendships :
                  f.status = "accepted" /\ {f.requester, f.addressee} = {u, v}}

\* handleLeaderboardKeystrokes and handleLeaderboardStreak: best first, nobody
\* with nothing; the index of a name is its rank.
Leaderboard(u, scope) ==
    LET names == IF scope = "friends" THEN friendsScope(u) ELSE Users
        order == Ranking([v \in {n \in names : typed[n] > 0} |-> typed[v]])
    IN  SubSeq(order, 1, Min({BoardLimit, Len(order)}))

\* handlePublicProfile: a private profile is not found.
PublicProfile(name) == IF public[name] THEN {typed[name]} ELSE {}

-----------------------------------------------------------------------------
FriendshipsTypeOK ==
    /\ friendships \subseteq Row
    /\ checked \subseteq Users \X Users /\ wants \subseteq Users \X Users
    /\ public \in [Users -> BOOLEAN]

\* Nobody is anybody's friend, or has asked to be, without having said so
\* themselves since they were last strangers: crossed requests, a cancelled one,
\* an acceptance after a removal cannot bring it about (friends.go:46-50, 106-110).
Consent ==
    /\ OneRowIn(friendships)
    /\ \A f \in friendships :
          /\ <<f.requester, f.addressee>> \in wants
          /\ f.status = "accepted" => <<f.addressee, f.requester>> \in wants
=============================================================================
