----------------------------- MODULE Social_proofs -----------------------------
(***************************************************************************)
(* Whatever a browser tab and the requests from elsewhere do, the backend  *)
(* of Social does nothing that Friendships does not allow; and what holds  *)
(* of the sign-in along the way.                                           *)
(***************************************************************************)
EXTENDS Social, Numbers_proofs

(***************************************************************************)
(* Friendship needs the word of both, for every number of users and every  *)
(* interleaving of the statements of their requests.                       *)
(***************************************************************************)
\* Consent alone is not inductive: a request that has passed its SELECT must be
\* one to somebody else.
CheckedApart == \A p \in checked : p[1] # p[2]

FriendshipsInv == FriendshipsTypeOK /\ CheckedApart /\ Consent

LEMMA InitInv == FriendshipsInit => FriendshipsInv
  <1> SUFFICES ASSUME FriendshipsInit PROVE FriendshipsInv
    OBVIOUS
  <1>1. friendships \subseteq Row /\ OneRowIn(friendships)
    BY FriendshipsAssumption DEF FriendshipsInit
  <1>2. \A f \in friendships : f.requester \in Users /\ f.addressee \in Users
    BY <1>1 DEF Row
  <1>3. FriendshipsTypeOK
    BY <1>1, <1>2 DEF FriendshipsInit, FriendshipsTypeOK
  <1>4. Consent
    BY <1>1 DEF FriendshipsInit, Consent
  <1>5. QED
    BY <1>3, <1>4 DEF FriendshipsInit, FriendshipsInv, CheckedApart

LEMMA CheckStep ==
    ASSUME FriendshipsInv, NEW u \in Users, NEW v \in Users, CheckRequest(u, v)
    PROVE  FriendshipsInv'
  <1>1. FriendshipsTypeOK'
    BY DEF CheckRequest, FriendshipsInv, FriendshipsTypeOK
  <1>2. CheckedApart'
    BY DEF CheckRequest, FriendshipsInv, CheckedApart
  <1>3. Consent'
    BY DEF CheckRequest, FriendshipsInv, Consent
  <1>4. QED
    BY <1>1, <1>2, <1>3 DEF FriendshipsInv

\* The index lets a row in only where there is none of the two.
LEMMA InsertStep ==
    ASSUME FriendshipsInv, NEW u \in Users, NEW v \in Users, InsertRequest(u, v)
    PROVE  FriendshipsInv'
  <1>1. CheckedApart'
    BY DEF InsertRequest, FriendshipsInv, CheckedApart
  <1>2. CASE Between(u, v) = {}
    <2> DEFINE new == Pending(u, v)
    <2>1. /\ friendships' = friendships \cup {new}
          /\ wants' = wants \cup {<<u, v>>}
          /\ UNCHANGED public
          /\ checked' \subseteq checked
      BY <1>2 DEF InsertRequest
    <2>2. new.requester = u /\ new.addressee = v /\ new.status = "pending" /\ new \in Row
      BY DEF Pending, Row
    <2>3. u # v
      BY DEF InsertRequest, FriendshipsInv, CheckedApart
    <2>4. \A f \in friendships : {f.requester, f.addressee} # {u, v}
      BY <1>2 DEF Between
    <2> HIDE DEF new
    <2>5. FriendshipsTypeOK'
      BY <2>1, <2>2 DEF FriendshipsInv, FriendshipsTypeOK
    <2>6. OneRowIn(friendships)'
      BY <2>1, <2>2, <2>3, <2>4 DEF OneRowIn, FriendshipsInv, Consent
    <2>7. ASSUME NEW f \in friendships'
          PROVE  /\ <<f.requester, f.addressee>> \in wants'
                 /\ f.status = "accepted" => <<f.addressee, f.requester>> \in wants'
      BY <2>1, <2>2 DEF FriendshipsInv, Consent
    <2>8. QED
      BY <1>1, <2>5, <2>6, <2>7 DEF FriendshipsInv, Consent
  <1>3. CASE Between(u, v) # {}
    <2>1. UNCHANGED <<friendships, wants, public>> /\ checked' \subseteq checked
      BY <1>3 DEF InsertRequest
    <2>2. FriendshipsTypeOK' /\ Consent'
      BY <2>1 DEF FriendshipsInv, FriendshipsTypeOK, Consent
    <2>3. QED
      BY <1>1, <2>2 DEF FriendshipsInv
  <1>4. QED
    BY <1>2, <1>3

\* The one who accepts is the one who was asked.
LEMMA AcceptStep ==
    ASSUME FriendshipsInv, NEW u \in Users, NEW v \in Users, AcceptRequest(u, v)
    PROVE  FriendshipsInv'
  <1> DEFINE old == Pending(v, u)
             new == [requester |-> v, addressee |-> u, status |-> "accepted"]
  <1>1. /\ old \in friendships
        /\ friendships' = (friendships \ {old}) \cup {new}
        /\ wants' = wants \cup {<<u, v>>}
        /\ UNCHANGED <<checked, public>>
    BY DEF AcceptRequest
  <1>2. old.requester = v /\ old.addressee = u
    BY DEF Pending
  <1>3. new.requester = v /\ new.addressee = u /\ new \in Row
    BY DEF Row
  <1> HIDE DEF old, new
  <1>4. FriendshipsTypeOK'
    BY <1>1, <1>3 DEF FriendshipsInv, FriendshipsTypeOK
  <1>5. OneRowIn(friendships)'
    BY <1>1, <1>2, <1>3 DEF OneRowIn, FriendshipsInv, Consent
  <1>6. ASSUME NEW f \in friendships'
        PROVE  /\ <<f.requester, f.addressee>> \in wants'
               /\ f.status = "accepted" => <<f.addressee, f.requester>> \in wants'
    BY <1>1, <1>2, <1>3 DEF FriendshipsInv, Consent
  <1>7. CheckedApart'
    BY <1>1 DEF FriendshipsInv, CheckedApart
  <1>8. QED
    BY <1>4, <1>5, <1>6, <1>7 DEF FriendshipsInv, Consent

\* The row that goes was the only one of the two, so nobody else's word goes.
LEMMA DeleteStep ==
    ASSUME FriendshipsInv, NEW u \in Users, NEW v \in Users, NEW status,
           Delete(u, v, status)
    PROVE  FriendshipsInv'
  <1> DEFINE gone == {f \in Between(u, v) : f.status = status}
  <1>1. /\ gone # {}
        /\ friendships' = friendships \ gone
        /\ wants' = wants \ {<<u, v>>, <<v, u>>}
        /\ UNCHANGED <<checked, public>>
    BY DEF Delete
  <1>2. ASSUME NEW f \in friendships'
        PROVE  {f.requester, f.addressee} # {u, v}
    <2>1. PICK g \in gone : TRUE
      BY <1>1
    <2>2. f \in friendships /\ f # g
      BY <1>1, <2>1
    <2>3. g \in friendships /\ {g.requester, g.addressee} = {u, v}
      BY <2>1 DEF Between
    <2>4. OneRowIn(friendships)
      BY DEF FriendshipsInv, Consent
    <2>5. QED
      BY <2>2, <2>3, <2>4 DEF OneRowIn
  <1> HIDE DEF gone
  <1>3. FriendshipsTypeOK' /\ CheckedApart'
    BY <1>1 DEF FriendshipsInv, FriendshipsTypeOK, CheckedApart
  <1>4. OneRowIn(friendships)'
    BY <1>1 DEF FriendshipsInv, Consent, OneRowIn
  <1>5. ASSUME NEW f \in friendships'
        PROVE  /\ <<f.requester, f.addressee>> \in wants'
               /\ f.status = "accepted" => <<f.addressee, f.requester>> \in wants'
    <2>1. /\ <<f.requester, f.addressee>> \in wants
          /\ f.status = "accepted" => <<f.addressee, f.requester>> \in wants
      BY <1>1 DEF FriendshipsInv, Consent
    <2>2. /\ <<f.requester, f.addressee>> \notin {<<u, v>>, <<v, u>>}
          /\ <<f.addressee, f.requester>> \notin {<<u, v>>, <<v, u>>}
      BY <1>2
    <2>3. QED
      BY <1>1, <2>1, <2>2
  <1>6. QED
    BY <1>3, <1>4, <1>5 DEF FriendshipsInv, Consent

LEMMA FlagStep ==
    ASSUME FriendshipsInv, NEW u \in Users, NEW value \in BOOLEAN, SetPublic(u, value)
    PROVE  FriendshipsInv'
  <1>1. UNCHANGED <<friendships, checked, wants>> /\ public' \in [Users -> BOOLEAN]
    BY DEF SetPublic, FriendshipsInv, FriendshipsTypeOK
  <1>2. QED
    BY <1>1 DEF FriendshipsInv, FriendshipsTypeOK, CheckedApart, Consent

LEMMA FriendshipsStep == FriendshipsInv /\ [FriendshipsNext]_friendshipVars => FriendshipsInv'
  <1> SUFFICES ASSUME FriendshipsInv, [FriendshipsNext]_friendshipVars PROVE FriendshipsInv'
    OBVIOUS
  <1>1. ASSUME NEW u \in Users, NEW v \in Users,
               \/ CheckRequest(u, v) \/ InsertRequest(u, v) \/ AcceptRequest(u, v)
               \/ DeclineRequest(u, v) \/ RemoveFriend(u, v)
        PROVE  FriendshipsInv'
    BY <1>1, CheckStep, InsertStep, AcceptStep, DeleteStep DEF DeclineRequest, RemoveFriend
  <1>2. ASSUME NEW u \in Users, NEW value \in BOOLEAN, SetPublic(u, value)
        PROVE  FriendshipsInv'
    BY <1>2, FlagStep
  <1>3. CASE UNCHANGED friendshipVars
    BY <1>3 DEF friendshipVars, FriendshipsInv, FriendshipsTypeOK, CheckedApart, Consent
  <1>4. QED
    BY <1>1, <1>2, <1>3 DEF FriendshipsNext

LEMMA FriendshipsInvariant == FriendshipsSpec => []FriendshipsInv
  BY InitInv, FriendshipsStep, PTL DEF FriendshipsSpec

\* The table only ever holds rows of its columns' types.
THEOREM FriendshipsTypes == FriendshipsSpec => []FriendshipsTypeOK
  <1>1. FriendshipsInv => FriendshipsTypeOK
    BY DEF FriendshipsInv
  <1>2. QED
    BY FriendshipsInvariant, <1>1, PTL

\* Two users have one row at most, it was asked for by its requester and, once
\* accepted, wanted by both, since they were last strangers.
THEOREM FriendshipNeedsConsent == FriendshipsSpec => []Consent
  <1>1. FriendshipsInv => Consent
    BY DEF FriendshipsInv
  <1>2. QED
    BY FriendshipsInvariant, <1>1, PTL

-----------------------------------------------------------------------------
(***************************************************************************)
(* The dashboard on top of it.                                             *)
(***************************************************************************)
Mutation == [owner : Users \cup {None}, on : Users, value : BOOLEAN, behind : BOOLEAN,
             at : {"sent", "checked", "done", "failed"}]

Pages == {"landing", "login", "app"} \cup Users
Admitted ==
    /\ user \in Users \cup {None} /\ signingIn \in Users \cup {None}
    /\ route \in Pages /\ tab \in Tabs /\ scope \in Scopes

\* What is under way is about users, and what the backend has begun was sent by one.
Sent ==
    /\ DOMAIN mutating \subseteq Kinds
    /\ \A kind \in DOMAIN mutating :
          /\ mutating[kind] \in Mutation
          /\ mutating[kind].at # "sent" => mutating[kind].owner \in Users

SocialInv == FriendshipsTypeOK /\ Admitted /\ Sent

BackendStep == [FriendshipsNext]_friendshipVars

-----------------------------------------------------------------------------
LEMMA SocialInitInv == Init => SocialInv
  <1> SUFFICES ASSUME Init PROVE SocialInv
    OBVIOUS
  <1>1. FriendshipsTypeOK
    BY InitInv DEF Init, FriendshipsInv
  <1>2. Admitted
    BY DEF Init, Admitted, Pages, Tabs, Scopes
  <1>3. Sent
    BY DEF Init, Sent, Nothing
  <1>4. QED
    BY <1>1, <1>2, <1>3 DEF SocialInv

\* A step that leaves the backend alone.
LEMMA BackendKept ==
    ASSUME UNCHANGED friendshipVars
    PROVE  BackendStep /\ (FriendshipsTypeOK => FriendshipsTypeOK')
  BY DEF BackendStep, friendshipVars, FriendshipsTypeOK

LEMMA TypesKept ==
    ASSUME FriendshipsTypeOK, FriendshipsNext
    PROVE  FriendshipsTypeOK'
  <1>1. ASSUME NEW u \in Users, NEW v \in Users, CheckRequest(u, v)
        PROVE  FriendshipsTypeOK'
    BY <1>1 DEF CheckRequest, FriendshipsTypeOK
  <1>2. ASSUME NEW u \in Users, NEW v \in Users, InsertRequest(u, v)
        PROVE  FriendshipsTypeOK'
    <2>1. Pending(u, v) \in Row
      BY DEF Pending, Row
    <2>2. QED
      BY <1>2, <2>1 DEF InsertRequest, FriendshipsTypeOK
  <1>3. ASSUME NEW u \in Users, NEW v \in Users, AcceptRequest(u, v)
        PROVE  FriendshipsTypeOK'
    <2>1. [requester |-> v, addressee |-> u, status |-> "accepted"] \in Row
      BY DEF Row
    <2>2. QED
      BY <1>3, <2>1 DEF AcceptRequest, FriendshipsTypeOK
  <1>4. ASSUME NEW u \in Users, NEW v \in Users, NEW status, Delete(u, v, status)
        PROVE  FriendshipsTypeOK'
    BY <1>4 DEF Delete, FriendshipsTypeOK
  <1>5. ASSUME NEW u \in Users, NEW value \in BOOLEAN, SetPublic(u, value)
        PROVE  FriendshipsTypeOK'
    BY <1>5 DEF SetPublic, FriendshipsTypeOK
  <1>6. QED
    BY <1>1, <1>2, <1>3, <1>4, <1>5 DEF FriendshipsNext, DeclineRequest, RemoveFriend

\* Which steps of two users the backend may take.
LEMMA RequestSteps ==
    ASSUME NEW u \in Users, NEW v \in Users,
           \/ CheckRequest(u, v) \/ InsertRequest(u, v) \/ AcceptRequest(u, v)
           \/ DeclineRequest(u, v) \/ RemoveFriend(u, v)
    PROVE  FriendshipsNext
  BY DEF FriendshipsNext

\* A mutation stays one when it ages, moves on, or others go.
LEMMA WithoutKeeps ==
    ASSUME Sent, NEW keys, mutating' = Without(mutating, keys)
    PROVE  Sent'
  BY DEF Sent, Without

LEMMA AdvanceKeeps ==
    ASSUME Sent, NEW kind \in DOMAIN mutating, mutating[kind].owner # None,
           NEW at \in {"checked", "done", "failed"}, Advance(kind, at)
    PROVE  Sent'
  <1>1. /\ [mutating[kind] EXCEPT !.at = at] \in Mutation
        /\ [mutating[kind] EXCEPT !.at = at].owner \in Users
    BY DEF Sent, Mutation
  <1>2. mutating' = [mutating EXCEPT ![kind] = [mutating[kind] EXCEPT !.at = at]]
    BY DEF Advance
  <1>3. QED
    BY <1>1, <1>2 DEF Sent

LEMMA AgedKeeps ==
    ASSUME Sent, NEW keys, NEW us, mutating' = Aged(mutating, keys, us)
    PROVE  Sent'
  <1>1. ASSUME NEW kind \in DOMAIN mutating
        PROVE  /\ [mutating[kind] EXCEPT !.behind = TRUE] \in Mutation
               /\ [mutating[kind] EXCEPT !.behind = TRUE].owner = mutating[kind].owner
               /\ [mutating[kind] EXCEPT !.behind = TRUE].at = mutating[kind].at
    BY DEF Sent, Mutation
  <1>2. QED
    BY <1>1 DEF Sent, Aged

-----------------------------------------------------------------------------
\* Moves leave the backend and, unless the page is loaded anew, what is under way.
LEMMA MoveStep ==
    ASSUME SocialInv, NEW to \in Pages, Move(to), user' \in Users \cup {None}
    PROVE  SocialInv' /\ BackendStep
  <1>1. UNCHANGED friendshipVars
    BY DEF Move, Click
  <1>2. Admitted' /\ Sent'
    BY DEF Move, SocialInv, Admitted, Sent, Tabs, Scopes
  <1>3. QED
    BY <1>1, <1>2, BackendKept DEF SocialInv

LEMMA RoutedPages == \A to \in Pages : Routed(to) \in Pages
  BY DEF Routed, Pages

LEMMA LoadStep ==
    ASSUME SocialInv, NEW to \in Pages, FullLoad(to)
    PROVE  SocialInv' /\ BackendStep
  <1>1. UNCHANGED friendshipVars
    BY DEF FullLoad, Click
  <1>2. Admitted' /\ Sent'
    BY RoutedPages DEF FullLoad, SocialInv, Admitted, Sent, Nothing, Tabs, Scopes
  <1>3. QED
    BY <1>1, <1>2, BackendKept DEF SocialInv

\* A step that only changes what the page shows and caches.
LEMMA PageStep ==
    ASSUME SocialInv, UNCHANGED <<friendshipVars, route, signingIn, mutating>>,
           user' \in Users \cup {None}, tab' \in Tabs, scope' \in Scopes
    PROVE  SocialInv' /\ BackendStep
  <1>1. Admitted' /\ Sent'
    BY DEF SocialInv, Admitted, Sent
  <1>2. QED
    BY <1>1, BackendKept DEF SocialInv

\* A mutation is sent for whoever is signed in, if anybody is.
LEMMA MutateStep ==
    ASSUME SocialInv, NEW kind \in Kinds, NEW v \in Users, Mutate(kind, v)
    PROVE  SocialInv' /\ BackendStep
  <1> DEFINE request == [owner |-> user, on |-> v,
                         value |-> kind = "toggle" /\ ~cache[SettingsKey].value.public,
                         behind |-> FALSE, at |-> "sent"]
  <1>1. /\ mutating' = With(mutating, kind, request)
        /\ UNCHANGED <<friendshipVars, pageVars>>
    BY DEF Mutate
  <1>3. user \in Users \cup {None} /\ request.at = "sent"
    BY DEF SocialInv, Admitted
  <1>4. (kind = "toggle" /\ ~cache[SettingsKey].value.public) \in BOOLEAN
    OBVIOUS
  <1>5. request \in Mutation
    BY <1>3, <1>4 DEF Mutation
  <1> HIDE DEF request
  <1>6. Sent'
    BY <1>1, <1>3, <1>5 DEF SocialInv, Sent, With
  <1>7. Admitted'
    BY <1>1 DEF pageVars, SocialInv, Admitted
  <1>8. QED
    BY <1>1, <1>6, <1>7, BackendKept DEF SocialInv

LEMMA UserStep ==
    ASSUME SocialInv, User
    PROVE  SocialInv' /\ BackendStep
  <1> USE DEF Pages
  <1>1. CASE GoHome \/ Back
    <2>1. PICK to \in {"landing"} : Move(to) /\ UNCHANGED user
      BY <1>1 DEF GoHome, Back
    <2>2. QED
      BY <2>1, MoveStep DEF SocialInv, Admitted
  <1>2. CASE Enter
    <2>1. Routed("app") \in Pages
      BY RoutedPages
    <2>2. QED
      BY <1>2, <2>1, MoveStep DEF Enter, SocialInv, Admitted
  <1>3. CASE handleLogout
    BY <1>3, MoveStep DEF handleLogout
  <1>4. CASE Reload \/ LeaveProfile
    BY <1>4, LoadStep DEF Reload, LeaveProfile, SocialInv, Admitted
  <1>5. ASSUME NEW name \in Users, VisitProfile(name)
        PROVE  SocialInv' /\ BackendStep
    BY <1>5, LoadStep DEF VisitProfile
  <1>6. ASSUME NEW name \in Users, SignIn(name)
        PROVE  SocialInv' /\ BackendStep
    <2>1. UNCHANGED <<friendshipVars, user, route, tab, scope, mutating>> /\ signingIn' = name
      BY <1>6 DEF SignIn, Click
    <2>2. Admitted' /\ Sent'
      BY <2>1 DEF SocialInv, Admitted, Sent
    <2>3. QED
      BY <2>1, <2>2, BackendKept DEF SocialInv
  <1>7. ASSUME NEW t \in Tabs, SelectTab(t)
        PROVE  SocialInv' /\ BackendStep
    BY <1>7, PageStep DEF SelectTab, Click, SocialInv, Admitted, Scopes
  <1>8. ASSUME NEW s \in Scopes, SelectScope(s)
        PROVE  SocialInv' /\ BackendStep
    BY <1>8, PageStep DEF SelectScope, Click, SocialInv, Admitted
  <1>9. ASSUME NEW kind \in Kinds, NEW v \in Users, Mutate(kind, v)
        PROVE  SocialInv' /\ BackendStep
    BY <1>9, MutateStep
  <1>10. QED
    BY <1>1, <1>2, <1>3, <1>4, <1>5, <1>6, <1>7, <1>8, <1>9 DEF User

-----------------------------------------------------------------------------
\* A statement of the backend for a mutation of this tab.
LEMMA ServeStep ==
    ASSUME SocialInv, NEW kind, ServeOwn(kind)
    PROVE  SocialInv' /\ BackendStep
  <1>1. kind \in DOMAIN mutating /\ UNCHANGED pageVars
    BY DEF ServeOwn
  <1>2. PICK u \in Users, v \in Users :
           \/ InsertRequest(u, v) \/ AcceptRequest(u, v)
           \/ DeclineRequest(u, v) \/ RemoveFriend(u, v)
    <2>1. mutating[kind].owner \in Users /\ mutating[kind].on \in Users
      BY <1>1 DEF ServeOwn, SocialInv, Sent, Mutation
    <2>2. QED
      BY <2>1 DEF ServeOwn
  <1>3. FriendshipsNext
    BY <1>2, RequestSteps
  <1>4. PICK at \in {"done", "failed"} : Advance(kind, at)
    BY DEF ServeOwn
  <1>5. Sent'
    BY <1>1, <1>4, AdvanceKeeps DEF ServeOwn, SocialInv
  <1>6. Admitted'
    BY <1>1 DEF pageVars, SocialInv, Admitted
  <1>7. QED
    BY <1>3, <1>5, <1>6, TypesKept DEF SocialInv, BackendStep

LEMMA CheckOwnStep ==
    ASSUME SocialInv, CheckOwn
    PROVE  SocialInv' /\ BackendStep
  <1>1. "send" \in DOMAIN mutating /\ Advance("send", "checked") /\ UNCHANGED pageVars
    BY DEF CheckOwn
  <1>2. mutating["send"].owner \in Users /\ mutating["send"].on \in Users
    BY <1>1 DEF CheckOwn, SocialInv, Sent, Mutation
  <1>3. FriendshipsNext
    BY <1>2, RequestSteps DEF CheckOwn
  <1>4. Sent'
    BY <1>1, <1>2, SocialAssumption, AdvanceKeeps DEF SocialInv
  <1>5. Admitted'
    BY <1>1 DEF pageVars, SocialInv, Admitted
  <1>6. QED
    BY <1>3, <1>4, <1>5, TypesKept DEF SocialInv, BackendStep

LEMMA UpdateOwnStep ==
    ASSUME SocialInv, UpdateOwnFlag
    PROVE  SocialInv' /\ BackendStep
  <1>1. "toggle" \in DOMAIN mutating /\ Advance("toggle", "checked") /\ UNCHANGED pageVars
    BY DEF UpdateOwnFlag
  <1>2. mutating["toggle"].owner \in Users /\ mutating["toggle"].value \in BOOLEAN
    BY <1>1 DEF UpdateOwnFlag, SocialInv, Sent, Mutation
  <1>3. FriendshipsNext
    BY <1>2 DEF UpdateOwnFlag, FriendshipsNext
  <1>4. Sent'
    BY <1>1, <1>2, SocialAssumption, AdvanceKeeps DEF SocialInv
  <1>5. Admitted'
    BY <1>1 DEF pageVars, SocialInv, Admitted
  <1>6. QED
    BY <1>3, <1>4, <1>5, TypesKept DEF SocialInv, BackendStep

LEMMA ReadOwnStep ==
    ASSUME SocialInv, ReadOwnFlag
    PROVE  SocialInv' /\ BackendStep
  <1> DEFINE request == mutating["toggle"]
             answer  == [request EXCEPT !.at = "done", !.value = public[request.owner],
                                        !.behind = FALSE]
  <1>1. /\ "toggle" \in DOMAIN mutating
        /\ mutating' = [mutating EXCEPT !["toggle"] = answer]
        /\ UNCHANGED <<friendshipVars, pageVars>>
    BY DEF ReadOwnFlag
  <1>2. request \in Mutation /\ request.owner \in Users /\ public[request.owner] \in BOOLEAN
    BY <1>1 DEF ReadOwnFlag, SocialInv, Sent, Mutation, FriendshipsTypeOK
  <1>3. answer \in Mutation /\ answer.owner \in Users
    BY <1>2 DEF Mutation
  <1> HIDE DEF answer
  <1>4. Sent'
    BY <1>1, <1>3 DEF SocialInv, Sent
  <1>5. Admitted'
    BY <1>1 DEF pageVars, SocialInv, Admitted
  <1>6. QED
    BY <1>1, <1>4, <1>5, BackendKept DEF SocialInv

\* A mutation that is sent again is for whoever is signed in by then.
LEMMA SentAgainParts ==
    ASSUME SocialInv, NEW kind, MutationSentAgain(kind)
    PROVE  /\ kind \in DOMAIN mutating /\ DOMAIN mutating' = DOMAIN mutating
           /\ mutating'[kind] \in Mutation
           /\ mutating[kind].at = "sent" /\ mutating'[kind].at = "sent"
           /\ \A k \in DOMAIN mutating : k # kind => mutating'[k] = mutating[k]
           /\ UNCHANGED <<friendshipVars, pageVars, cache, fetching>>
  <1> DEFINE next == [mutating[kind] EXCEPT !.owner = user]
  <1>1. /\ kind \in DOMAIN mutating /\ mutating[kind].at = "sent"
        /\ mutating' = [mutating EXCEPT ![kind] = next]
        /\ UNCHANGED <<friendshipVars, pageVars, cache, fetching>>
    BY DEF MutationSentAgain
  <1>2. mutating[kind] \in Mutation /\ user \in Users \cup {None}
    BY <1>1 DEF SocialInv, Sent, Admitted
  <1>3. next \in Mutation /\ next.at = mutating[kind].at
    BY <1>2 DEF Mutation
  <1> HIDE DEF next
  <1>4. QED
    BY <1>1, <1>3

LEMMA SentAgainKeeps ==
    ASSUME SocialInv, NEW kind, MutationSentAgain(kind)
    PROVE  SocialInv' /\ BackendStep
  <1>1. Sent'
    BY SentAgainParts DEF SocialInv, Sent
  <1>2. Admitted' /\ UNCHANGED friendshipVars
    BY SentAgainParts DEF pageVars, SocialInv, Admitted
  <1>3. QED
    BY <1>1, <1>2, BackendKept DEF SocialInv

LEMMA ElsewhereStep ==
    ASSUME SocialInv, Elsewhere
    PROVE  SocialInv' /\ BackendStep
  <1>1. UNCHANGED pageVars
    BY DEF Elsewhere
  <1>2. Admitted'
    BY <1>1 DEF pageVars, SocialInv, Admitted
  <1>3. CASE \E u, v \in Users :
                 /\ \/ CheckRequest(u, v) \/ InsertRequest(u, v) \/ AcceptRequest(u, v)
                    \/ DeclineRequest(u, v) \/ RemoveFriend(u, v)
                 /\ UNCHANGED mutating
    <2>1. FriendshipsNext /\ UNCHANGED mutating
      BY <1>3, RequestSteps
    <2>2. QED
      BY <1>2, <2>1, TypesKept DEF SocialInv, Sent, BackendStep
  <1>4. CASE \E u \in Users : /\ SetPublic(u, ~public[u])
                             /\ mutating' = Aged(mutating, {"toggle"}, {u})
    <2>1. PICK u \in Users : /\ SetPublic(u, ~public[u])
                             /\ mutating' = Aged(mutating, {"toggle"}, {u})
      BY <1>4
    <2>2. (~public[u]) \in BOOLEAN
      OBVIOUS
    <2>3. FriendshipsNext
      BY <2>1, <2>2 DEF FriendshipsNext
    <2>4. Sent'
      BY <2>1, AgedKeeps DEF SocialInv
    <2>5. QED
      BY <1>2, <2>3, <2>4, TypesKept DEF SocialInv, BackendStep
  <1>5. QED
    BY <1>3, <1>4 DEF Elsewhere

LEMMA SocialStep == SocialInv /\ [Next]_vars => SocialInv' /\ BackendStep
  <1> SUFFICES ASSUME SocialInv, [Next]_vars PROVE SocialInv' /\ BackendStep
    OBVIOUS
  <1>1. CASE User
    BY <1>1, UserStep
  <1>2. CASE handleAuthed
    <2>1. /\ UNCHANGED <<friendshipVars, mutating>>
          /\ signingIn # None /\ user' = signingIn /\ signingIn' = None
          /\ route' = "app" /\ tab' = "today" /\ scope' = "global"
      BY <1>2 DEF handleAuthed
    <2>2. Admitted' /\ Sent'
      BY <2>1 DEF SocialInv, Admitted, Sent, Pages, Tabs, Scopes
    <2>3. QED
      BY <2>1, <2>2, BackendKept DEF SocialInv
  <1>3. CASE SignInFails \/ OtherTab
    <2>1. /\ UNCHANGED <<friendshipVars, mutating, route, tab, scope>>
          /\ user' \in Users \cup {None} /\ signingIn' \in {None, signingIn}
      BY <1>3 DEF SignInFails, OtherTab, SocialInv, Admitted
    <2>2. Admitted' /\ Sent'
      BY <2>1 DEF SocialInv, Admitted, Sent
    <2>3. QED
      BY <2>1, <2>2, BackendKept DEF SocialInv
  <1>4. ASSUME NEW q \in QueryKeys, Fetch(q) \/ SentAgain(q) \/ Read(q) \/ Arrive(q) \/ FetchFails(q)
        PROVE  SocialInv' /\ BackendStep
    BY <1>4, PageStep DEF Fetch, SentAgain, Read, Arrive, FetchFails, pageVars, SocialInv, Admitted
  <1>5. CASE CheckOwn \/ UpdateOwnFlag \/ ReadOwnFlag
    BY <1>5, CheckOwnStep, UpdateOwnStep, ReadOwnStep
  <1>6. CASE \/ Toggled
             \/ \E kind \in Kinds : MutationFails(kind) \/ FriendMutated(kind)
    <2>1. PICK kind : mutating' = Without(mutating, {kind})
      BY <1>6 DEF Toggled, MutationFails, FriendMutated
    <2>2. UNCHANGED <<friendshipVars, route, tab, scope, signingIn>> /\ user' \in {user, None}
      BY <1>6 DEF Toggled, MutationFails, FriendMutated, pageVars
    <2>3. Admitted' /\ Sent'
      BY <2>1, <2>2, WithoutKeeps DEF SocialInv, Admitted
    <2>4. QED
      BY <2>2, <2>3, BackendKept DEF SocialInv
  <1>7. ASSUME NEW kind \in Kinds, ServeOwn(kind) \/ MutationSentAgain(kind)
        PROVE  SocialInv' /\ BackendStep
    BY <1>7, ServeStep, SentAgainKeeps
  <1>8. CASE Elsewhere
    BY <1>8, ElsewhereStep
  <1>9. CASE UNCHANGED vars
    BY <1>9, PageStep DEF vars, pageVars, SocialInv, Admitted
  <1>10. QED
    BY <1>1, <1>2, <1>3, <1>4, <1>5, <1>6, <1>7, <1>8, <1>9 DEF Next

LEMMA SocialInvariant == Spec => []SocialInv
  BY SocialInitInv, SocialStep, PTL DEF Spec

-----------------------------------------------------------------------------
\* The tab with all that goes on around it implements the backend of Friendships:
\* every step of the one is a step of the other, or none of the backend's.
THEOREM SocialIsFriendships == Spec => FriendshipsSpec
  <1>1. Init => FriendshipsInit
    BY DEF Init
  <1>2. SocialInv /\ [Next]_vars => [FriendshipsNext]_friendshipVars
    BY SocialStep DEF BackendStep
  <1>3. QED
    BY <1>1, <1>2, SocialInvariant, PTL DEF Spec, FriendshipsSpec

\* So nobody becomes a friend without having said so, whatever the page sends and
\* whichever of its answers are lost.
THEOREM SocialNeedsConsent == Spec => []Consent
  BY SocialIsFriendships, FriendshipNeedsConsent, PTL

-----------------------------------------------------------------------------
(***************************************************************************)
(* What the tab has cached and what it is being told, against the table    *)
(* the backend reads it from.                                              *)
(***************************************************************************)
\* An entry of the cache has its four parts.
EntryOK(q, e) ==
    /\ DOMAIN e = {"owner", "value", "behind", "invalid"}
    /\ e.owner \in Users \cup {None}
    /\ q \in Boards \cup {FriendsKey, SettingsKey} => e.owner \in Users
    /\ e.behind \in BOOLEAN /\ e.invalid \in BOOLEAN
    /\ ValueOK(q, e.value)

\* An answer that is being read has as many lists as have been read.
ReadLists(n) == {Lists[i] : i \in 1..n}
RequestOK(q, e) ==
    /\ DOMAIN e = {"owner", "value", "behind", "read"}
    /\ e.owner \in Users \cup {None}
    /\ NeedsSession(q) /\ e.read > 0 => e.owner \in Users
    /\ e.behind \in BOOLEAN
    /\ e.read \in 0..Reads(q)
    /\ q = FriendsKey => e.value \in [ReadLists(e.read) -> SUBSET Users]
    /\ q # FriendsKey /\ e.read = 1 => ValueOK(q, e.value)

EntriesOK(entries)   == DOMAIN entries \subseteq QueryKeys /\ \A q \in DOMAIN entries : EntryOK(q, entries[q])
RequestsOK(requests) == DOMAIN requests \subseteq QueryKeys /\ \A q \in DOMAIN requests : RequestOK(q, requests[q])

TabTypes == EntriesOK(cache) /\ RequestsOK(fetching)

\* What an entry or an answer says of whom.
Told(e) == [owner |-> e.owner, value |-> e.value]

\* What the entries, and the requests the backend has begun to answer, hold of a
\* query that nothing but a mutation of this tab may have made out of date; only
\* the friends' mutations invalidate, and only the list of friends.
CachedIn(entries, q) ==
    {Told(entries[k]) : k \in {k \in {q} \cap DOMAIN entries :
                                  ~entries[k].behind /\ (k = FriendsKey => ~entries[k].invalid)}}
FetchedIn(requests, q) ==
    {Told(requests[k]) : k \in {k \in {q} \cap DOMAIN requests :
                                   ~requests[k].behind /\ requests[k].read > 0}}
Cached(q)  == CachedIn(cache, q)
Fetched(q) == FetchedIn(fetching, q)

\* A mutation of u that has changed a row with v, or the flag of u.
Changing(u, v) ==
    \E kind \in DOMAIN mutating \ {"toggle"} :
        mutating[kind].owner = u /\ mutating[kind].on = v /\ mutating[kind].at = "done"
Toggling(u) ==
    "toggle" \in DOMAIN mutating /\ mutating["toggle"].owner = u
                                 /\ mutating["toggle"].at \in {"checked", "done"}

\* They say what the backend would say now: of every list that has been read, but
\* for the users a mutation is about;
FriendsSeen(e) ==
    \A l \in DOMAIN e.value, v \in Users :
        Changing(e.owner, v) \/ (v \in e.value[l] <=> v \in Listed(e.owner, l))
FriendsTrue == \A e \in Cached(FriendsKey) \cup Fetched(FriendsKey) : FriendsSeen(e)

\* of the flag, as does the answer of a toggle, which replaces what is cached;
FlagSeen(e) == e.value = [username |-> e.owner, public |-> public[e.owner]]
ToggleTrue ==
    "toggle" \in DOMAIN mutating =>
        LET toggle == mutating["toggle"]
        IN  toggle.at = "done" /\ ~toggle.behind => toggle.value = public[toggle.owner]
FlagTrue ==
    /\ \A e \in Cached(SettingsKey) : Toggling(e.owner) \/ FlagSeen(e)
    /\ \A e \in Fetched(SettingsKey) : FlagSeen(e)
    /\ ToggleTrue

\* and of the friends' leaderboard.
FriendsBoard == BoardKey("friends")
BoardTrue ==
    \A e \in Cached(FriendsBoard) \cup Fetched(FriendsBoard) :
        e.value = Leaderboard(e.owner, "friends")

-----------------------------------------------------------------------------
LEMMA KeysDiffer ==
    /\ Boards \cup {FriendsKey, SettingsKey} \subseteq QueryKeys
    /\ FriendsKey # SettingsKey
    /\ FriendsKey \notin Boards /\ SettingsKey \notin Boards
    /\ FriendsBoard \in Boards
  BY DEF Boards, BoardKey, Scopes, FriendsKey, SettingsKey, QueryKeys, FriendsBoard

LEMMA ValuesOf ==
    ASSUME NEW value
    PROVE  /\ ValueOK(FriendsKey, value) <=> value \in FriendLists
           /\ ValueOK(SettingsKey, value) <=> value \in [username : Users, public : BOOLEAN]
           /\ \A q \in Boards : ValueOK(q, value) <=> value \in Seq(Users) /\ IsInjective(value)
           /\ \A q : q \notin Boards \cup {FriendsKey, SettingsKey}
                       => (ValueOK(q, value) <=> value \subseteq {typed[q[2]]})
  <1>1. ValueOK(FriendsKey, value) <=> value \in FriendLists
    BY KeysDiffer, Zenon DEF ValueOK
  <1>2. ValueOK(SettingsKey, value) <=> value \in [username : Users, public : BOOLEAN]
    BY KeysDiffer DEF ValueOK
  <1>3. ASSUME NEW q \in Boards
        PROVE  ValueOK(q, value) <=> value \in Seq(Users) /\ IsInjective(value)
    BY KeysDiffer DEF ValueOK
  <1>4. ASSUME NEW q, q \notin Boards \cup {FriendsKey, SettingsKey}
        PROVE  ValueOK(q, value) <=> value \subseteq {typed[q[2]]}
    BY <1>4 DEF ValueOK
  <1>5. QED
    BY <1>1, <1>2, <1>3, <1>4

\* Aging an entry changes behind only.
LEMMA AgedParts ==
    ASSUME NEW f, NEW keys, NEW us, NEW k \in DOMAIN f, {"owner", "value", "behind"} \subseteq DOMAIN f[k]
    PROVE  LET e == Aged(f, keys, us)[k]
           IN  /\ DOMAIN e = DOMAIN f[k]
               /\ \A part \in DOMAIN f[k] : part # "behind" => e[part] = f[k][part]
               /\ k \in keys /\ f[k].owner \in us => e.behind = TRUE
               /\ ~(k \in keys /\ f[k].owner \in us) => e.behind = f[k].behind
  BY DEF Aged

LEMMA AgedEntries ==
    ASSUME NEW f, EntriesOK(f), NEW keys, NEW us
    PROVE  /\ EntriesOK(Aged(f, keys, us))
           /\ \A q : CachedIn(Aged(f, keys, us), q) \subseteq
                        {e \in CachedIn(f, q) : q \in keys => e.owner \notin us}
  <1> DEFINE g == Aged(f, keys, us)
  <1>1. DOMAIN g = DOMAIN f
    BY DEF Aged
  <1>2. \A k \in DOMAIN f : /\ DOMAIN g[k] = DOMAIN f[k]
                            /\ g[k].owner = f[k].owner /\ g[k].value = f[k].value
                            /\ g[k].invalid = f[k].invalid
                            /\ g[k].behind = (f[k].behind \/ (k \in keys /\ f[k].owner \in us))
                            /\ g[k].behind \in BOOLEAN
    <2> TAKE k \in DOMAIN f
    <2>1. DOMAIN f[k] = {"owner", "value", "behind", "invalid"} /\ f[k].behind \in BOOLEAN
      BY DEF EntriesOK, EntryOK
    <2>2. /\ DOMAIN g[k] = DOMAIN f[k]
          /\ \A part \in DOMAIN f[k] : part # "behind" => g[k][part] = f[k][part]
          /\ k \in keys /\ f[k].owner \in us => g[k].behind = TRUE
          /\ ~(k \in keys /\ f[k].owner \in us) => g[k].behind = f[k].behind
      BY <2>1, AgedParts, Zenon
    <2> HIDE DEF g
    <2>3. CASE k \in keys /\ f[k].owner \in us
      BY <2>1, <2>2, <2>3
    <2>4. CASE ~(k \in keys /\ f[k].owner \in us)
      BY <2>1, <2>2, <2>4
    <2>5. QED
      BY <2>3, <2>4
  <1> HIDE DEF g
  <1>3. EntriesOK(g)
    BY <1>1, <1>2 DEF EntriesOK, EntryOK
  <1>4. ASSUME NEW q, NEW e \in CachedIn(g, q)
        PROVE  e \in CachedIn(f, q) /\ (q \in keys => e.owner \notin us)
    BY <1>1, <1>2 DEF CachedIn, Told
  <1>5. QED
    BY <1>3, <1>4 DEF g

LEMMA AgedRequests ==
    ASSUME NEW f, RequestsOK(f), NEW keys, NEW us
    PROVE  /\ RequestsOK(Aged(f, keys, us))
           /\ \A q : FetchedIn(Aged(f, keys, us), q) \subseteq
                        {e \in FetchedIn(f, q) : q \in keys => e.owner \notin us}
  <1> DEFINE g == Aged(f, keys, us)
  <1>1. DOMAIN g = DOMAIN f
    BY DEF Aged
  <1>2. \A k \in DOMAIN f : /\ DOMAIN g[k] = DOMAIN f[k]
                            /\ g[k].owner = f[k].owner /\ g[k].value = f[k].value
                            /\ g[k].read = f[k].read
                            /\ g[k].behind = (f[k].behind \/ (k \in keys /\ f[k].owner \in us))
                            /\ g[k].behind \in BOOLEAN
    <2> TAKE k \in DOMAIN f
    <2>1. DOMAIN f[k] = {"owner", "value", "behind", "read"} /\ f[k].behind \in BOOLEAN
      BY DEF RequestsOK, RequestOK
    <2>2. /\ DOMAIN g[k] = DOMAIN f[k]
          /\ \A part \in DOMAIN f[k] : part # "behind" => g[k][part] = f[k][part]
          /\ k \in keys /\ f[k].owner \in us => g[k].behind = TRUE
          /\ ~(k \in keys /\ f[k].owner \in us) => g[k].behind = f[k].behind
      BY <2>1, AgedParts, Zenon
    <2> HIDE DEF g
    <2>3. CASE k \in keys /\ f[k].owner \in us
      BY <2>1, <2>2, <2>3
    <2>4. CASE ~(k \in keys /\ f[k].owner \in us)
      BY <2>1, <2>2, <2>4
    <2>5. QED
      BY <2>3, <2>4
  <1> HIDE DEF g
  <1>3. RequestsOK(g)
    BY <1>1, <1>2 DEF RequestsOK, RequestOK
  <1>4. ASSUME NEW q, NEW e \in FetchedIn(g, q)
        PROVE  e \in FetchedIn(f, q) /\ (q \in keys => e.owner \notin us)
    BY <1>1, <1>2 DEF FetchedIn, Told
  <1>5. QED
    BY <1>3, <1>4 DEF g

LEMMA WithoutRequests ==
    ASSUME NEW f, RequestsOK(f), NEW keys
    PROVE  /\ RequestsOK(Without(f, keys))
           /\ \A q : FetchedIn(Without(f, keys), q) \subseteq {e \in FetchedIn(f, q) : q \notin keys}
  <1> DEFINE g == Without(f, keys)
  <1>1. DOMAIN g = DOMAIN f \ keys /\ \A k \in DOMAIN g : g[k] = f[k]
    BY DEF Without
  <1> HIDE DEF g
  <1>2. RequestsOK(g)
    BY <1>1 DEF RequestsOK
  <1>3. ASSUME NEW q, NEW e \in FetchedIn(g, q)
        PROVE  e \in FetchedIn(f, q) /\ q \notin keys
    BY <1>1 DEF FetchedIn
  <1>4. QED
    BY <1>2, <1>3 DEF g

LEMMA WithEntry ==
    ASSUME NEW f, EntriesOK(f), NEW key \in QueryKeys, NEW e, EntryOK(key, e)
    PROVE  /\ EntriesOK(With(f, key, e))
           /\ \A q : q # key => CachedIn(With(f, key, e), q) = CachedIn(f, q)
           /\ CachedIn(With(f, key, e), key) \subseteq {Told(e)}
           /\ e.behind => CachedIn(With(f, key, e), key) = {}
  <1> DEFINE g == With(f, key, e)
  <1>1. DOMAIN g = DOMAIN f \cup {key} /\ g[key] = e /\ \A k \in DOMAIN f \ {key} : g[k] = f[k]
    BY DEF With
  <1> HIDE DEF g
  <1>2. EntriesOK(g)
    BY <1>1 DEF EntriesOK
  <1>3. ASSUME NEW q, q # key
        PROVE  CachedIn(g, q) = CachedIn(f, q)
    BY <1>1, <1>3 DEF CachedIn
  <1>4. CachedIn(g, key) \subseteq {Told(e)} /\ (e.behind => CachedIn(g, key) = {})
    BY <1>1 DEF CachedIn
  <1>5. QED
    BY <1>2, <1>3, <1>4 DEF g

LEMMA WithRequest ==
    ASSUME NEW f, RequestsOK(f), NEW key \in QueryKeys, NEW e, RequestOK(key, e)
    PROVE  /\ RequestsOK(With(f, key, e))
           /\ \A q : q # key => FetchedIn(With(f, key, e), q) = FetchedIn(f, q)
           /\ FetchedIn(With(f, key, e), key) \subseteq {Told(e)}
           /\ e.behind \/ e.read = 0 => FetchedIn(With(f, key, e), key) = {}
  <1> DEFINE g == With(f, key, e)
  <1>1. DOMAIN g = DOMAIN f \cup {key} /\ g[key] = e /\ \A k \in DOMAIN f \ {key} : g[k] = f[k]
    BY DEF With
  <1> HIDE DEF g
  <1>2. RequestsOK(g)
    BY <1>1 DEF RequestsOK
  <1>3. ASSUME NEW q, q # key
        PROVE  FetchedIn(g, q) = FetchedIn(f, q)
    BY <1>1, <1>3 DEF FetchedIn
  <1>4. FetchedIn(g, key) \subseteq {Told(e)} /\ (e.behind \/ e.read = 0 => FetchedIn(g, key) = {})
    BY <1>1 DEF FetchedIn
  <1>5. QED
    BY <1>2, <1>3, <1>4 DEF g

-----------------------------------------------------------------------------
\* A statement of a request of u that is about v.
RowStep(u, v) ==
    \/ CheckRequest(u, v) \/ InsertRequest(u, v) \/ AcceptRequest(u, v)
    \/ DeclineRequest(u, v) \/ RemoveFriend(u, v)

\* It touches no row but theirs,
LEMMA RowsOfOthers ==
    ASSUME NEW u, NEW v, RowStep(u, v)
    PROVE  /\ UNCHANGED public
           /\ \A f : {f.requester, f.addressee} # {u, v} => (f \in friendships <=> f \in friendships')
  <1> DEFINE Kept == \A f : {f.requester, f.addressee} # {u, v} =>
                                (f \in friendships <=> f \in friendships')
  <1>1. CASE CheckRequest(u, v)
    BY <1>1 DEF CheckRequest
  <1>2. CASE InsertRequest(u, v)
    <2>1. Pending(u, v).requester = u /\ Pending(u, v).addressee = v
      BY DEF Pending
    <2>2. UNCHANGED public /\ friendships' \in {friendships, friendships \cup {Pending(u, v)}}
      BY <1>2 DEF InsertRequest
    <2>3. QED
      BY <2>1, <2>2
  <1>3. CASE AcceptRequest(u, v)
    <2> DEFINE new == [requester |-> v, addressee |-> u, status |-> "accepted"]
    <2>1. Pending(v, u).requester = v /\ Pending(v, u).addressee = u
      BY DEF Pending
    <2>2. new.requester = v /\ new.addressee = u
      OBVIOUS
    <2>3. UNCHANGED public /\ friendships' = (friendships \ {Pending(v, u)}) \cup {new}
      BY <1>3 DEF AcceptRequest
    <2> HIDE DEF new
    <2>4. QED
      BY <2>1, <2>2, <2>3
  <1>4. ASSUME NEW status, Delete(u, v, status)
        PROVE  UNCHANGED public /\ Kept
    BY <1>4 DEF Delete, Between
  <1>5. QED
    BY <1>1, <1>2, <1>3, <1>4 DEF RowStep, DeclineRequest, RemoveFriend

\* so that only what is listed of the one for the other may change.
LEMMA ListedOfOthers ==
    ASSUME NEW u, NEW v, RowStep(u, v), NEW w, NEW x, {w, x} # {u, v}, NEW l \in ReadLists(3)
    PROVE  x \in Listed(w, l) <=> x \in Listed(w, l)'
  <1>1. \A f : {f.requester, f.addressee} = {w, x} => (f \in friendships <=> f \in friendships')
    BY RowsOfOthers
  <1>2. /\ Pending(x, w).requester = x /\ Pending(x, w).addressee = w
        /\ Pending(w, x).requester = w /\ Pending(w, x).addressee = x
    BY DEF Pending
  <1>3. /\ Pending(x, w) \in friendships <=> Pending(x, w) \in friendships'
        /\ Pending(w, x) \in friendships <=> Pending(w, x) \in friendships'
    BY <1>1, <1>2
  <1>4. (\E f \in Between(w, x) : f.status = "accepted")
            <=> (\E f \in Between(w, x)' : f.status = "accepted")
    BY <1>1 DEF Between
  <1>5. l = "friends" \/ l = "incoming" \/ l = "outgoing"
    BY DEF ReadLists, Lists
  <1>6. CASE l = "friends"
    BY <1>4, <1>6 DEF Listed
  <1>7. CASE l = "incoming"
    BY <1>3, <1>7 DEF Listed
  <1>8. CASE l = "outgoing"
    BY <1>3, <1>8 DEF Listed
  <1>9. QED
    BY <1>5, <1>6, <1>7, <1>8

LEMMA BoardOfOthers ==
    ASSUME NEW u, NEW v, RowStep(u, v), NEW w, w \notin {u, v}
    PROVE  Leaderboard(w, "friends")' = Leaderboard(w, "friends")
  <1>1. \A f : w \in {f.requester, f.addressee} => (f \in friendships <=> f \in friendships')
    BY RowsOfOthers
  <1>2. \A x : (\E f \in friendships : f.status = "accepted" /\ {f.requester, f.addressee} = {w, x})
               <=> (\E f \in friendships' : f.status = "accepted" /\ {f.requester, f.addressee} = {w, x})
    BY <1>1
  <1>3. friendsScope(w)' = friendsScope(w)
    BY <1>2 DEF friendsScope
  <1>4. QED
    BY <1>3, Zenon DEF Leaderboard

\* A list that is shown may come from the one side, and the scope of the board
\* from the other: they name the same friends.
LEMMA ScopeIsListed ==
    ASSUME NEW u
    PROVE  friendsScope(u) = {u} \cup Listed(u, "friends")
  <1>1. Listed(u, "friends") = {v \in Users : \E f \in Between(u, v) : f.status = "accepted"}
    BY DEF Listed
  <1>2. QED
    BY <1>1 DEF friendsScope, Between

\* A board names the first of those who have typed, each once.
LEMMA BoardIs ==
    ASSUME NEW u \in Users, NEW s
    PROVE  LET names == IF s = "friends" THEN friendsScope(u) ELSE Users
               board == Leaderboard(u, s)
               busy  == {v \in names : typed[v] > 0}
           IN  /\ board \in Seq(Users) /\ IsInjective(board)
               /\ Cardinality(busy) <= BoardLimit => ToSet(board) = busy
  <1> DEFINE names == IF s = "friends" THEN friendsScope(u) ELSE Users
             busy  == {v \in names : typed[v] > 0}
             f     == [v \in busy |-> typed[v]]
             n     == Cardinality(busy)
             r     == Ranking(f)
             board == Leaderboard(u, s)
  <1>1. IsFiniteSet(busy) /\ busy \subseteq Users
    <2>1. names \subseteq Users
      BY DEF friendsScope
    <2>2. busy \subseteq Users
      BY <2>1
    <2>3. QED
      BY <2>2, FriendshipsAssumption, FS_Subset
  <1>2. f \in [busy -> Int]
    BY <1>1, FriendshipsAssumption
  <1>3. BoardLimit \in Nat
    BY FriendshipsAssumption
  <1>4. board = SubSeq(r, 1, Min({BoardLimit, Len(r)}))
    BY Zenon DEF Leaderboard
  <1> HIDE DEF busy, f, board, names
  <1>5. /\ n \in Nat /\ r \in [1..n -> busy]
        /\ \A i, j \in 1..n : r[i] = r[j] => i = j
        /\ \A x \in busy : \E i \in 1..n : r[i] = x
    BY <1>1, <1>2, RankingIs
  <1>6. PICK m \in 0..n : /\ board = [i \in 1..m |-> r[i]]
                          /\ m = BoardLimit \/ m = n
                          /\ n <= BoardLimit => m = n
    <2>1. \E m \in 0..n :
              /\ SubSeq(r, 1, Min({BoardLimit, Len(r)})) = [i \in 1..m |-> r[i]]
              /\ m = BoardLimit \/ m = n
              /\ n <= BoardLimit => m = n
      BY <1>1, <1>2, <1>3, RankingHead, ZenonT(30)
    <2>2. QED
      BY <2>1, <1>4, Zenon
  <1> HIDE DEF n, r
  <1>7. m \in Nat /\ 1..m \subseteq 1..n
    BY <1>5, <1>6
  <1>8. board \in [1..m -> Users]
    BY <1>1, <1>5, <1>6, <1>7
  <1>9. board \in Seq(Users)
    BY <1>7, <1>8
  <1>10. IsInjective(board)
    BY <1>5, <1>6, <1>7 DEF IsInjective
  <1>11. ASSUME n <= BoardLimit
         PROVE  ToSet(board) = busy
    <2>1. m = n
      BY <1>3, <1>5, <1>6, <1>11
    <2>2. ToSet(board) = {r[i] : i \in 1..n}
      BY <1>6, <2>1 DEF ToSet
    <2>3. QED
      BY <1>5, <2>2
  <1>12. QED
    BY <1>9, <1>10, <1>11 DEF board, busy, names, n

-----------------------------------------------------------------------------
TabTrue == FriendsTrue /\ FlagTrue /\ BoardTrue

\* Nothing new is held of a query.
Less(q) == Cached(q)' \subseteq Cached(q) \cup Fetched(q) /\ Fetched(q)' \subseteq Fetched(q)

ChangesKept == \A u, v \in Users : Changing(u, v) => Changing(u, v)'
TogglesKept == \A u \in Users : Toggling(u) => Toggling(u)'

LEMMA HeldTypes ==
    ASSUME TabTypes
    PROVE  /\ \A e \in Cached(FriendsKey) \cup Fetched(FriendsKey) :
                  e.owner \in Users /\ DOMAIN e.value \subseteq ReadLists(3)
           /\ \A q \in Boards \cup {SettingsKey} :
                  \A e \in Cached(q) \cup Fetched(q) : e.owner \in Users
  <1>1. \A n \in 0..3 : ReadLists(n) \subseteq ReadLists(3)
    BY DEF ReadLists
  <1>2. ASSUME NEW q \in Boards \cup {FriendsKey, SettingsKey}, NEW e \in Cached(q)
        PROVE  e.owner \in Users /\ (q = FriendsKey => DOMAIN e.value \subseteq ReadLists(3))
    <2>1. q \in DOMAIN cache /\ e.owner = cache[q].owner /\ e.value = cache[q].value
      BY DEF Cached, CachedIn, Told
    <2>2. EntryOK(q, cache[q])
      BY <2>1 DEF TabTypes, EntriesOK
    <2>3. ToSet(Lists) \subseteq ReadLists(3)
      BY DEF ToSet, Lists, ReadLists
    <2>4. q = FriendsKey => cache[q].value \in [ToSet(Lists) -> SUBSET Users]
      BY <2>2, ValuesOf DEF EntryOK, FriendLists
    <2>5. QED
      BY <2>1, <2>2, <2>3, <2>4 DEF EntryOK
  <1>3. ASSUME NEW q \in Boards \cup {FriendsKey, SettingsKey}, NEW e \in Fetched(q)
        PROVE  e.owner \in Users /\ (q = FriendsKey => DOMAIN e.value \subseteq ReadLists(3))
    <2>1. q \in DOMAIN fetching /\ e.owner = fetching[q].owner /\ e.value = fetching[q].value
      BY DEF Fetched, FetchedIn, Told
    <2>2. RequestOK(q, fetching[q])
      BY <2>1 DEF TabTypes, RequestsOK
    <2>3. q = FriendsKey => fetching[q].read \in 0..3
      BY <2>2 DEF RequestOK, Reads, Lists
    <2>4. fetching[q].read \in Nat /\ fetching[q].read > 0
      BY <2>2 DEF Fetched, FetchedIn, RequestOK
    <2>5. QED
      BY <1>1, <2>1, <2>2, <2>3, <2>4 DEF RequestOK, NeedsSession
  <1>4. QED
    BY <1>2, <1>3

LEMMA FriendsKept ==
    ASSUME TabTypes, FriendsTrue, UNCHANGED friendships, Less(FriendsKey), ChangesKept
    PROVE  FriendsTrue'
  <1> SUFFICES ASSUME NEW e \in Cached(FriendsKey)' \cup Fetched(FriendsKey)'
               PROVE  FriendsSeen(e)'
    BY DEF FriendsTrue
  <1>1. e \in Cached(FriendsKey) \cup Fetched(FriendsKey)
    BY DEF Less
  <1>2. FriendsSeen(e) /\ e.owner \in Users
    BY <1>1, HeldTypes DEF FriendsTrue
  <1>3. \A l, v : (v \in Listed(e.owner, l)) <=> (v \in Listed(e.owner, l))'
    BY DEF Listed, Between
  <1>4. QED
    BY <1>2, <1>3 DEF FriendsSeen, ChangesKept

LEMMA BoardKept ==
    ASSUME BoardTrue, UNCHANGED friendships, Less(FriendsBoard)
    PROVE  BoardTrue'
  <1> SUFFICES ASSUME NEW e \in Cached(FriendsBoard)' \cup Fetched(FriendsBoard)'
               PROVE  e.value = Leaderboard(e.owner, "friends")'
    BY DEF BoardTrue
  <1>1. e.value = Leaderboard(e.owner, "friends")
    BY DEF Less, BoardTrue
  <1>2. QED
    BY <1>1 DEF Leaderboard, friendsScope

LEMMA FlagKept ==
    ASSUME TabTypes, FlagTrue, UNCHANGED public, Less(SettingsKey), TogglesKept, ToggleTrue'
    PROVE  FlagTrue'
  <1>1. ASSUME NEW e \in Cached(SettingsKey)'
        PROVE  Toggling(e.owner)' \/ FlagSeen(e)'
    <2>1. e \in Cached(SettingsKey) \cup Fetched(SettingsKey)
      BY <1>1 DEF Less
    <2>2. e.owner \in Users
      BY <2>1, HeldTypes
    <2>3. Toggling(e.owner) \/ FlagSeen(e)
      BY <2>1 DEF FlagTrue
    <2>4. QED
      BY <2>2, <2>3 DEF FlagSeen, TogglesKept
  <1>2. ASSUME NEW e \in Fetched(SettingsKey)'
        PROVE  FlagSeen(e)'
    BY <1>2 DEF Less, FlagTrue, FlagSeen
  <1>3. QED
    BY <1>1, <1>2 DEF FlagTrue

LEMMA ToggleKept ==
    ASSUME ToggleTrue, UNCHANGED public,
           "toggle" \in DOMAIN mutating' =>
               "toggle" \in DOMAIN mutating /\ mutating'["toggle"] = mutating["toggle"]
    PROVE  ToggleTrue'
  BY DEF ToggleTrue

\* Nothing has happened to either side.
LEMMA TabIdle ==
    ASSUME TabTypes, TabTrue, UNCHANGED <<friendships, public, cache, fetching, mutating>>
    PROVE  TabTypes' /\ TabTrue'
  <1>1. TabTypes'
    BY DEF TabTypes
  <1>2. \A q : Less(q)
    BY DEF Less, Cached, Fetched
  <1>3. ChangesKept /\ TogglesKept
    BY DEF ChangesKept, TogglesKept, Changing, Toggling
  <1>4. ToggleTrue'
    BY ToggleKept DEF TabTrue, FlagTrue
  <1>5. QED
    BY <1>1, <1>2, <1>3, <1>4, FriendsKept, BoardKept, FlagKept DEF TabTrue

LEMMA TabDropped ==
    ASSUME TabTypes, TabTrue, cache' = Nothing, fetching' = Nothing, mutating' = Nothing
    PROVE  TabTypes' /\ TabTrue'
  <1>1. DOMAIN cache' = {} /\ DOMAIN fetching' = {} /\ DOMAIN mutating' = {}
    BY DEF Nothing
  <1>2. TabTypes'
    BY <1>1 DEF TabTypes, EntriesOK, RequestsOK
  <1>3. \A q : Cached(q)' = {} /\ Fetched(q)' = {}
    BY <1>1 DEF Cached, CachedIn, Fetched, FetchedIn
  <1>4. ToggleTrue'
    BY <1>1 DEF ToggleTrue
  <1>5. QED
    BY <1>2, <1>3, <1>4 DEF TabTrue, FriendsTrue, FlagTrue, BoardTrue

-----------------------------------------------------------------------------
\* A request that the backend has not begun to answer holds nothing.
LEMMA FetchStep ==
    ASSUME SocialInv, TabTypes, TabTrue, NEW q \in QueryKeys, Fetch(q) \/ SentAgain(q)
    PROVE  TabTypes' /\ TabTrue'
  <1> DEFINE e == Request
  <1>1. /\ fetching' = With(fetching, q, e)
        /\ UNCHANGED <<friendships, public, cache, mutating>>
    <2>1. CASE Fetch(q)
      BY <2>1 DEF Fetch, friendshipVars
    <2>2. CASE SentAgain(q)
      BY <2>2 DEF SentAgain, With, friendshipVars
    <2>3. QED
      BY <2>1, <2>2
  <1>2. user \in Users \cup {None}
    BY DEF SocialInv, Admitted
  <1>4. Nothing \in [ReadLists(0) -> SUBSET Users]
    BY DEF Nothing, ReadLists
  <1>5. 0 \in 0..Reads(q)
    BY DEF Reads, Lists
  <1>6. RequestOK(q, e)
    BY <1>2, <1>4, <1>5 DEF RequestOK, Request
  <1>7. RequestsOK(fetching)
    BY DEF TabTypes
  <1>8. /\ RequestsOK(fetching')
        /\ \A k : k # q => Fetched(k)' = Fetched(k)
        /\ Fetched(q)' = {}
    <2> HIDE DEF e
    <2>1. /\ RequestsOK(With(fetching, q, e))
          /\ \A k : k # q => FetchedIn(With(fetching, q, e), k) = FetchedIn(fetching, k)
          /\ e.read = 0 => FetchedIn(With(fetching, q, e), q) = {}
      BY <1>6, <1>7, WithRequest
    <2>2. e.read = 0
      BY DEF e, Request
    <2>3. QED
      BY <1>1, <2>1, <2>2, Zenon DEF Fetched
  <1>9. TabTypes'
    BY <1>1, <1>8 DEF TabTypes
  <1>10. \A k : Less(k)
    BY <1>1, <1>8 DEF Less, Cached
  <1>11. ChangesKept /\ TogglesKept
    BY <1>1 DEF ChangesKept, TogglesKept, Changing, Toggling
  <1>12. ToggleTrue'
    BY <1>1, ToggleKept DEF TabTrue, FlagTrue
  <1>13. QED
    BY <1>1, <1>9, <1>10, <1>11, <1>12, FriendsKept, BoardKept, FlagKept DEF TabTrue

\* The next list of an answer is read into it.
LEMMA ListRead ==
    ASSUME NEW e, RequestOK(FriendsKey, e), e.read < 3, NEW set \in SUBSET Users
    PROVE  /\ With(e.value, Lists[e.read + 1], set) \in [ReadLists(e.read + 1) -> SUBSET Users]
           /\ With(e.value, Lists[e.read + 1], set)[Lists[e.read + 1]] = set
           /\ \A l \in ReadLists(e.read + 1) : l # Lists[e.read + 1] =>
                  l \in ReadLists(e.read) /\ With(e.value, Lists[e.read + 1], set)[l] = e.value[l]
  <1> DEFINE l == Lists[e.read + 1]
             g == With(e.value, l, set)
  <1>1. e.read \in 0..3 /\ e.value \in [ReadLists(e.read) -> SUBSET Users]
    BY DEF RequestOK, Reads, Lists
  <1>2. ReadLists(e.read + 1) = ReadLists(e.read) \cup {l}
    <2>1. 1..(e.read + 1) = 1..e.read \cup {e.read + 1}
      BY <1>1
    <2>2. QED
      BY <2>1 DEF ReadLists
  <1> HIDE DEF l
  <1>3. /\ DOMAIN g = ReadLists(e.read) \cup {l} /\ g[l] = set
        /\ \A k \in ReadLists(e.read) : k # l => g[k] = e.value[k]
        /\ g = [k \in DOMAIN g |-> g[k]]
    BY <1>1 DEF With
  <1> HIDE DEF g
  <1>4. g \in [ReadLists(e.read + 1) -> SUBSET Users]
    BY <1>1, <1>2, <1>3
  <1>5. QED
    BY <1>2, <1>3, <1>4 DEF l, g

\* What is read, of each of the queries.
LEMMA AnswerParts ==
    ASSUME SocialInv, NEW q \in QueryKeys, NEW e, RequestOK(q, e), e.read < Reads(q),
           NeedsSession(q) => e.owner \in Users,
           NEW value, value = ReadNow(q, e.owner, e)
    PROVE  /\ q = FriendsKey => /\ value \in [ReadLists(e.read + 1) -> SUBSET Users]
                                /\ \A l \in ReadLists(e.read + 1) :
                                      \/ value[l] = Listed(e.owner, l)
                                      \/ l \in ReadLists(e.read) /\ value[l] = e.value[l]
           /\ q = SettingsKey => value = [username |-> e.owner, public |-> public[e.owner]]
           /\ q = FriendsBoard => value = Leaderboard(e.owner, "friends")
           /\ q # FriendsKey => ValueOK(q, value)
  <1>1. CASE q = FriendsKey
    <2> DEFINE l   == Lists[e.read + 1]
               set == Listed(e.owner, l)
    <2>1. e.read \in 0..3 /\ e.read < 3
      BY <1>1 DEF RequestOK, Reads, Lists
    <2>2. set \in SUBSET Users
      <3>1. l = "friends" \/ l = "incoming" \/ l = "outgoing"
        BY <2>1 DEF Lists
      <3>2. QED
        BY <3>1 DEF Listed
    <2>3. value = With(e.value, l, set)
      BY <1>1, KeysDiffer DEF ReadNow
    <2> HIDE DEF set
    <2>4. /\ value \in [ReadLists(e.read + 1) -> SUBSET Users]
          /\ value[l] = set
          /\ \A k \in ReadLists(e.read + 1) : k # l => k \in ReadLists(e.read) /\ value[k] = e.value[k]
      BY <1>1, <2>1, <2>2, <2>3, ListRead
    <2>5. QED
      BY <1>1, <2>4, KeysDiffer DEF set
  <1>2. CASE q = SettingsKey
    <2>1. value = [username |-> e.owner, public |-> public[e.owner]]
      BY <1>2, KeysDiffer DEF ReadNow
    <2>2. e.owner \in Users
      BY <1>2 DEF NeedsSession
    <2>3. public[e.owner] \in BOOLEAN
      BY <2>2 DEF SocialInv, FriendshipsTypeOK
    <2>4. ValueOK(SettingsKey, value)
      BY <2>1, <2>2, <2>3, ValuesOf
    <2>5. QED
      BY <1>2, <2>1, <2>4, KeysDiffer
  <1>3. CASE q \in Boards
    <2>1. value = Leaderboard(e.owner, q[2])
      BY <1>3, KeysDiffer DEF ReadNow
    <2>2. e.owner \in Users
      BY <1>3 DEF NeedsSession
    <2>3. value \in Seq(Users) /\ IsInjective(value)
      BY <2>1, <2>2, BoardIs
    <2>4. ValueOK(q, value)
      BY <1>3, <2>3, ValuesOf
    <2>5. FriendsBoard[2] = "friends"
      BY DEF FriendsBoard, BoardKey
    <2>6. QED
      BY <1>3, <2>1, <2>4, <2>5, KeysDiffer
  <1>4. CASE q \notin Boards \cup {FriendsKey, SettingsKey}
    <2>1. value = PublicProfile(q[2])
      BY <1>4 DEF ReadNow
    <2>2. value \subseteq {typed[q[2]]}
      BY <2>1 DEF PublicProfile
    <2>3. QED
      BY <1>4, <2>2, ValuesOf, KeysDiffer
  <1>5. QED
    BY <1>1, <1>2, <1>3, <1>4

LEMMA ReadStep ==
    ASSUME SocialInv, TabTypes, TabTrue, NEW q \in QueryKeys, Read(q)
    PROVE  TabTypes' /\ TabTrue'
  <1>1. PICK e : e = fetching[q]
    OBVIOUS
  <1>2. PICK value : value = ReadNow(q, e.owner, e)
    OBVIOUS
  <1> DEFINE next == [e EXCEPT !.value = value, !.read = @ + 1]
  <1>3. /\ q \in DOMAIN fetching /\ e.read < Reads(q)
        /\ NeedsSession(q) => e.owner # None
        /\ fetching' = [fetching EXCEPT ![q] = next]
        /\ UNCHANGED <<friendships, public, cache, mutating>>
    BY <1>1, <1>2 DEF Read, friendshipVars
  <1>4. RequestsOK(fetching) /\ RequestOK(q, e)
    BY <1>1, <1>3 DEF TabTypes, RequestsOK
  <1>5. e.read \in Nat /\ e.read + 1 \in 1..Reads(q)
    <2>1. Reads(q) \in {1, 3}
      BY DEF Reads, Lists
    <2>2. QED
      BY <1>3, <1>4, <2>1 DEF RequestOK
  <1>6. /\ DOMAIN next = {"owner", "value", "behind", "read"}
        /\ next.owner = e.owner /\ next.behind = e.behind
        /\ next.value = value /\ next.read = e.read + 1
    BY <1>4 DEF RequestOK
  <1> HIDE DEF next
  <1>7. /\ q = FriendsKey => /\ value \in [ReadLists(e.read + 1) -> SUBSET Users]
                             /\ \A l \in ReadLists(e.read + 1) :
                                   \/ value[l] = Listed(e.owner, l)
                                   \/ l \in ReadLists(e.read) /\ value[l] = e.value[l]
        /\ q = SettingsKey => value = [username |-> e.owner, public |-> public[e.owner]]
        /\ q = FriendsBoard => value = Leaderboard(e.owner, "friends")
        /\ q # FriendsKey => ValueOK(q, value)
    <2>1. /\ q \in QueryKeys /\ RequestOK(q, e) /\ e.read < Reads(q)
          /\ value = ReadNow(q, e.owner, e) /\ SocialInv
          /\ NeedsSession(q) => e.owner \in Users
      BY <1>2, <1>3, <1>4 DEF RequestOK
    <2>2. QED
      BY <2>1, AnswerParts
  <1>8. RequestOK(q, next)
    BY <1>3, <1>4, <1>5, <1>6, <1>7 DEF RequestOK
  <1>9. fetching' = With(fetching, q, next)
    BY <1>3 DEF With
  <1>10. /\ RequestsOK(fetching')
         /\ \A k : k # q => Fetched(k)' = Fetched(k)
         /\ Fetched(q)' \subseteq {Told(next)}
         /\ next.behind => Fetched(q)' = {}
    <2>1. /\ RequestsOK(With(fetching, q, next))
          /\ \A k : k # q => FetchedIn(With(fetching, q, next), k) = FetchedIn(fetching, k)
          /\ FetchedIn(With(fetching, q, next), q) \subseteq {Told(next)}
          /\ next.behind \/ next.read = 0 => FetchedIn(With(fetching, q, next), q) = {}
      BY <1>4, <1>8, WithRequest
    <2>2. QED
      BY <1>9, <2>1, Zenon DEF Fetched
  <1>11. TabTypes'
    BY <1>3, <1>10 DEF TabTypes
  <1>12. \A k : k # q => Less(k)
    BY <1>3, <1>10 DEF Less, Cached
  <1>13. \A k : Cached(k)' = Cached(k)
    BY <1>3 DEF Cached
  <1>14. ChangesKept /\ TogglesKept /\ ToggleTrue'
    <2>1. ToggleTrue'
      BY <1>3, ToggleKept DEF TabTrue, FlagTrue
    <2>2. QED
      BY <1>3, <2>1 DEF ChangesKept, TogglesKept, Changing, Toggling
  <1>15. ASSUME NEW k \in Fetched(q)'
         PROVE  k.owner = e.owner /\ k.value = value /\ ~e.behind
    BY <1>6, <1>10 DEF Told
  <1>16. FriendsTrue'
    <2>1. CASE q # FriendsKey
      BY <1>3, <1>12, <1>14, <2>1, FriendsKept DEF TabTrue
    <2>2. CASE q = FriendsKey
      <3> SUFFICES ASSUME NEW k \in Cached(FriendsKey)' \cup Fetched(FriendsKey)'
                   PROVE  FriendsSeen(k)'
        BY DEF FriendsTrue
      <3>1. \A u, l, v : /\ Changing(u, v)' <=> Changing(u, v)
                         /\ (v \in Listed(u, l)) <=> (v \in Listed(u, l))'
        BY <1>3 DEF Changing, Listed, Between
      <3>2. CASE k \in Cached(FriendsKey)'
        <4>1. FriendsSeen(k)
          BY <1>13, <3>2 DEF TabTrue, FriendsTrue
        <4>2. QED
          BY <3>1, <4>1 DEF FriendsSeen
      <3>3. CASE k \in Fetched(FriendsKey)'
        <4>1. k.owner = e.owner /\ k.value = value /\ ~e.behind
          BY <1>15, <2>2, <3>3
        <4>2. ASSUME NEW l \in DOMAIN k.value, NEW v \in Users
              PROVE  Changing(k.owner, v) \/ (v \in k.value[l] <=> v \in Listed(k.owner, l))
          <5>1. \/ value[l] = Listed(e.owner, l)
                \/ l \in ReadLists(e.read) /\ value[l] = e.value[l]
            BY <1>7, <2>2, <4>1
          <5>2. CASE value[l] = Listed(e.owner, l)
            BY <4>1, <5>2
          <5>3. CASE l \in ReadLists(e.read) /\ value[l] = e.value[l]
            <6>1. e.read # 0
              BY <5>3 DEF ReadLists
            <6>2. Told(e) \in Fetched(FriendsKey)
              BY <1>1, <1>3, <1>5, <2>2, <4>1, <6>1 DEF Fetched, FetchedIn
            <6>3. FriendsSeen(Told(e))
              BY <6>2 DEF TabTrue, FriendsTrue
            <6>4. Told(e).owner = e.owner /\ Told(e).value = e.value
              BY DEF Told
            <6>5. l \in DOMAIN e.value
              BY <1>4, <2>2, <5>3 DEF RequestOK
            <6>6. Changing(e.owner, v) \/ (v \in e.value[l] <=> v \in Listed(e.owner, l))
              BY <6>3, <6>4, <6>5 DEF FriendsSeen
            <6>7. QED
              BY <4>1, <5>3, <6>6
          <5>4. QED
            BY <5>1, <5>2, <5>3
        <4>3. QED
          BY <3>1, <4>2 DEF FriendsSeen
      <3>4. QED
        BY <3>2, <3>3
    <2>3. QED
      BY <2>1, <2>2
  <1>17. FlagTrue'
    <2>1. CASE q # SettingsKey
      BY <1>3, <1>12, <1>14, <2>1, FlagKept DEF TabTrue
    <2>2. CASE q = SettingsKey
      <3>1. ASSUME NEW k \in Cached(SettingsKey)'
            PROVE  Toggling(k.owner)' \/ FlagSeen(k)'
        <4>1. Toggling(k.owner) \/ FlagSeen(k)
          BY <1>13, <3>1 DEF TabTrue, FlagTrue
        <4>2. QED
          BY <1>3, <4>1 DEF Toggling, FlagSeen
      <3>2. ASSUME NEW k \in Fetched(SettingsKey)'
            PROVE  FlagSeen(k)'
        <4>1. k.value = [username |-> k.owner, public |-> public[k.owner]]
          BY <1>7, <1>15, <2>2, <3>2
        <4>2. QED
          BY <1>3, <4>1 DEF FlagSeen
      <3>3. QED
        BY <1>14, <3>1, <3>2 DEF FlagTrue
    <2>3. QED
      BY <2>1, <2>2
  <1>18. BoardTrue'
    <2>1. CASE q # FriendsBoard
      BY <1>3, <1>12, <2>1, BoardKept DEF TabTrue
    <2>2. CASE q = FriendsBoard
      <3> SUFFICES ASSUME NEW k \in Cached(FriendsBoard)' \cup Fetched(FriendsBoard)'
                   PROVE  k.value = Leaderboard(k.owner, "friends")'
        BY DEF BoardTrue
      <3>1. k.value = Leaderboard(k.owner, "friends")
        BY <1>7, <1>13, <1>15, <2>2 DEF TabTrue, BoardTrue
      <3>2. QED
        BY <1>3, <3>1 DEF Leaderboard, friendsScope
    <2>3. QED
      BY <2>1, <2>2
  <1>19. QED
    BY <1>11, <1>16, <1>17, <1>18 DEF TabTrue

\* An answer becomes the entry; what it says was held before.
LEMMA ArriveStep ==
    ASSUME SocialInv, TabTypes, TabTrue, NEW q \in QueryKeys, Arrive(q)
    PROVE  TabTypes' /\ TabTrue'
  <1>1. PICK r : r = fetching[q]
    OBVIOUS
  <1> DEFINE e == [owner |-> r.owner, value |-> r.value, behind |-> r.behind, invalid |-> FALSE]
  <1>2. /\ q \in DOMAIN fetching /\ r.read = Reads(q)
        /\ cache' = With(cache, q, e)
        /\ fetching' = Without(fetching, {q})
        /\ UNCHANGED <<friendships, public, mutating>>
    BY <1>1 DEF Arrive, friendshipVars
  <1>3. RequestsOK(fetching) /\ RequestOK(q, r) /\ EntriesOK(cache)
    BY <1>1, <1>2 DEF TabTypes, RequestsOK
  <1>4. ValueOK(q, r.value)
    <2>1. CASE q = FriendsKey
      <3>1. r.value \in [ReadLists(3) -> SUBSET Users]
        BY <1>2, <1>3, <2>1 DEF RequestOK, Reads, Lists
      <3>2. ReadLists(3) = ToSet(Lists)
        BY DEF ReadLists, ToSet, Lists
      <3>3. QED
        BY <2>1, <3>1, <3>2, ValuesOf DEF FriendLists
    <2>2. CASE q # FriendsKey
      BY <1>2, <1>3, <2>2 DEF RequestOK, Reads
    <2>3. QED
      BY <2>1, <2>2
  <1>5. EntryOK(q, e)
    <2>1. r.read > 0
      BY <1>2 DEF Reads, Lists
    <2>2. QED
      BY <1>3, <1>4, <2>1 DEF RequestOK, EntryOK, NeedsSession
  <1>6. e.behind = r.behind /\ Told(e) = Told(r)
    BY DEF Told
  <1> HIDE DEF e
  <1>7. /\ EntriesOK(cache')
        /\ \A k : k # q => Cached(k)' = Cached(k)
        /\ Cached(q)' \subseteq {Told(e)}
        /\ e.behind => Cached(q)' = {}
    <2>1. /\ EntriesOK(With(cache, q, e))
          /\ \A k : k # q => CachedIn(With(cache, q, e), k) = CachedIn(cache, k)
          /\ CachedIn(With(cache, q, e), q) \subseteq {Told(e)}
          /\ e.behind => CachedIn(With(cache, q, e), q) = {}
      BY <1>3, <1>5, WithEntry
    <2>2. QED
      BY <1>2, <2>1, Zenon DEF Cached
  <1>8. RequestsOK(fetching') /\ \A k : Fetched(k)' \subseteq Fetched(k)
    <2>1. /\ RequestsOK(Without(fetching, {q}))
          /\ \A k : FetchedIn(Without(fetching, {q}), k) \subseteq {x \in FetchedIn(fetching, k) : k \notin {q}}
      BY <1>3, WithoutRequests
    <2>2. QED
      BY <1>2, <2>1 DEF Fetched
  <1>9. Cached(q)' \subseteq Fetched(q)
    <2>1. Reads(q) > 0
      BY DEF Reads, Lists
    <2>2. ~r.behind => Told(r) \in Fetched(q)
      BY <1>1, <1>2, <2>1 DEF Fetched, FetchedIn
    <2>3. QED
      BY <1>3, <1>6, <1>7, <2>2
  <1>10. \A k : Less(k)
    BY <1>7, <1>8, <1>9 DEF Less
  <1>11. TabTypes'
    BY <1>7, <1>8 DEF TabTypes
  <1>12. ChangesKept /\ TogglesKept /\ ToggleTrue'
    <2>1. ToggleTrue'
      BY <1>2, ToggleKept DEF TabTrue, FlagTrue
    <2>2. QED
      BY <1>2, <2>1 DEF ChangesKept, TogglesKept, Changing, Toggling
  <1>13. QED
    BY <1>2, <1>10, <1>11, <1>12, FriendsKept, BoardKept, FlagKept DEF TabTrue

LEMMA FetchFailsStep ==
    ASSUME SocialInv, TabTypes, TabTrue, NEW q \in QueryKeys, FetchFails(q)
    PROVE  TabTypes' /\ TabTrue'
  <1>1. fetching' = Without(fetching, {q}) /\ UNCHANGED <<friendships, public, cache, mutating>>
    BY DEF FetchFails, friendshipVars
  <1>2. RequestsOK(fetching') /\ \A k : Fetched(k)' \subseteq Fetched(k)
    <2>1. RequestsOK(fetching)
      BY DEF TabTypes
    <2>2. /\ RequestsOK(Without(fetching, {q}))
          /\ \A k : FetchedIn(Without(fetching, {q}), k) \subseteq {x \in FetchedIn(fetching, k) : k \notin {q}}
      BY <2>1, WithoutRequests
    <2>3. QED
      BY <1>1, <2>2 DEF Fetched
  <1>3. \A k : Less(k)
    BY <1>1, <1>2 DEF Less, Cached
  <1>4. TabTypes'
    BY <1>1, <1>2 DEF TabTypes
  <1>5. ChangesKept /\ TogglesKept /\ ToggleTrue'
    <2>1. ToggleTrue'
      BY <1>1, ToggleKept DEF TabTrue, FlagTrue
    <2>2. QED
      BY <1>1, <2>1 DEF ChangesKept, TogglesKept, Changing, Toggling
  <1>6. QED
    BY <1>1, <1>3, <1>4, <1>5, FriendsKept, BoardKept, FlagKept DEF TabTrue

-----------------------------------------------------------------------------
\* A step that changes neither the table nor what is held of it.
LEMMA MutatingStep ==
    ASSUME TabTypes, TabTrue, UNCHANGED <<friendships, public, cache, fetching>>,
           ChangesKept, TogglesKept, ToggleTrue'
    PROVE  TabTypes' /\ TabTrue'
  <1>1. TabTypes'
    BY DEF TabTypes
  <1>2. \A q : Less(q)
    BY DEF Less, Cached, Fetched
  <1>3. QED
    BY <1>1, <1>2, FriendsKept, BoardKept, FlagKept DEF TabTrue

\* A mutation goes on: it stays that of its user, about whom it was about.
LEMMA AdvanceParts ==
    ASSUME SocialInv, NEW kind \in DOMAIN mutating, NEW at, Advance(kind, at),
           mutating[kind].at \in {"sent", "checked"},
           kind = "toggle" => mutating[kind].at = "sent"
    PROVE  /\ DOMAIN mutating' = DOMAIN mutating
           /\ \A k \in DOMAIN mutating : /\ mutating'[k].owner = mutating[k].owner
                                         /\ mutating'[k].on = mutating[k].on
                                         /\ k # kind => mutating'[k] = mutating[k]
           /\ mutating'[kind].at = at
           /\ ChangesKept /\ TogglesKept
  <1>1. /\ DOMAIN mutating' = DOMAIN mutating
        /\ \A k \in DOMAIN mutating : k # kind => mutating'[k] = mutating[k]
        /\ mutating'[kind] = [mutating[kind] EXCEPT !.at = at]
    BY DEF Advance
  <1>2. mutating[kind] \in Mutation
    BY DEF SocialInv, Sent
  <1>3. /\ mutating'[kind].owner = mutating[kind].owner /\ mutating'[kind].on = mutating[kind].on
        /\ mutating'[kind].at = at
    BY <1>1, <1>2 DEF Mutation
  <1>4. \A k \in DOMAIN mutating : /\ mutating'[k].owner = mutating[k].owner
                                   /\ mutating'[k].on = mutating[k].on
    BY <1>1, <1>3
  <1>5. ChangesKept /\ TogglesKept
    BY <1>1, <1>4 DEF ChangesKept, TogglesKept, Changing, Toggling
  <1>6. QED
    BY <1>1, <1>3, <1>4, <1>5

LEMMA TabMutate ==
    ASSUME SocialInv, TabTypes, TabTrue, NEW kind \in Kinds, NEW v \in Users, Mutate(kind, v)
    PROVE  TabTypes' /\ TabTrue'
  <1> DEFINE request == [owner |-> user, on |-> v,
                         value |-> kind = "toggle" /\ ~cache[SettingsKey].value.public,
                         behind |-> FALSE, at |-> "sent"]
  <1>1. /\ kind \notin DOMAIN mutating
        /\ mutating' = With(mutating, kind, request)
        /\ UNCHANGED <<friendships, public, cache, fetching>>
    BY DEF Mutate, friendshipVars
  <1>2. /\ DOMAIN mutating' = DOMAIN mutating \cup {kind} /\ mutating'[kind] = request
        /\ \A k \in DOMAIN mutating : mutating'[k] = mutating[k]
    BY <1>1 DEF With
  <1>3. ChangesKept /\ TogglesKept
    BY <1>2 DEF ChangesKept, TogglesKept, Changing, Toggling
  <1>4. ToggleTrue'
    <2>1. CASE kind = "toggle"
      <3>1. request.at # "done"
        BY <2>1
      <3> HIDE DEF request
      <3>2. QED
        BY <1>2, <2>1, <3>1 DEF ToggleTrue
    <2>2. CASE kind # "toggle"
      <3>1. "toggle" \in DOMAIN mutating' =>
                "toggle" \in DOMAIN mutating /\ mutating'["toggle"] = mutating["toggle"]
        BY <1>2, <2>2
      <3>2. QED
        BY <1>1, <3>1, ToggleKept DEF TabTrue, FlagTrue
    <2>3. QED
      BY <2>1, <2>2
  <1>5. QED
    BY <1>1, <1>3, <1>4, MutatingStep

LEMMA TabCheckOwn ==
    ASSUME SocialInv, TabTypes, TabTrue, CheckOwn
    PROVE  TabTypes' /\ TabTrue'
  <1>1. /\ "send" \in DOMAIN mutating /\ Advance("send", "checked")
        /\ mutating["send"].at = "sent"
        /\ UNCHANGED <<friendships, public, cache, fetching>>
    BY DEF CheckOwn, CheckRequest
  <1>2. /\ DOMAIN mutating' = DOMAIN mutating
        /\ \A k \in DOMAIN mutating : k # "send" => mutating'[k] = mutating[k]
        /\ ChangesKept /\ TogglesKept
    BY <1>1, AdvanceParts
  <1>3. ToggleTrue'
    BY <1>1, <1>2, ToggleKept DEF TabTrue, FlagTrue
  <1>4. QED
    BY <1>1, <1>2, <1>3, MutatingStep

\* A row of u and v has changed, and what is held of the one it may be news to
\* has aged; u is told by the mutation that changed it.
LEMMA TabRowChanged ==
    ASSUME TabTypes, TabTrue, NEW u \in Users, NEW v \in Users, RowStep(u, v),
           TabTypes',
           \A q : Cached(q)' \subseteq Cached(q) /\ Fetched(q)' \subseteq Fetched(q),
           \A e \in Cached(FriendsKey)' \cup Fetched(FriendsKey)' :
               e.owner # v /\ (e.owner = u => Changing(u, v)'),
           \A e \in Cached(FriendsBoard)' \cup Fetched(FriendsBoard)' : e.owner \notin {u, v},
           ChangesKept, TogglesKept, ToggleTrue'
    PROVE  TabTrue'
  <1>1. FriendsTrue'
    <2> SUFFICES ASSUME NEW e \in Cached(FriendsKey)' \cup Fetched(FriendsKey)',
                        NEW l \in DOMAIN e.value, NEW x \in Users
                 PROVE  Changing(e.owner, x)' \/ (x \in e.value[l] <=> x \in Listed(e.owner, l)')
      BY DEF FriendsTrue, FriendsSeen
    <2>1. e \in Cached(FriendsKey) \cup Fetched(FriendsKey)
      OBVIOUS
    <2>2. e.owner \in Users /\ l \in ReadLists(3)
      BY <2>1, HeldTypes
    <2>3. Changing(e.owner, x) \/ (x \in e.value[l] <=> x \in Listed(e.owner, l))
      BY <2>1 DEF TabTrue, FriendsTrue, FriendsSeen
    <2>4. CASE {e.owner, x} = {u, v}
      <3>1. e.owner = u /\ x = v
        BY <2>4
      <3>2. QED
        BY <3>1
    <2>5. CASE {e.owner, x} # {u, v}
      <3>1. x \in Listed(e.owner, l) <=> x \in Listed(e.owner, l)'
        BY <2>2, <2>5, ListedOfOthers
      <3>2. QED
        BY <2>2, <2>3, <3>1 DEF ChangesKept
    <2>6. QED
      BY <2>4, <2>5
  <1>2. BoardTrue'
    <2> SUFFICES ASSUME NEW e \in Cached(FriendsBoard)' \cup Fetched(FriendsBoard)'
                 PROVE  e.value = Leaderboard(e.owner, "friends")'
      BY DEF BoardTrue
    <2>1. e.value = Leaderboard(e.owner, "friends")
      BY DEF TabTrue, BoardTrue
    <2>2. Leaderboard(e.owner, "friends")' = Leaderboard(e.owner, "friends")
      BY BoardOfOthers
    <2>3. QED
      BY <2>1, <2>2
  <1>3. UNCHANGED public
    BY RowsOfOthers
  <1>4. FlagTrue'
    BY <1>3, FlagKept DEF TabTrue, Less
  <1>5. QED
    BY <1>1, <1>2, <1>4 DEF TabTrue

LEMMA TabServe ==
    ASSUME SocialInv, TabTypes, TabTrue, NEW kind \in Kinds, ServeOwn(kind)
    PROVE  TabTypes' /\ TabTrue'
  <1>1. PICK u, v : u = mutating[kind].owner /\ v = mutating[kind].on
    OBVIOUS
  <1>2. /\ kind \in DOMAIN mutating /\ kind # "toggle"
        /\ mutating[kind].at \in {"sent", "checked"} /\ u # None
        /\ RowStep(u, v)
        /\ IF friendships' = friendships
           THEN Advance(kind, "failed") /\ UNCHANGED <<cache, fetching>>
           ELSE Advance(kind, "done") /\ OwnRowChanged(u, v)
    BY <1>1 DEF ServeOwn, RowStep
  <1>3. u \in Users /\ v \in Users
    BY <1>1, <1>2 DEF SocialInv, Sent, Mutation
  <1>4. PICK at : Advance(kind, at) /\ (friendships' # friendships => at = "done")
    BY <1>2
  <1>5. /\ DOMAIN mutating' = DOMAIN mutating
        /\ \A k \in DOMAIN mutating : k # kind => mutating'[k] = mutating[k]
        /\ mutating'[kind].owner = u /\ mutating'[kind].on = v /\ mutating'[kind].at = at
        /\ ChangesKept /\ TogglesKept
    BY <1>1, <1>2, <1>4, AdvanceParts
  <1>6. UNCHANGED public
    BY <1>2, RowsOfOthers
  <1>7. ToggleTrue'
    BY <1>2, <1>5, <1>6, ToggleKept DEF TabTrue, FlagTrue
  <1>8. CASE friendships' = friendships
    <2>1. UNCHANGED <<cache, fetching>>
      BY <1>2, <1>8
    <2>2. QED
      BY <1>5, <1>6, <1>7, <1>8, <2>1, MutatingStep
  <1>9. CASE friendships' # friendships
    <2>1. OwnRowChanged(u, v)
      BY <1>2, <1>9
    <2> DEFINE entries  == Aged(cache, Boards, {u, v})
               requests == Aged(fetching, Boards, {u, v})
    <2>2. /\ cache' = Aged(entries, {FriendsKey}, {v})
          /\ fetching' = Aged(requests, {FriendsKey}, {v})
      BY <2>1 DEF OwnRowChanged
    <2>3. /\ EntriesOK(entries)
          /\ \A q : CachedIn(entries, q) \subseteq {e \in Cached(q) : q \in Boards => e.owner \notin {u, v}}
          /\ RequestsOK(requests)
          /\ \A q : FetchedIn(requests, q) \subseteq {e \in Fetched(q) : q \in Boards => e.owner \notin {u, v}}
      BY AgedEntries, AgedRequests DEF TabTypes, Cached, Fetched
    <2> HIDE DEF entries, requests
    <2>4. /\ EntriesOK(cache')
          /\ \A q : Cached(q)' \subseteq {e \in CachedIn(entries, q) : q \in {FriendsKey} => e.owner \notin {v}}
      BY <2>2, <2>3, AgedEntries DEF Cached
    <2>5. /\ RequestsOK(fetching')
          /\ \A q : Fetched(q)' \subseteq {e \in FetchedIn(requests, q) : q \in {FriendsKey} => e.owner \notin {v}}
      BY <2>2, <2>3, AgedRequests DEF Fetched
    <2>6. TabTypes'
      BY <2>4, <2>5 DEF TabTypes
    <2>7. \A q : Cached(q)' \subseteq Cached(q) /\ Fetched(q)' \subseteq Fetched(q)
      BY <2>3, <2>4, <2>5
    <2>8. Changing(u, v)'
      BY <1>2, <1>4, <1>5, <1>9 DEF Changing
    <2>9. \A e \in Cached(FriendsKey)' \cup Fetched(FriendsKey)' :
              e.owner # v /\ (e.owner = u => Changing(u, v)')
      BY <2>4, <2>5, <2>8
    <2>10. \A e \in Cached(FriendsBoard)' \cup Fetched(FriendsBoard)' : e.owner \notin {u, v}
      BY <2>3, <2>4, <2>5, KeysDiffer
    <2>11. QED
      BY <1>2, <1>3, <1>5, <1>7, <2>6, <2>7, <2>9, <2>10, TabRowChanged
  <1>10. QED
    BY <1>8, <1>9

\* The flag is changed; what is being fetched of it ages, and what is cached of it
\* will be replaced by the answer.
LEMMA TabUpdateFlag ==
    ASSUME SocialInv, TabTypes, TabTrue, UpdateOwnFlag
    PROVE  TabTypes' /\ TabTrue'
  <1>1. PICK u : u = mutating["toggle"].owner
    OBVIOUS
  <1>2. /\ "toggle" \in DOMAIN mutating /\ Advance("toggle", "checked")
        /\ mutating["toggle"].at = "sent"
        /\ fetching' = Aged(fetching, {SettingsKey}, {u})
        /\ public' = [public EXCEPT ![u] = mutating["toggle"].value]
        /\ UNCHANGED <<friendships, cache>>
    BY <1>1 DEF UpdateOwnFlag, SetPublic
  <1>3. /\ DOMAIN mutating' = DOMAIN mutating
        /\ mutating'["toggle"].owner = u /\ mutating'["toggle"].on = mutating["toggle"].on
        /\ mutating'["toggle"].at = "checked"
        /\ ChangesKept /\ TogglesKept
    BY <1>1, <1>2, AdvanceParts
  <1>4. ToggleTrue'
    BY <1>1, <1>2, <1>3 DEF TabTrue, FlagTrue, ToggleTrue
  <1>5. /\ RequestsOK(fetching')
        /\ \A q : Fetched(q)' \subseteq {e \in Fetched(q) : q \in {SettingsKey} => e.owner \notin {u}}
    BY <1>2, AgedRequests DEF TabTypes, Fetched
  <1>6. TabTypes'
    BY <1>2, <1>5 DEF TabTypes
  <1>7. \A q : Less(q) /\ Cached(q)' = Cached(q)
    BY <1>2, <1>5 DEF Less, Cached
  <1>8. FriendsTrue' /\ BoardTrue'
    BY <1>2, <1>3, <1>7, FriendsKept, BoardKept DEF TabTrue
  <1>9. ASSUME NEW e, e.owner # u, FlagSeen(e)
        PROVE  FlagSeen(e)'
    BY <1>2, <1>9 DEF FlagSeen
  <1>10. ASSUME NEW e \in Cached(SettingsKey)'
         PROVE  Toggling(e.owner)' \/ FlagSeen(e)'
    <2>1. CASE e.owner = u
      BY <1>2, <1>3, <2>1 DEF Toggling
    <2>2. CASE e.owner # u
      <3>1. Toggling(e.owner) \/ FlagSeen(e)
        BY <1>7 DEF TabTrue, FlagTrue
      <3>2. ~Toggling(e.owner)
        BY <1>1, <2>2 DEF Toggling
      <3>3. QED
        BY <1>9, <2>2, <3>1, <3>2
    <2>3. QED
      BY <2>1, <2>2
  <1>11. ASSUME NEW e \in Fetched(SettingsKey)'
         PROVE  FlagSeen(e)'
    <2>1. e.owner # u /\ FlagSeen(e)
      BY <1>5 DEF TabTrue, FlagTrue
    <2>2. QED
      BY <1>9, <2>1
  <1>12. QED
    BY <1>4, <1>6, <1>8, <1>10, <1>11 DEF TabTrue, FlagTrue

LEMMA TabReadFlag ==
    ASSUME SocialInv, TabTypes, TabTrue, ReadOwnFlag
    PROVE  TabTypes' /\ TabTrue'
  <1>1. PICK r : r = mutating["toggle"]
    OBVIOUS
  <1> DEFINE next == [r EXCEPT !.at = "done", !.value = public[r.owner], !.behind = FALSE]
  <1>2. /\ "toggle" \in DOMAIN mutating
        /\ mutating' = [mutating EXCEPT !["toggle"] = next]
        /\ UNCHANGED <<friendships, public, cache, fetching>>
    BY <1>1 DEF ReadOwnFlag, friendshipVars
  <1>3. next.owner = r.owner /\ next.at = "done" /\ next.value = public[r.owner]
    BY <1>1, <1>2 DEF SocialInv, Sent, Mutation
  <1> HIDE DEF next
  <1>4. /\ DOMAIN mutating' = DOMAIN mutating /\ mutating'["toggle"] = next
        /\ \A k \in DOMAIN mutating : k # "toggle" => mutating'[k] = mutating[k]
    BY <1>2
  <1>5. ChangesKept /\ TogglesKept
    BY <1>1, <1>3, <1>4 DEF ChangesKept, TogglesKept, Changing, Toggling
  <1>6. ToggleTrue'
    BY <1>1, <1>2, <1>3, <1>4 DEF TabTrue, FlagTrue, ToggleTrue
  <1>7. QED
    BY <1>2, <1>5, <1>6, MutatingStep

\* What is sent again has changed nothing yet.
LEMMA TabSentAgain ==
    ASSUME SocialInv, TabTypes, TabTrue, NEW kind, MutationSentAgain(kind)
    PROVE  TabTypes' /\ TabTrue'
  <1>1. UNCHANGED <<friendships, public, cache, fetching>>
    BY SentAgainParts DEF friendshipVars
  <1>2. ChangesKept /\ TogglesKept
    BY SentAgainParts DEF ChangesKept, TogglesKept, Changing, Toggling
  <1>3. ToggleTrue'
    BY <1>1, SentAgainParts DEF TabTrue, FlagTrue, ToggleTrue
  <1>4. QED
    BY <1>1, <1>2, <1>3, MutatingStep

\* A mutation that ends without an answer leaves it open what it did: what is held
\* of its user ages.
LEMMA TabMutationFails ==
    ASSUME SocialInv, TabTypes, TabTrue, NEW kind \in Kinds, MutationFails(kind)
    PROVE  TabTypes' /\ TabTrue'
  <1>1. PICK u, key : /\ u = mutating[kind].owner
                      /\ key = IF kind = "toggle" THEN SettingsKey ELSE FriendsKey
    OBVIOUS
  <1>2. /\ kind \in DOMAIN mutating
        /\ cache' = Aged(cache, {key}, {u}) /\ fetching' = Aged(fetching, {key}, {u})
        /\ mutating' = Without(mutating, {kind})
        /\ UNCHANGED <<friendships, public>>
    BY <1>1 DEF MutationFails, friendshipVars
  <1>3. /\ DOMAIN mutating' = DOMAIN mutating \ {kind}
        /\ \A k \in DOMAIN mutating' : mutating'[k] = mutating[k]
    BY <1>2 DEF Without
  <1>4. /\ EntriesOK(cache')
        /\ \A q : Cached(q)' \subseteq {e \in Cached(q) : q \in {key} => e.owner \notin {u}}
    BY <1>2, AgedEntries DEF TabTypes, Cached
  <1>5. /\ RequestsOK(fetching')
        /\ \A q : Fetched(q)' \subseteq {e \in Fetched(q) : q \in {key} => e.owner \notin {u}}
    BY <1>2, AgedRequests DEF TabTypes, Fetched
  <1>6. TabTypes'
    BY <1>4, <1>5 DEF TabTypes
  <1>7. \A q : Less(q)
    BY <1>4, <1>5 DEF Less
  <1>8. ToggleTrue'
    BY <1>2, <1>3, ToggleKept DEF TabTrue, FlagTrue
  <1>9. \A w, x : w # u \/ kind = "toggle" => (Changing(w, x) => Changing(w, x)')
    BY <1>1, <1>3 DEF Changing
  <1>10. \A w : w # u \/ kind # "toggle" => (Toggling(w) => Toggling(w)')
    BY <1>1, <1>3 DEF Toggling
  <1>11. BoardTrue'
    BY <1>2, <1>7, BoardKept DEF TabTrue
  <1>12. CASE kind = "toggle"
    <2>1. FriendsTrue'
      BY <1>2, <1>7, <1>9, <1>12, FriendsKept DEF TabTrue, ChangesKept
    <2>2. ASSUME NEW e \in Cached(SettingsKey)'
          PROVE  Toggling(e.owner)' \/ FlagSeen(e)'
      <3>1. e.owner # u /\ (Toggling(e.owner) \/ FlagSeen(e))
        BY <1>1, <1>4, <1>12 DEF TabTrue, FlagTrue
      <3>2. ~Toggling(e.owner)
        BY <1>1, <1>12, <3>1 DEF Toggling
      <3>3. QED
        BY <1>2, <3>1, <3>2 DEF FlagSeen
    <2>3. ASSUME NEW e \in Fetched(SettingsKey)'
          PROVE  FlagSeen(e)'
      BY <1>2, <1>5 DEF TabTrue, FlagTrue, FlagSeen
    <2>4. QED
      BY <1>6, <1>8, <1>11, <2>1, <2>2, <2>3 DEF TabTrue, FlagTrue
  <1>13. CASE kind # "toggle"
    <2>1. FlagTrue'
      BY <1>2, <1>7, <1>8, <1>10, <1>13, FlagKept DEF TabTrue, TogglesKept
    <2>2. ASSUME NEW e \in Cached(FriendsKey)' \cup Fetched(FriendsKey)'
          PROVE  FriendsSeen(e)'
      <3>1. e.owner # u /\ FriendsSeen(e)
        BY <1>1, <1>4, <1>5, <1>13 DEF TabTrue, FriendsTrue
      <3>2. \A l, x : (x \in Listed(e.owner, l)) <=> (x \in Listed(e.owner, l))'
        BY <1>2 DEF Listed, Between
      <3>3. QED
        BY <1>9, <3>1, <3>2 DEF FriendsSeen
    <2>3. FriendsTrue'
      BY <2>2 DEF FriendsTrue
    <2>4. QED
      BY <1>6, <1>11, <2>1, <2>3 DEF TabTrue
  <1>14. QED
    BY <1>12, <1>13

\* The entry is marked; a fetch that began before is cancelled, or what it brings
\* is out of date.
LEMMA TabFriendMutated ==
    ASSUME SocialInv, TabTypes, TabTrue, NEW kind \in Kinds, FriendMutated(kind)
    PROVE  TabTypes' /\ TabTrue'
  <1>1. /\ kind \in DOMAIN mutating /\ kind # "toggle"
        /\ Invalidated(FriendsKey)
        /\ mutating' = Without(mutating, {kind})
        /\ UNCHANGED <<friendships, public>>
    BY DEF FriendMutated, friendshipVars
  <1>2. /\ DOMAIN cache' = DOMAIN cache
        /\ \A k \in DOMAIN cache : cache'[k] = IF k = FriendsKey THEN [cache[k] EXCEPT !.invalid = TRUE]
                                                                ELSE cache[k]
    BY <1>1 DEF Invalidated
  <1>3. EntriesOK(cache)
    BY DEF TabTypes
  <1>4. \A k \in DOMAIN cache : k # FriendsKey => cache'[k] = cache[k]
    BY <1>2
  <1>5. ASSUME FriendsKey \in DOMAIN cache
        PROVE  EntryOK(FriendsKey, cache'[FriendsKey]) /\ cache'[FriendsKey].invalid = TRUE
    <2>1. cache'[FriendsKey] = [cache[FriendsKey] EXCEPT !.invalid = TRUE]
      BY <1>2, <1>5
    <2>2. EntryOK(FriendsKey, cache[FriendsKey])
      BY <1>3, <1>5 DEF EntriesOK
    <2>3. QED
      BY <2>1, <2>2 DEF EntryOK
  <1>6. EntriesOK(cache')
    BY <1>2, <1>3, <1>4, <1>5 DEF EntriesOK
  <1>7. Cached(FriendsKey)' = {} /\ \A q : q # FriendsKey => Cached(q)' \subseteq Cached(q)
    BY <1>2, <1>4, <1>5 DEF Cached, CachedIn
  <1>8. /\ RequestsOK(fetching')
        /\ Fetched(FriendsKey)' = {} /\ \A q : Fetched(q)' \subseteq Fetched(q)
    <2>1. CASE fetching' = Without(fetching, {FriendsKey})
      BY <2>1, WithoutRequests DEF TabTypes, Fetched
    <2>2. CASE fetching' = Aged(fetching, {FriendsKey}, Users)
      <3>1. /\ RequestsOK(fetching')
            /\ \A q : Fetched(q)' \subseteq {e \in Fetched(q) : q \in {FriendsKey} => e.owner \notin Users}
        BY <2>2, AgedRequests DEF TabTypes, Fetched
      <3>2. \A e \in Fetched(FriendsKey) : e.owner \in Users
        BY HeldTypes
      <3>3. QED
        BY <3>1, <3>2
    <2>3. QED
      BY <1>1, <2>1, <2>2 DEF Invalidated
  <1>9. TabTypes'
    BY <1>6, <1>8 DEF TabTypes
  <1>10. FriendsTrue'
    BY <1>7, <1>8 DEF FriendsTrue
  <1>11. \A q : q # FriendsKey => Less(q)
    BY <1>7, <1>8 DEF Less
  <1>12. /\ DOMAIN mutating' = DOMAIN mutating \ {kind}
         /\ \A k \in DOMAIN mutating' : mutating'[k] = mutating[k]
    BY <1>1 DEF Without
  <1>13. TogglesKept
    BY <1>1, <1>12 DEF TogglesKept, Toggling
  <1>14. ToggleTrue'
    BY <1>1, <1>12, ToggleKept DEF TabTrue, FlagTrue
  <1>15. FlagTrue' /\ BoardTrue'
    BY <1>1, <1>11, <1>13, <1>14, KeysDiffer, FlagKept, BoardKept DEF TabTrue
  <1>16. QED
    BY <1>9, <1>10, <1>15 DEF TabTrue

\* The answer of the toggle replaces the entry.
LEMMA TabToggled ==
    ASSUME SocialInv, TabTypes, TabTrue, Toggled
    PROVE  TabTypes' /\ TabTrue'
  <1>1. PICK r : r = mutating["toggle"]
    OBVIOUS
  <1> DEFINE e == [owner |-> r.owner, value |-> [username |-> r.owner, public |-> r.value],
                   behind |-> r.behind, invalid |-> FALSE]
  <1>2. /\ "toggle" \in DOMAIN mutating /\ r.at = "done"
        /\ cache' = With(cache, SettingsKey, e)
        /\ mutating' = Without(mutating, {"toggle"})
        /\ UNCHANGED <<friendships, public, fetching>>
    BY <1>1 DEF Toggled, friendshipVars
  <1>3. r \in Mutation /\ r.owner \in Users
    BY <1>1, <1>2 DEF SocialInv, Sent
  <1>4. EntryOK(SettingsKey, e)
    <2>1. [username |-> r.owner, public |-> r.value] \in [username : Users, public : BOOLEAN]
      BY <1>3 DEF Mutation
    <2>2. ValueOK(SettingsKey, [username |-> r.owner, public |-> r.value])
      BY <2>1, ValuesOf
    <2>3. QED
      BY <1>3, <2>2 DEF EntryOK, Mutation
  <1>5. /\ e.behind = r.behind /\ Told(e).owner = r.owner
        /\ Told(e).value = [username |-> r.owner, public |-> r.value]
    BY DEF Told
  <1> HIDE DEF e
  <1>6. /\ EntriesOK(cache')
        /\ \A k : k # SettingsKey => Cached(k)' = Cached(k)
        /\ Cached(SettingsKey)' \subseteq {Told(e)}
        /\ e.behind => Cached(SettingsKey)' = {}
    <2>1. EntriesOK(cache) /\ SettingsKey \in QueryKeys
      BY KeysDiffer DEF TabTypes
    <2>2. /\ EntriesOK(With(cache, SettingsKey, e))
          /\ \A k : k # SettingsKey => CachedIn(With(cache, SettingsKey, e), k) = CachedIn(cache, k)
          /\ CachedIn(With(cache, SettingsKey, e), SettingsKey) \subseteq {Told(e)}
          /\ e.behind => CachedIn(With(cache, SettingsKey, e), SettingsKey) = {}
      BY <1>4, <2>1, WithEntry
    <2>3. QED
      BY <1>2, <2>2, Zenon DEF Cached
  <1>7. TabTypes'
    BY <1>2, <1>6 DEF TabTypes
  <1>8. \A q : Fetched(q)' = Fetched(q)
    BY <1>2 DEF Fetched
  <1>9. \A q : q # SettingsKey => Less(q)
    BY <1>6, <1>8 DEF Less
  <1>10. /\ DOMAIN mutating' = DOMAIN mutating \ {"toggle"}
         /\ \A k \in DOMAIN mutating' : mutating'[k] = mutating[k]
    BY <1>2 DEF Without
  <1>11. ChangesKept
    BY <1>10 DEF ChangesKept, Changing
  <1>12. FriendsTrue' /\ BoardTrue'
    BY <1>2, <1>9, <1>11, KeysDiffer, FriendsKept, BoardKept DEF TabTrue
  <1>13. ASSUME NEW k \in Cached(SettingsKey)'
         PROVE  FlagSeen(k)'
    <2>1. k = Told(e) /\ ~e.behind
      BY <1>4, <1>6 DEF EntryOK
    <2>2. r.value = public[r.owner]
      BY <1>1, <1>2, <1>5, <2>1 DEF TabTrue, FlagTrue, ToggleTrue
    <2>3. QED
      BY <1>2, <1>5, <2>1, <2>2 DEF FlagSeen
  <1>14. ASSUME NEW k \in Fetched(SettingsKey)'
         PROVE  FlagSeen(k)'
    BY <1>2, <1>8 DEF TabTrue, FlagTrue, FlagSeen
  <1>15. ToggleTrue'
    BY <1>10 DEF ToggleTrue
  <1>16. QED
    BY <1>7, <1>12, <1>13, <1>14, <1>15 DEF TabTrue, FlagTrue

LEMMA TabElsewhere ==
    ASSUME SocialInv, TabTypes, TabTrue, Elsewhere
    PROVE  TabTypes' /\ TabTrue'
  <1>1. CASE \E u, v \in Users :
                 /\ RowStep(u, v)
                 /\ IF friendships' = friendships THEN UNCHANGED <<cache, fetching>> ELSE RowChanged(u, v)
                 /\ UNCHANGED mutating
    <2>1. PICK u \in Users, v \in Users :
                 /\ RowStep(u, v)
                 /\ IF friendships' = friendships THEN UNCHANGED <<cache, fetching>> ELSE RowChanged(u, v)
                 /\ UNCHANGED mutating
      BY <1>1
    <2>2. UNCHANGED public
      BY <2>1, RowsOfOthers
    <2>3. CASE friendships' = friendships
      BY <2>1, <2>2, <2>3, TabIdle
    <2>4. CASE friendships' # friendships
      <3> DEFINE keys == Boards \cup {FriendsKey}
      <3>1. cache' = Aged(cache, keys, {u, v}) /\ fetching' = Aged(fetching, keys, {u, v})
        BY <2>1, <2>4 DEF RowChanged
      <3>2. FriendsKey \in keys /\ FriendsBoard \in keys
        BY KeysDiffer
      <3> HIDE DEF keys
      <3>3. /\ EntriesOK(cache')
            /\ \A q : Cached(q)' \subseteq {e \in Cached(q) : q \in keys => e.owner \notin {u, v}}
        BY <3>1, AgedEntries DEF TabTypes, Cached
      <3>4. /\ RequestsOK(fetching')
            /\ \A q : Fetched(q)' \subseteq {e \in Fetched(q) : q \in keys => e.owner \notin {u, v}}
        BY <3>1, AgedRequests DEF TabTypes, Fetched
      <3>5. TabTypes'
        BY <3>3, <3>4 DEF TabTypes
      <3>6. /\ \A q : Cached(q)' \subseteq Cached(q) /\ Fetched(q)' \subseteq Fetched(q)
            /\ \A e \in Cached(FriendsKey)' \cup Fetched(FriendsKey)' : e.owner \notin {u, v}
            /\ \A e \in Cached(FriendsBoard)' \cup Fetched(FriendsBoard)' : e.owner \notin {u, v}
        BY <3>2, <3>3, <3>4
      <3>7. ChangesKept /\ TogglesKept
        BY <2>1 DEF ChangesKept, TogglesKept, Changing, Toggling
      <3>8. ToggleTrue'
        BY <2>1, <2>2, ToggleKept DEF TabTrue, FlagTrue
      <3>9. QED
        BY <2>1, <3>5, <3>6, <3>7, <3>8, TabRowChanged
    <2>5. QED
      BY <2>3, <2>4
  <1>2. CASE \E u \in Users : /\ SetPublic(u, ~public[u])
                             /\ FlagChanged(u)
                             /\ mutating' = Aged(mutating, {"toggle"}, {u})
    <2>1. PICK u \in Users : /\ SetPublic(u, ~public[u])
                             /\ FlagChanged(u)
                             /\ mutating' = Aged(mutating, {"toggle"}, {u})
      BY <1>2
    <2>2. /\ EntriesOK(cache')
          /\ \A q : Cached(q)' \subseteq {e \in Cached(q) : q \in {SettingsKey} => e.owner \notin {u}}
      BY <2>1, AgedEntries DEF FlagChanged, TabTypes, Cached
    <2>3. /\ RequestsOK(fetching')
          /\ \A q : Fetched(q)' \subseteq {e \in Fetched(q) : q \in {SettingsKey} => e.owner \notin {u}}
      BY <2>1, AgedRequests DEF FlagChanged, TabTypes, Fetched
    <2>4. TabTypes'
      BY <2>2, <2>3 DEF TabTypes
    <2>5. \A q : Less(q)
      BY <2>2, <2>3 DEF Less
    <2>6. /\ DOMAIN mutating' = DOMAIN mutating
          /\ \A k \in DOMAIN mutating : k # "toggle" => mutating'[k] = mutating[k]
          /\ "toggle" \in DOMAIN mutating =>
                 mutating'["toggle"] = IF mutating["toggle"].owner = u
                                       THEN [mutating["toggle"] EXCEPT !.behind = TRUE]
                                       ELSE mutating["toggle"]
      BY <2>1 DEF Aged
    <2>7. "toggle" \in DOMAIN mutating =>
              LET r == mutating["toggle"]
                  n == mutating'["toggle"]
              IN  /\ n.owner = r.owner /\ n.on = r.on /\ n.at = r.at /\ n.value = r.value
                  /\ r.owner = u => n.behind = TRUE
                  /\ r.owner # u => n = r
      <3> SUFFICES ASSUME "toggle" \in DOMAIN mutating
                   PROVE  LET r == mutating["toggle"]
                              n == mutating'["toggle"]
                          IN  /\ n.owner = r.owner /\ n.on = r.on /\ n.at = r.at /\ n.value = r.value
                              /\ r.owner = u => n.behind = TRUE
                              /\ r.owner # u => n = r
        OBVIOUS
      <3>1. mutating["toggle"] \in Mutation
        BY DEF SocialInv, Sent
      <3>2. QED
        BY <2>6, <3>1 DEF Mutation
    <2>8. ChangesKept /\ TogglesKept
      BY <2>6, <2>7 DEF ChangesKept, TogglesKept, Changing, Toggling
    <2>9. UNCHANGED friendships /\ \A w : w # u => public'[w] = public[w]
      BY <2>1 DEF SetPublic
    <2>10. ToggleTrue'
      BY <2>6, <2>7, <2>9 DEF TabTrue, FlagTrue, ToggleTrue
    <2>11. FriendsTrue' /\ BoardTrue'
      BY <2>5, <2>8, <2>9, FriendsKept, BoardKept DEF TabTrue
    <2>12. ASSUME NEW e, e.owner # u, FlagSeen(e)
           PROVE  FlagSeen(e)'
      BY <2>9, <2>12 DEF FlagSeen
    <2>13. ASSUME NEW e \in Cached(SettingsKey)'
           PROVE  Toggling(e.owner)' \/ FlagSeen(e)'
      <3>1. e \in Cached(SettingsKey) /\ e.owner # u
        BY <2>2
      <3>2. e.owner \in Users
        BY <3>1, HeldTypes
      <3>3. Toggling(e.owner) \/ FlagSeen(e)
        BY <3>1 DEF TabTrue, FlagTrue
      <3>4. QED
        BY <2>8, <2>12, <3>1, <3>2, <3>3 DEF TogglesKept
    <2>14. ASSUME NEW e \in Fetched(SettingsKey)'
           PROVE  FlagSeen(e)'
      <3>1. FlagSeen(e) /\ e.owner # u
        BY <2>3 DEF TabTrue, FlagTrue
      <3>2. QED
        BY <2>12, <3>1
    <2>15. QED
      BY <2>4, <2>10, <2>11, <2>13, <2>14 DEF TabTrue, FlagTrue
  <1>3. QED
    BY <1>1, <1>2, Zenon DEF Elsewhere, RowStep

\* Moves keep what the tab holds, or drop it all.
LEMMA TabUser ==
    ASSUME SocialInv, TabTypes, TabTrue, User
    PROVE  TabTypes' /\ TabTrue'
  <1>1. ASSUME NEW to, Move(to)
        PROVE  TabTypes' /\ TabTrue'
    BY <1>1, TabIdle DEF Move, Click, friendshipVars
  <1>2. ASSUME NEW to, FullLoad(to)
        PROVE  TabTypes' /\ TabTrue'
    BY <1>2, TabDropped DEF FullLoad
  <1>3. CASE GoHome \/ Enter \/ Back \/ handleLogout
    <2>1. \E to : Move(to)
      BY <1>3 DEF GoHome, Enter, Back, handleLogout
    <2>2. QED
      BY <1>1, <2>1
  <1>4. CASE Reload \/ LeaveProfile \/ \E name \in Users : VisitProfile(name)
    <2>1. \E to : FullLoad(to)
      BY <1>4 DEF Reload, LeaveProfile, VisitProfile
    <2>2. QED
      BY <1>2, <2>1
  <1>5. CASE \/ \E name \in Users : SignIn(name)
             \/ \E t \in Tabs : SelectTab(t)
             \/ \E s \in Scopes : SelectScope(s)
    BY <1>5, TabIdle DEF SignIn, SelectTab, SelectScope, Click, friendshipVars
  <1>6. ASSUME NEW kind \in Kinds, NEW v \in Users, Mutate(kind, v)
        PROVE  TabTypes' /\ TabTrue'
    BY <1>6, TabMutate
  <1>7. QED
    BY <1>3, <1>4, <1>5, <1>6 DEF User

LEMMA TabInit == Init => TabTypes /\ TabTrue
  <1> SUFFICES ASSUME Init PROVE TabTypes /\ TabTrue
    OBVIOUS
  <1>1. DOMAIN cache = {} /\ DOMAIN fetching = {} /\ DOMAIN mutating = {}
    BY DEF Init, Nothing
  <1>2. TabTypes
    BY <1>1 DEF TabTypes, EntriesOK, RequestsOK
  <1>3. \A q : Cached(q) = {} /\ Fetched(q) = {}
    BY <1>1 DEF Cached, CachedIn, Fetched, FetchedIn
  <1>4. ToggleTrue
    BY <1>1 DEF ToggleTrue
  <1>5. QED
    BY <1>2, <1>3, <1>4 DEF TabTrue, FriendsTrue, FlagTrue, BoardTrue

LEMMA TabStep == SocialInv /\ TabTypes /\ TabTrue /\ [Next]_vars => TabTypes' /\ TabTrue'
  <1> SUFFICES ASSUME SocialInv, TabTypes, TabTrue, [Next]_vars
               PROVE  TabTypes' /\ TabTrue'
    OBVIOUS
  <1>1. CASE User
    BY <1>1, TabUser
  <1>2. CASE handleAuthed \/ SignInFails \/ OtherTab \/ UNCHANGED vars
    BY <1>2, TabIdle DEF handleAuthed, SignInFails, OtherTab, vars, friendshipVars
  <1>3. ASSUME NEW q \in QueryKeys, Fetch(q) \/ SentAgain(q) \/ Read(q) \/ Arrive(q) \/ FetchFails(q)
        PROVE  TabTypes' /\ TabTrue'
    BY <1>3, FetchStep, ReadStep, ArriveStep, FetchFailsStep
  <1>4. CASE CheckOwn \/ UpdateOwnFlag \/ ReadOwnFlag \/ Toggled
    BY <1>4, TabCheckOwn, TabUpdateFlag, TabReadFlag, TabToggled
  <1>5. ASSUME NEW kind \in Kinds, \/ ServeOwn(kind) \/ MutationSentAgain(kind)
                                   \/ MutationFails(kind) \/ FriendMutated(kind)
        PROVE  TabTypes' /\ TabTrue'
    BY <1>5, TabServe, TabSentAgain, TabMutationFails, TabFriendMutated
  <1>6. CASE Elsewhere
    BY <1>6, TabElsewhere
  <1>7. QED
    BY <1>1, <1>2, <1>3, <1>4, <1>5, <1>6 DEF Next

LEMMA TabInvariant == Spec => [](SocialInv /\ TabTypes /\ TabTrue)
  <1>1. Init => SocialInv /\ TabTypes /\ TabTrue
    BY SocialInitInv, TabInit
  <1>2. SocialInv /\ TabTypes /\ TabTrue /\ [Next]_vars => (SocialInv /\ TabTypes /\ TabTrue)'
    BY SocialStep, TabStep
  <1>3. QED
    BY <1>1, <1>2, PTL DEF Spec

-----------------------------------------------------------------------------
\* Every entry of the cache and every mutation under way is well formed, whatever
\* is fetched, lost or answered late: a list of friends has its three parts, a
\* leaderboard names nobody twice.
THEOREM SocialTypeCorrect == Spec => []TypeOK
  <1>1. SocialInv /\ TabTypes => TypeOK
    <2> SUFFICES ASSUME SocialInv, TabTypes PROVE TypeOK
      OBVIOUS
    <2>1. /\ FriendshipsTypeOK
          /\ user \in Users \cup {None} /\ signingIn \in Users \cup {None}
          /\ route \in {"landing", "login", "app"} \cup Users
          /\ tab \in Tabs /\ scope \in Scopes
      BY DEF SocialInv, Admitted, Pages
    <2>2. /\ DOMAIN cache \cup DOMAIN fetching \subseteq QueryKeys
          /\ \A q \in DOMAIN cache : /\ ValueOK(q, cache[q].value)
                                    /\ q \in Boards \cup {FriendsKey, SettingsKey} => cache[q].owner \in Users
                                    /\ cache[q].behind \in BOOLEAN /\ cache[q].invalid \in BOOLEAN
          /\ \A q \in DOMAIN fetching : fetching[q].read \in 0..Reads(q)
      BY DEF TabTypes, EntriesOK, EntryOK, RequestsOK, RequestOK
    <2>3. /\ DOMAIN mutating \subseteq Kinds
          /\ \A kind \in DOMAIN mutating :
                /\ mutating[kind] \in [owner : Users \cup {None}, on : Users, value : BOOLEAN,
                                       behind : BOOLEAN, at : {"sent", "checked", "done", "failed"}]
                /\ mutating[kind].at # "sent" => mutating[kind].owner \in Users
      BY DEF SocialInv, Sent, Mutation
    <2>4. QED
      BY <2>1, <2>2, <2>3, Zenon DEF TypeOK
  <1>2. QED
    BY <1>1, TabInvariant, PTL

LEMMA WritesAreSeen ==
    ASSUME SocialInv, TabTypes, TabTrue
    PROVE  OwnWritesSeen
  <1>1. ASSUME Settled(FriendsKey), NEW v \in Users, NEW l \in ToSet(Lists)
        PROVE  MutatingOn(v)
               \/ (v \in FriendsShown.lists[l] <=> v \in Listed(user, l))
    <2> DEFINE e == Told(cache[FriendsKey])
    <2>1. /\ FriendsKey \in DOMAIN cache
          /\ e.owner = user /\ e.value = cache[FriendsKey].value
          /\ FriendsShown.lists = cache[FriendsKey].value
      BY <1>1 DEF Settled, Loaded, Told, FriendsShown
    <2>2. e \in Cached(FriendsKey)
      BY <1>1, <2>1 DEF Settled, Cached, CachedIn
    <2>3. cache[FriendsKey].value \in [ToSet(Lists) -> SUBSET Users]
      BY <2>1, ValuesOf DEF TabTypes, EntriesOK, EntryOK, FriendLists
    <2> HIDE DEF e
    <2>4. Changing(user, v) \/ (v \in e.value[l] <=> v \in Listed(user, l))
      BY <2>1, <2>2, <2>3 DEF TabTrue, FriendsTrue, FriendsSeen
    <2>5. Changing(user, v) => MutatingOn(v)
      BY DEF Changing, MutatingOn
    <2>6. QED
      BY <2>1, <2>4, <2>5
  <1>2. ASSUME Settled(SettingsKey)
        PROVE  \/ "toggle" \in DOMAIN mutating /\ mutating["toggle"].owner = user
               \/ cache[SettingsKey].value = [username |-> user, public |-> public[user]]
    <2> DEFINE e == Told(cache[SettingsKey])
    <2>1. /\ SettingsKey \in DOMAIN cache
          /\ e.owner = user /\ e.value = cache[SettingsKey].value
      BY <1>2 DEF Settled, Loaded, Told
    <2>2. e \in Cached(SettingsKey)
      BY <1>2, <2>1 DEF Settled, Cached, CachedIn
    <2> HIDE DEF e
    <2>3. Toggling(user) \/ cache[SettingsKey].value = [username |-> user, public |-> public[user]]
      BY <2>1, <2>2 DEF TabTrue, FlagTrue, FlagSeen
    <2>4. QED
      BY <2>3 DEF Toggling
  <1>3. QED
    BY <1>1, <1>2 DEF OwnWritesSeen

LEMMA BoardsAgree ==
    ASSUME SocialInv, TabTypes, TabTrue
    PROVE  BoardAgrees
  <1> DEFINE u    == cache[FriendsBoard].owner
             mine == {u} \cup cache[FriendsKey].value["friends"]
             busy == {v \in mine : typed[v] > 0}
  <1> SUFFICES ASSUME {FriendsBoard, FriendsKey} \subseteq DOMAIN cache,
                      u = cache[FriendsKey].owner,
                      ~cache[FriendsBoard].behind, ~cache[FriendsKey].behind,
                      ~cache[FriendsKey].invalid, DOMAIN mutating \subseteq {"toggle"},
                      Cardinality(busy) <= BoardLimit
               PROVE  ToSet(cache[FriendsBoard].value) = busy
    BY Zenon DEF BoardAgrees, FriendsBoard
  <1>1. EntryOK(FriendsKey, cache[FriendsKey]) /\ EntryOK(FriendsBoard, cache[FriendsBoard])
    BY DEF TabTypes, EntriesOK
  <1>2. u \in Users /\ cache[FriendsKey].value \in [ToSet(Lists) -> SUBSET Users]
    BY <1>1, ValuesOf, KeysDiffer DEF EntryOK, FriendLists
  <1>3. "friends" \in ToSet(Lists)
    BY DEF ToSet, Lists
  <1>4. cache[FriendsKey].value["friends"] = Listed(u, "friends")
    <2> DEFINE e == Told(cache[FriendsKey])
    <2>1. e.owner = u /\ e.value = cache[FriendsKey].value
      BY DEF Told
    <2>2. e \in Cached(FriendsKey)
      BY DEF Cached, CachedIn
    <2> HIDE DEF e
    <2>3. \A v : ~Changing(u, v)
      BY DEF Changing
    <2>4. \A v \in Users : v \in e.value["friends"] <=> v \in Listed(u, "friends")
      BY <1>2, <1>3, <2>1, <2>2, <2>3 DEF TabTrue, FriendsTrue, FriendsSeen
    <2>5. Listed(u, "friends") \subseteq Users
      BY DEF Listed
    <2>6. cache[FriendsKey].value["friends"] \subseteq Users
      BY <1>2, <1>3
    <2>7. QED
      BY <2>1, <2>4, <2>5, <2>6
  <1>5. mine = friendsScope(u)
    BY <1>4, ScopeIsListed
  <1>6. cache[FriendsBoard].value = Leaderboard(u, "friends")
    <2> DEFINE e == Told(cache[FriendsBoard])
    <2>1. e.owner = u /\ e.value = cache[FriendsBoard].value
      BY DEF Told
    <2>2. e \in Cached(FriendsBoard)
      BY KeysDiffer DEF Cached, CachedIn
    <2> HIDE DEF e
    <2>3. QED
      BY <2>1, <2>2 DEF TabTrue, BoardTrue
  <1>7. ToSet(Leaderboard(u, "friends")) = busy
    BY <1>2, <1>5, BoardIs
  <1>8. QED
    BY <1>6, <1>7

\* What was done in the tab is what it shows once the backend has said so, and the
\* friends' leaderboard and the list of friends name the same people; for every
\* number of users and of requests, whatever crosses, fails or comes late.
THEOREM TabsTellTheTruth == Spec => []TabsTrue
  <1>1. SocialInv /\ TabTypes /\ TabTrue => TabsTrue
    BY WritesAreSeen, BoardsAgree DEF TabsTrue
  <1>2. QED
    BY <1>1, TabInvariant, PTL
=============================================================================
