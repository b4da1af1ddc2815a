-------------------------------- MODULE Social --------------------------------
(***************************************************************************)
(* One browser tab on the dashboard's Leaderboards, Friends, Profile and   *)
(* Settings tabs and on the public profile pages: its routes, its sign-in, *)
(* the query cache it keeps across them, and its requests to the backend   *)
(* of Friendships, which other users, and the user's other devices, change *)
(* meanwhile; its session is in localStorage, which the browser's tabs     *)
(* share.  One sign-in is under way at a time.                             *)
(*                                                                         *)
(* A query's request is sent, read by the backend and answered in separate *)
(* steps, and so is a mutation's.  What is cached or under way carries     *)
(* owner, the user whose token the request had, and behind: something else *)
(* than an answered mutation of its own has made it out of date.  Both are *)
(* for the properties only.                                                *)
(***************************************************************************)
EXTENDS Friendships

CONSTANTS
    None,
    MaxClicks,       \* bound: moves between pages and tabs
    MaxFetches,      \* bound: fetches
    MaxMutations,    \* bound: mutations of this tab
    MaxOthers        \* bound: steps of requests from elsewhere

ASSUME SocialAssumption ==
    /\ Users \cap {None, "landing", "login", "app"} = {}
    /\ MaxClicks \in Nat /\ MaxFetches \in Nat /\ MaxMutations \in Nat /\ MaxOthers \in Nat

VARIABLES
    user,            \* whose session is in localStorage, or None
    route,           \* the page: "landing", "login", "app", or the name of a public profile
    tab,             \* the Dashboard's tab
    scope,           \* the Leaderboards tab's scope
    signingIn,       \* who is signing in, or None
    cache,           \* query key -> [owner, value, behind, invalid]
    fetching,        \* query key -> [owner, value, behind, read]: read counts the lists read
    mutating,        \* kind -> [owner, on, value, behind, at]
    clicks, fetches, mutations, others    \* count to their bounds

bounds   == <<clicks, fetches, mutations, others>>
pageVars == <<user, route, tab, scope, signingIn>>
vars == <<friendshipVars, pageVars, cache, fetching, mutating, bounds>>

Tabs   == {"today", "leaderboards", "friends", "profile", "settings"}
Scopes == {"global", "friends"}
Kinds  == {"send", "accept", "decline", "remove", "toggle"}

\* Query keys; none of them names the user.
BoardKey(s)      == <<"leaderboard", s>>
FriendsKey       == <<"friends">>
SettingsKey      == <<"settings">>
ProfileKey(name) == <<"public-profile", name>>
Boards    == {BoardKey(s) : s \in Scopes}
QueryKeys == Boards \cup {FriendsKey, SettingsKey} \cup {ProfileKey(u) : u \in Users}

With(f, key, value) == [k \in DOMAIN f \cup {key} |-> IF k = key THEN value ELSE f[k]]
Without(f, keys)    == [k \in DOMAIN f \ keys |-> f[k]]
Nothing == [k \in {} |-> None]

\* Fault: the global board is not behind requireUser.
NeedsSession_OpenBoard(q) == q \in {BoardKey("friends"), FriendsKey, SettingsKey}

\* The queries of routes behind requireUser (main.go); public profiles are not.
NeedsSession(q) == q \in Boards \cup {FriendsKey, SettingsKey}

Loaded(q) == q \in DOMAIN cache

\* The queries of what is on the page.
Observed ==
    CASE route \in Users -> {ProfileKey(route)}
      [] route = "app" /\ tab = "leaderboards" -> {BoardKey(scope)}
      [] route = "app" /\ tab = "friends"      -> {FriendsKey}
      [] route = "app" /\ tab \in {"profile", "settings"} -> {SettingsKey}
      [] OTHER -> {}

-----------------------------------------------------------------------------
\* What the pages show.  A section that is not there is empty.
FriendsShown ==
    [loading |-> ~Loaded(FriendsKey) /\ FriendsKey \in DOMAIN fetching,
     lists   |-> IF Loaded(FriendsKey) THEN cache[FriendsKey].value ELSE Nothing,
     busy    |-> DOMAIN mutating]

\* The Settings tab's checkbox, and the link to one's profile if it is public.
SettingsShown ==
    IF Loaded(SettingsKey)
    THEN [name |-> {cache[SettingsKey].value.username},
          link |-> IF cache[SettingsKey].value.public
                   THEN {ProfileKey(cache[SettingsKey].value.username)} ELSE {},
          disabled |-> "toggle" \in DOMAIN mutating]
    ELSE [name |-> {}, link |-> {}, disabled |-> TRUE]

\* The Profile tab's name and its line on who can see it.
MyProfileShown ==
    IF Loaded(SettingsKey)
    THEN [name |-> {cache[SettingsKey].value.username},
          line |-> IF cache[SettingsKey].value.public THEN "anyone" ELSE "only you"]
    ELSE [name |-> {}, line |-> "loading"]

\* The Leaderboards tab: rank and name, one's own marked.
BoardShown ==
    IF Loaded(BoardKey(scope))
    THEN LET names == cache[BoardKey(scope)].value
         IN  [i \in DOMAIN names |-> [rank |-> i, name |-> names[i], isMe |-> names[i] = user]]
    ELSE <<>>

\* PublicProfilePage: the numbers, or nothing found.
ProfileShown ==
    IF Loaded(ProfileKey(route)) THEN cache[ProfileKey(route)].value ELSE {}

Shown ==
    CASE route \in Users -> ProfileShown
      [] route = "app" /\ tab = "leaderboards" -> BoardShown
      [] route = "app" /\ tab = "friends"      -> FriendsShown
      [] route = "app" /\ tab = "profile"      -> MyProfileShown
      [] route = "app" /\ tab = "settings"     -> SettingsShown
      [] OTHER -> None

-----------------------------------------------------------------------------
\* RequireAuth and LoginRoute send a visitor to the other page when the session
\* says so; they ask as the page is entered, not while it is there.
Routed(to) ==
    CASE to = "app" /\ user = None -> "login"
      [] to = "login" /\ user # None -> "app"
      [] OTHER -> to

Init ==
    /\ FriendshipsInit
    /\ user \in Users \cup {None}
    /\ route = (IF user = None THEN "landing" ELSE "app") /\ tab = "today" /\ scope = "global"
    /\ signingIn = None
    /\ cache = Nothing /\ fetching = Nothing /\ mutating = Nothing
    /\ clicks = 0 /\ fetches = 0 /\ mutations = 0 /\ others = 0

\* What f holds under the keys for one of the users is out of date.
Aged(f, keys, us) ==
    [k \in DOMAIN f |-> IF k \in keys /\ f[k].owner \in us THEN [f[k] EXCEPT !.behind = TRUE] ELSE f[k]]

\* A row of u and v has changed: by a request from elsewhere, or of this tab for
\* u, which will say so.
RowChanged(u, v) ==
    /\ cache' = Aged(cache, Boards \cup {FriendsKey}, {u, v})
    /\ fetching' = Aged(fetching, Boards \cup {FriendsKey}, {u, v})

OwnRowChanged(u, v) ==
    /\ cache' = Aged(Aged(cache, Boards, {u, v}), {FriendsKey}, {v})
    /\ fetching' = Aged(Aged(fetching, Boards, {u, v}), {FriendsKey}, {v})

\* The flag of u has changed.
FlagChanged(u) ==
    /\ cache' = Aged(cache, {SettingsKey}, {u})
    /\ fetching' = Aged(fetching, {SettingsKey}, {u})

-----------------------------------------------------------------------------
\* Moving about.  A move within the app keeps the cache and what is under way;
\* loading a page anew drops it all.
Click ==
    /\ clicks < MaxClicks
    /\ clicks' = clicks + 1
    /\ UNCHANGED <<friendshipVars, fetches, mutations, others>>

Move(to) ==
    /\ route' = to /\ tab' = "today" /\ scope' = "global"
    /\ UNCHANGED <<signingIn, cache, fetching, mutating>>
    /\ Click

FullLoad(to) ==
    /\ route' = Routed(to) /\ tab' = "today" /\ scope' = "global"
    /\ signingIn' = None
    /\ cache' = Nothing /\ fetching' = Nothing /\ mutating' = Nothing
    /\ UNCHANGED user
    /\ Click

\* The dashboard's Home button and name.
GoHome ==
    /\ route = "app"
    /\ Move("landing")
    /\ UNCHANGED user

\* "Go to dashboard" or "Sign in".
Enter ==
    /\ route = "landing"
    /\ Move(Routed("app"))
    /\ UNCHANGED user

\* The browser's back button, on the login page.
Back ==
    /\ route = "login"
    /\ Move("landing")
    /\ UNCHANGED user

\* "Sign out".  The query cache stays.
handleLogout ==
    /\ route = "app"
    /\ user' = None
    /\ Move("landing")

Reload ==
    /\ route \in {"landing", "login", "app"}
    /\ FullLoad(route)

\* The names on the page, which are links if the backend said their profiles are
\* public: real links, not the router's.
LinksShown ==
    CASE route = "app" /\ tab = "leaderboards" -> {e.name : e \in ToSet(BoardShown)}
      [] route = "app" /\ tab = "friends" /\ Loaded(FriendsKey) ->
            UNION {FriendsShown.lists[l] : l \in ToSet(Lists)}
      [] OTHER -> {}

VisitProfile(name) ==
    /\ name \in LinksShown
    /\ FullLoad(name)

LeaveProfile ==
    /\ route \in Users
    /\ FullLoad("landing")

SelectTab(t) ==
    /\ route = "app" /\ tab # t
    /\ tab' = t /\ scope' = "global"
    /\ UNCHANGED <<user, route, signingIn, cache, fetching, mutating>>
    /\ Click

SelectScope(s) ==
    /\ route = "app" /\ tab = "leaderboards" /\ scope # s
    /\ scope' = s
    /\ UNCHANGED <<user, route, tab, signingIn, cache, fetching, mutating>>
    /\ Click

\* Login's handleSubmit, and its outcome; one goes to the dashboard even if
\* one has left the login page meanwhile.
SignIn(u) ==
    /\ route = "login" /\ signingIn = None
    /\ signingIn' = u
    /\ UNCHANGED <<user, route, tab, scope, cache, fetching, mutating>>
    /\ Click

handleAuthed ==
    /\ signingIn # None
    /\ user' = signingIn
    /\ route' = "app" /\ tab' = "today" /\ scope' = "global"
    /\ signingIn' = None
    /\ UNCHANGED <<friendshipVars, cache, fetching, mutating, bounds>>

\* A wrong password is answered 401 too, which clears the session there may be.
SignInFails ==
    /\ signingIn # None
    /\ signingIn' = None
    /\ user' \in {user, None}
    /\ UNCHANGED <<friendshipVars, route, tab, scope, cache, fetching, mutating, bounds>>

\* localStorage changes while the page stays: one signs in or out in another tab,
\* or a token's refresh, asked for before, is answered now.
OtherTab ==
    /\ others < MaxOthers
    /\ others' = others + 1
    /\ user' \in (Users \cup {None}) \ {user}
    /\ UNCHANGED <<friendshipVars, route, tab, scope, signingIn, cache, fetching, mutating,
                   clicks, fetches, mutations>>

-----------------------------------------------------------------------------
\* A request as it is sent, with the token there is by then.
Request == [owner |-> user, value |-> Nothing, behind |-> FALSE, read |-> 0]

\* A query that is on the page is fetched: as it appears, on the interval, when
\* the window gets the focus, because it was invalidated.
Fetch(q) ==
    /\ q \in Observed \ DOMAIN fetching
    /\ fetches < MaxFetches
    /\ fetching' = With(fetching, q, Request)
    /\ fetches' = fetches + 1
    /\ UNCHANGED <<friendshipVars, pageVars, cache, mutating, clicks, mutations, others>>

Reads(q) == IF q = FriendsKey THEN Len(Lists) ELSE 1

\* What the backend reads next for the request of u.
ReadNow(q, u, request) ==
    CASE q = FriendsKey  -> With(request.value, Lists[request.read + 1], Listed(u, Lists[request.read + 1]))
      [] q = SettingsKey -> [username |-> u, public |-> public[u]]
      [] q \in Boards    -> Leaderboard(u, q[2])
      [] OTHER           -> PublicProfile(q[2])

Read(q) ==
    /\ q \in DOMAIN fetching
    /\ LET request == fetching[q]
       IN  /\ request.read < Reads(q)
           /\ NeedsSession(q) => request.owner # None
           /\ fetching' = [fetching EXCEPT ![q] =
                  [request EXCEPT !.value = ReadNow(q, request.owner, request), !.read = @ + 1]]
    /\ UNCHANGED <<friendshipVars, pageVars, cache, mutating, bounds>>

\* The answer becomes the entry, which is valid from now.
Arrive(q) ==
    /\ q \in DOMAIN fetching
    /\ fetching[q].read = Reads(q)
    /\ cache' = With(cache, q, [owner |-> fetching[q].owner, value |-> fetching[q].value,
                                behind |-> fetching[q].behind, invalid |-> FALSE])
    /\ fetching' = Without(fetching, {q})
    /\ UNCHANGED <<friendshipVars, pageVars, mutating, bounds>>

\* request's retry after a refresh, and the QueryClient's after an error.
SentAgain(q) ==
    /\ q \in DOMAIN fetching
    /\ fetching' = [fetching EXCEPT ![q] = Request]
    /\ UNCHANGED <<friendshipVars, pageVars, cache, mutating, bounds>>

\* A fetch that fails leaves the entry as it was, and the page too: where it fails
\* with a 401, when the refresh is refused or after the retry, the session goes.
FetchFails(q) ==
    /\ q \in DOMAIN fetching
    /\ fetching' = Without(fetching, {q})
    /\ user' = user \/ (NeedsSession(q) /\ user' = None)
    /\ UNCHANGED <<friendshipVars, route, tab, scope, signingIn, cache, mutating, bounds>>

-----------------------------------------------------------------------------
\* A click on a button of the Friends tab, on whom its lists name, or on the
\* checkbox; a button whose mutation is pending is disabled.
Offered(kind) ==
    LET lists == FriendsShown.lists
    IN  CASE route = "app" /\ tab = "friends" /\ kind = "send" -> Users
          [] route = "app" /\ tab = "friends" /\ Loaded(FriendsKey) /\ kind = "accept" ->
                lists["incoming"]
          [] route = "app" /\ tab = "friends" /\ Loaded(FriendsKey) /\ kind = "decline" ->
                lists["incoming"] \cup lists["outgoing"]
          [] route = "app" /\ tab = "friends" /\ Loaded(FriendsKey) /\ kind = "remove" ->
                lists["friends"]
          [] route = "app" /\ tab = "settings" /\ kind = "toggle" -> SettingsShown.name
          [] OTHER -> {}

Mutate(kind, v) ==
    /\ v \in Offered(kind) /\ kind \notin DOMAIN mutating
    /\ mutations < MaxMutations
    /\ mutating' = With(mutating, kind,
          [owner |-> user, on |-> v,
           value |-> kind = "toggle" /\ ~cache[SettingsKey].value.public,
           behind |-> FALSE, at |-> "sent"])
    /\ mutations' = mutations + 1
    /\ UNCHANGED <<friendshipVars, pageVars, cache, fetching, clicks, fetches, others>>

Advance(kind, at) == mutating' = [mutating EXCEPT ![kind].at = at]

\* Answered 401 and sent again after a refresh: for whoever is signed in by then.
MutationSentAgain(kind) ==
    /\ kind \in DOMAIN mutating
    /\ mutating[kind].at = "sent" /\ user \notin {None, mutating[kind].owner}
    /\ mutating' = [mutating EXCEPT ![kind].owner = user]
    /\ UNCHANGED <<friendshipVars, pageVars, cache, fetching, bounds>>

\* The backend's SELECT for a request to become friends.
CheckOwn ==
    /\ "send" \in DOMAIN mutating
    /\ mutating["send"].at = "sent" /\ mutating["send"].owner # None
    /\ CheckRequest(mutating["send"].owner, mutating["send"].on)
    /\ Advance("send", "checked")
    /\ UNCHANGED <<pageVars, cache, fetching, bounds>>

\* The statement that changes the row; where it finds none, the request fails.
ServeOwn(kind) ==
    /\ kind \in DOMAIN mutating \ {"toggle"}
    /\ LET u == mutating[kind].owner
           v == mutating[kind].on
       IN  /\ u # None
           /\ \/ kind = "send" /\ mutating[kind].at = "checked" /\ InsertRequest(u, v)
              \/ kind = "accept"  /\ mutating[kind].at = "sent" /\ AcceptRequest(u, v)
              \/ kind = "decline" /\ mutating[kind].at = "sent" /\ DeclineRequest(u, v)
              \/ kind = "remove"  /\ mutating[kind].at = "sent" /\ RemoveFriend(u, v)
           /\ IF friendships' = friendships
              THEN Advance(kind, "failed") /\ UNCHANGED <<cache, fetching>>
              ELSE Advance(kind, "done") /\ OwnRowChanged(u, v)
    /\ UNCHANGED <<pageVars, bounds>>

\* handlePatchSettings: the UPDATE, then a SELECT for the answer.
UpdateOwnFlag ==
    /\ "toggle" \in DOMAIN mutating
    /\ mutating["toggle"].at = "sent" /\ mutating["toggle"].owner # None
    /\ SetPublic(mutating["toggle"].owner, mutating["toggle"].value)
    /\ fetching' = Aged(fetching, {SettingsKey}, {mutating["toggle"].owner})
    /\ Advance("toggle", "checked")
    /\ UNCHANGED <<pageVars, cache, bounds>>

ReadOwnFlag ==
    /\ "toggle" \in DOMAIN mutating
    /\ mutating["toggle"].at = "checked"
    /\ LET request == mutating["toggle"]
       IN  mutating' = [mutating EXCEPT !["toggle"] =
              [request EXCEPT !.at = "done", !.value = public[request.owner], !.behind = FALSE]]
    /\ UNCHANGED <<friendshipVars, pageVars, cache, fetching, bounds>>

\* The mutation fails, or its answer is lost, whatever it did; nothing is fetched
\* for that.  (A removal is a DELETE, which the preflight of main.go does not
\* allow: with page and backend on two origins it always fails.)  A 401 clears
\* the session.
MutationFails(kind) ==
    /\ kind \in DOMAIN mutating
    /\ LET keys == {IF kind = "toggle" THEN SettingsKey ELSE FriendsKey}
       IN  /\ cache' = Aged(cache, keys, {mutating[kind].owner})
           /\ fetching' = Aged(fetching, keys, {mutating[kind].owner})
    /\ mutating' = Without(mutating, {kind})
    /\ user' = user \/ (mutating[kind].at = "sent" /\ user' = None)
    /\ UNCHANGED <<friendshipVars, route, tab, scope, signingIn, bounds>>

\* Fault: a fetch that is under way is not cancelled.
Invalidated_NoCancel(q) ==
    /\ cache' = [k \in DOMAIN cache |->
          IF k = q THEN [cache[k] EXCEPT !.invalid = TRUE] ELSE cache[k]]
    /\ UNCHANGED fetching

\* invalidateQueries: an entry is marked, until its next fetch.  A fetch under way
\* is cancelled if the page shows the entry; otherwise it goes on, and may come
\* with what was read before.
Invalidated(q) ==
    /\ cache' = [k \in DOMAIN cache |->
          IF k = q THEN [cache[k] EXCEPT !.invalid = TRUE] ELSE cache[k]]
    /\ fetching' = IF Loaded(q) /\ q \in Observed THEN Without(fetching, {q})
                   ELSE Aged(fetching, {q}, Users)

\* onSuccess of the friends' mutations, which runs on whatever page there is by now.
FriendMutated(kind) ==
    /\ kind \in DOMAIN mutating \ {"toggle"}
    /\ mutating[kind].at = "done"
    /\ Invalidated(FriendsKey)
    /\ mutating' = Without(mutating, {kind})
    /\ UNCHANGED <<friendshipVars, pageVars, bounds>>

\* onSuccess of the toggle: setQueryData; a fetch under way goes on.
Toggled ==
    /\ "toggle" \in DOMAIN mutating
    /\ mutating["toggle"].at = "done"
    /\ LET answer == mutating["toggle"]
       IN  cache' = With(cache, SettingsKey,
              [owner |-> answer.owner, value |-> [username |-> answer.owner, public |-> answer.value],
               behind |-> answer.behind, invalid |-> FALSE])
    /\ mutating' = Without(mutating, {"toggle"})
    /\ UNCHANGED <<friendshipVars, pageVars, fetching, bounds>>

-----------------------------------------------------------------------------
\* Requests from elsewhere.
Elsewhere ==
    /\ others < MaxOthers
    /\ others' = others + 1
    /\ \/ \E u, v \in Users :
             /\ \/ CheckRequest(u, v) \/ InsertRequest(u, v) \/ AcceptRequest(u, v)
                \/ DeclineRequest(u, v) \/ RemoveFriend(u, v)
             /\ IF friendships' = friendships THEN UNCHANGED <<cache, fetching>> ELSE RowChanged(u, v)
             /\ UNCHANGED mutating
       \/ \E u \in Users :
             /\ SetPublic(u, ~public[u])
             /\ FlagChanged(u)
             /\ mutating' = Aged(mutating, {"toggle"}, {u})
    /\ UNCHANGED <<pageVars, clicks, fetches, mutations>>

User ==
    \/ GoHome \/ Enter \/ Back \/ handleLogout \/ Reload \/ LeaveProfile
    \/ \E name \in Users : VisitProfile(name) \/ SignIn(name)
    \/ \E t \in Tabs : SelectTab(t)
    \/ \E s \in Scopes : SelectScope(s)
    \/ \E kind \in Kinds, v \in Users : Mutate(kind, v)

Next ==
    \/ User
    \/ handleAuthed \/ SignInFails \/ OtherTab
    \/ \E q \in QueryKeys : Fetch(q) \/ SentAgain(q) \/ Read(q) \/ Arrive(q) \/ FetchFails(q)
    \/ CheckOwn \/ UpdateOwnFlag \/ ReadOwnFlag \/ Toggled
    \/ \E kind \in Kinds : \/ ServeOwn(kind) \/ MutationSentAgain(kind)
                           \/ MutationFails(kind) \/ FriendMutated(kind)
    \/ Elsewhere

Spec == Init /\ [][Next]_vars

-----------------------------------------------------------------------------
FriendLists == [ToSet(Lists) -> SUBSET Users]

ValueOK(q, value) ==
    CASE q = FriendsKey  -> value \in FriendLists
      [] q = SettingsKey -> value \in [username : Users, public : BOOLEAN]
      [] q \in Boards    -> value \in Seq(Users) /\ IsInjective(value)
      [] OTHER           -> value \subseteq {typed[q[2]]}

\* Types; and what needs a session was asked with one.  The dashboard itself may be
\* on the page without: RequireAuth only asks as the page is entered.
TypeOK ==
    /\ FriendshipsTypeOK
    /\ user \in Users \cup {None} /\ signingIn \in Users \cup {None}
    /\ route \in {"landing", "login", "app"} \cup Users
    /\ tab \in Tabs /\ scope \in Scopes
    /\ DOMAIN cache \cup DOMAIN fetching \subseteq QueryKeys
    /\ \A q \in DOMAIN cache : /\ ValueOK(q, cache[q].value)
                              /\ q \in Boards \cup {FriendsKey, SettingsKey} => cache[q].owner \in Users
                              /\ cache[q].behind \in BOOLEAN /\ cache[q].invalid \in BOOLEAN
    /\ \A q \in DOMAIN fetching : fetching[q].read \in 0..Reads(q)
    /\ DOMAIN mutating \subseteq Kinds
    /\ \A kind \in DOMAIN mutating :
          /\ mutating[kind] \in [owner : Users \cup {None}, on : Users, value : BOOLEAN,
                                 behind : BOOLEAN, at : {"sent", "checked", "done", "failed"}]
          /\ mutating[kind].at # "sent" => mutating[kind].owner \in Users

\* The entry is the user's, up to date as far as this tab can know, and shown.
Settled(q) ==
    /\ Loaded(q) /\ q \in Observed /\ q \notin DOMAIN fetching /\ user # None
    /\ cache[q].owner = user /\ ~cache[q].behind /\ ~cache[q].invalid

MutatingOn(v) ==
    \E kind \in DOMAIN mutating \ {"toggle"} : mutating[kind].owner = user /\ mutating[kind].on = v

\* What you did here is what you see: once the backend has confirmed it, the
\* Friends tab shows each other user in exactly the list they are in, and the
\* Settings and Profile tabs the flag as it is, although reads and writes cross
\* (FriendsView.tsx:20-25).  Requests from elsewhere, lost answers and what was
\* being fetched when the tab was left or had nothing to show yet are excepted.
OwnWritesSeen ==
    /\ Settled(FriendsKey) =>
          \A v \in Users, l \in ToSet(Lists) :
             MutatingOn(v)
             \/ (v \in FriendsShown.lists[l] <=> v \in Listed(user, l))
    /\ Settled(SettingsKey) =>
          \/ "toggle" \in DOMAIN mutating /\ mutating["toggle"].owner = user
          \/ cache[SettingsKey].value = [username |-> user, public |-> public[user]]

\* The friends' leaderboard and the list of friends, which two handlers read from
\* two sides of the table, name the same people: oneself and one's friends, those
\* who have typed (leaderboards.go:19-23), unless a change of one's own is under way.
BoardAgrees ==
    LET board   == BoardKey("friends")
        current == {board, FriendsKey} \subseteq DOMAIN cache
                   /\ cache[board].owner = cache[FriendsKey].owner
                   /\ ~cache[board].behind /\ ~cache[FriendsKey].behind
                   /\ ~cache[FriendsKey].invalid /\ DOMAIN mutating \subseteq {"toggle"}
    IN  current =>
          LET mine == {cache[board].owner} \cup cache[FriendsKey].value["friends"]
          IN  Cardinality({v \in mine : typed[v] > 0}) <= BoardLimit
              => ToSet(cache[board].value) = {v \in mine : typed[v] > 0}

\* The tabs tell the truth: about what was done in them, and about each other.
TabsTrue == OwnWritesSeen /\ BoardAgrees

\* The Profile tab shows the name of the user who is signed in ("it reads your own
\* username/member_since", MyProfileView.tsx:28-29).
ShownIsYours ==
    route = "app" /\ tab = "profile" /\ user # None => MyProfileShown.name \subseteq {user}
=============================================================================
