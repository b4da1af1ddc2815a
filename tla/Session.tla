-------------------------------- MODULE Session --------------------------------
(***************************************************************************)
(* How a browser stays signed in: the rotating refresh tokens of the       *)
(* backend (handleRefresh in auth.go) and the request wrapper of the web   *)
(* client (api.ts).  All tabs of the browser share one session in          *)
(* localStorage; each tab has its own refreshPromise, by which the calls   *)
(* of that tab that fail with 401 at the same time share one refresh.      *)
(*                                                                         *)
(* An access token is issued together with a refresh token and both are    *)
(* stored together, so the id of the refresh_tokens row names the pair.    *)
(* JavaScript runs one event of a tab to its end, and that is an action;   *)
(* the backend runs a refresh as a SELECT and, later, the writes and their *)
(* COMMIT.  There is one account.                                          *)
(***************************************************************************)
EXTENDS Integers, Sequences, FiniteSets

CONSTANTS
    Tabs,
    Calls,          \* calls of request() that can be under way at a time
    TabOf,          \* the tab each of them belongs to
    Refused,        \* those a sign-in form makes with a wrong password
    NoCall,
    MaxTokens,      \* bound: refresh_tokens rows ever issued
    MaxStrays,      \* bound: refreshes under way whose tab gave up on them
    MaxLapsed       \* bound: refresh tokens that reach their 30 days

ASSUME SessionAssumption ==
    /\ TabOf \in [Calls -> Tabs]
    /\ Refused \subseteq Calls
    /\ NoCall \notin Calls
    /\ MaxTokens \in Nat
    /\ MaxStrays \in Nat
    /\ MaxLapsed \in Nat

VARIABLES
    tokens,         \* refresh_tokens: the login it descends from, and revoked_at
    age,            \* per pair: 1 the access token has expired, 2 both have
    session,        \* localStorage: a pair, or None
    form,           \* per tab: the pair its sign-in form is about to get; one
                    \* form at a time is filled in
    refreshPromise, \* per tab: the call that does the refresh, or NoCall
    call,           \* per call: where request() is, and with what
    strays,         \* refreshes the backend is handling for nobody
    raced,          \* history: one token was being refreshed twice at a time
    failed,         \* history: a refresh failed, or its tab gave up on it
    signedOut       \* history: the user signed out with no refresh or sign-in
                    \* under way, and not in since

browserVars == <<session, form, refreshPromise, call>>
backendVars == <<tokens, age, strays>>
historyVars == <<raced, failed, signedOut>>
vars == <<browserVars, backendVars, historyVars>>

-----------------------------------------------------------------------------
None == 0

Idle            == [pc |-> "idle", tok |-> None, retry |-> FALSE, new |-> None]
Waiting         == [pc |-> "wait", tok |-> None, retry |-> FALSE, new |-> None]
Sent(tok, again) == [pc |-> "sent", tok |-> tok, retry |-> again, new |-> None]

\* Calls whose own refresh the backend has, or has answered.
Refreshing == {c \in Calls : call[c].pc \in {"refresh", "looked", "rotated"}}

\* Tokens that are being refreshed by someone other than the tab.
SpentElsewhere(tab) ==
    {call[c].tok : c \in {d \in Refreshing : TabOf[d] # tab}}
        \cup {s.tok : s \in strays}

Init ==
    /\ tokens = <<>>
    /\ age = [i \in 1..MaxTokens |-> 0]
    /\ session = None
    /\ form = [tab \in Tabs |-> None]
    /\ refreshPromise = [tab \in Tabs |-> NoCall]
    /\ call = [c \in Calls |-> Idle]
    /\ strays = {}
    /\ raced = FALSE
    /\ failed = FALSE
    /\ signedOut = FALSE

\* A token pair of this login; issueRefreshTokenTx.
Issued(rows, login) == Append(rows, [login |-> login, revoked |-> FALSE])

-----------------------------------------------------------------------------
\* handleLogin and handleSignup issue a pair.  What is stored now is no
\* condition: LoginRoute looks when it renders, so a form can be on the page
\* since before another tab signed in.
handleLogin(tab) ==
    /\ \A t \in Tabs : form[t] = None
    /\ Len(tokens) < MaxTokens
    /\ tokens' = Issued(tokens, Len(tokens) + 1)
    /\ form' = [form EXCEPT ![tab] = Len(tokens) + 1]
    /\ UNCHANGED <<age, strays, session, refreshPromise, call, historyVars>>

\* handleAuthed stores it, whatever is stored by now.
SignIn(tab) ==
    /\ form[tab] # None
    /\ session' = form[tab]
    /\ form' = [form EXCEPT ![tab] = None]
    /\ signedOut' = FALSE
    /\ UNCHANGED <<refreshPromise, call, backendVars, raced, failed>>

\* handleLogout clears the session and lets everything under way run on.
SignOut ==
    /\ session # None
    /\ session' = None
    /\ signedOut' = (Refreshing = {} /\ \A tab \in Tabs : form[tab] = None)
    /\ UNCHANGED <<form, refreshPromise, call, backendVars, raced, failed>>

-----------------------------------------------------------------------------
\* request sends the access token that is stored now, or none.
request(c) ==
    /\ call[c] = Idle
    /\ call' = [call EXCEPT ![c] = Sent(session, FALSE)]
    /\ UNCHANGED <<session, form, refreshPromise, backendVars, historyVars>>

\* Any other outcome than 401 ends the call and changes nothing.
Answered(c) ==
    /\ call[c].pc = "sent"
    /\ call' = [call EXCEPT ![c] = Idle]
    /\ UNCHANGED <<session, form, refreshPromise, backendVars, historyVars>>

\* requireUser answers 401, and so does handleLogin to a wrong password,
\* whatever access token comes with it.
Unauthorized(c) ==
    /\ call[c].pc = "sent"
    /\ c \notin Refused /\ call[c].tok # None => age[call[c].tok] > 0

\* 401 for a retry, or with nothing to refresh: the session is cleared.
GiveUp(c) ==
    /\ Unauthorized(c)
    /\ call[c].retry \/ session = None
    /\ session' = None
    /\ call' = [call EXCEPT ![c] = Idle]
    /\ UNCHANGED <<form, refreshPromise, backendVars, historyVars>>

\* Fault: the refresh takes the pair the call was made with, not looking at
\* what is stored.
StartRefresh_OldPair(c) ==
    LET tab == TabOf[c]
    IN
    /\ Unauthorized(c)
    /\ ~call[c].retry
    /\ call[c].tok # None
    /\ refreshPromise[tab] = NoCall
    /\ refreshPromise' = [refreshPromise EXCEPT ![tab] = c]
    /\ call' = [call EXCEPT ![c].pc = "refresh"]
    /\ raced' = (raced \/ call[c].tok \in SpentElsewhere(tab))
    /\ UNCHANGED <<session, form, backendVars, failed, signedOut>>

\* refreshAccessToken, first of its tab: POST the refresh token stored now.
StartRefresh(c) ==
    LET tab == TabOf[c]
    IN
    /\ Unauthorized(c)
    /\ ~call[c].retry
    /\ session # None
    /\ refreshPromise[tab] = NoCall
    /\ refreshPromise' = [refreshPromise EXCEPT ![tab] = c]
    /\ call' = [call EXCEPT ![c].pc = "refresh", ![c].tok = session]
    /\ raced' = (raced \/ session \in SpentElsewhere(tab))
    /\ UNCHANGED <<session, form, backendVars, failed, signedOut>>

\* Fault: no refreshPromise, every call does its own refresh.
JoinRefresh_Own(c) ==
    /\ Unauthorized(c)
    /\ ~call[c].retry
    /\ session # None
    /\ refreshPromise[TabOf[c]] # NoCall
    /\ call' = [call EXCEPT ![c].pc = "refresh", ![c].tok = session]
    /\ UNCHANGED <<session, form, refreshPromise, backendVars, historyVars>>

\* refreshAccessToken while the tab has a refresh under way: await that one.
JoinRefresh(c) ==
    /\ Unauthorized(c)
    /\ ~call[c].retry
    /\ session # None
    /\ refreshPromise[TabOf[c]] # NoCall
    /\ call' = [call EXCEPT ![c] = Waiting]
    /\ UNCHANGED <<session, form, refreshPromise, backendVars, historyVars>>

\* The call that refreshed and those that wait for it.
Awaiting(c) == {c} \cup {d \in Calls : TabOf[d] = TabOf[c] /\ call[d].pc = "wait"}

\* Fault: no finally, the settled promise stays in refreshPromise.
Resume_NotReset(c, r) ==
    /\ UNCHANGED refreshPromise
    /\ call' = [d \in Calls |-> IF d \in Awaiting(c) THEN r ELSE call[d]]

\* The promise is settled and reset, and those that awaited it go on with r.
Resume(c, r) ==
    /\ refreshPromise' = [refreshPromise EXCEPT ![TabOf[c]] = NoCall]
    /\ call' = [d \in Calls |-> IF d \in Awaiting(c) THEN r ELSE call[d]]

\* Fault: the new pair is returned and not stored.
Refreshed_NotStored(c) ==
    /\ call[c].pc = "rotated"
    /\ UNCHANGED session
    /\ Resume(c, Sent(call[c].new, TRUE))
    /\ UNCHANGED <<form, backendVars, historyVars>>

\* The new pair arrives and is stored; all of them retry with it.
Refreshed(c) ==
    /\ call[c].pc = "rotated"
    /\ session' = call[c].new
    /\ Resume(c, Sent(call[c].new, TRUE))
    /\ UNCHANGED <<form, backendVars, historyVars>>

\* The refresh is answered with an error: the session is cleared.
RefreshDenied(c) ==
    /\ session' = None
    /\ Resume(c, Idle)
    /\ UNCHANGED <<form, backendVars, raced, signedOut>>

Given(c) ==
    IF call[c].pc = "rotated" THEN {} ELSE {[tok |-> call[c].tok, pc |-> call[c].pc]}

\* fetch itself fails: the session stays, the backend may still go on.
RefreshUnreachable(c) ==
    /\ c \in Refreshing
    /\ Cardinality(strays) < MaxStrays
    /\ strays' = strays \cup Given(c)
    /\ failed' = TRUE
    /\ Resume(c, Idle)
    /\ UNCHANGED <<session, form, tokens, age, raced, signedOut>>

\* The tab is closed or reloaded: its calls and its form are gone.
Reload(tab) ==
    LET mine == {c \in Refreshing : TabOf[c] = tab}
    IN
    /\ Cardinality(strays) < MaxStrays
    /\ strays' = strays \cup UNION {Given(c) : c \in mine}
    /\ failed' = (failed \/ mine # {})
    /\ call' = [c \in Calls |-> IF TabOf[c] = tab THEN Idle ELSE call[c]]
    /\ refreshPromise' = [refreshPromise EXCEPT ![tab] = NoCall]
    /\ form' = [form EXCEPT ![tab] = None]
    /\ UNCHANGED <<session, tokens, age, raced, signedOut>>

-----------------------------------------------------------------------------
\* handleRefresh, the SELECT: neither revoked nor expired.  It locks nothing.
Valid(tok) == ~tokens[tok].revoked /\ age[tok] < 2

Look(c) ==
    /\ call[c].pc = "refresh"
    /\ Valid(call[c].tok)
    /\ call' = [call EXCEPT ![c].pc = "looked"]
    /\ UNCHANGED <<session, form, refreshPromise, backendVars, historyVars>>

\* 401: unknown, already used or expired.
Deny(c) ==
    /\ call[c].pc = "refresh"
    /\ ~Valid(call[c].tok)
    /\ RefreshDenied(c)
    /\ UNCHANGED failed

\* 500 at any statement; the transaction is rolled back.
Fail(c) ==
    /\ call[c].pc \in {"refresh", "looked"}
    /\ RefreshDenied(c)
    /\ failed' = TRUE

\* Fault: the token is not revoked.
Rotated_Keep(tok) == Issued(tokens, tokens[tok].login)

\* UPDATE ... SET revoked_at, INSERT, COMMIT; a second transaction's UPDATE of
\* the row waits for the first one's COMMIT and then goes on all the same.
Rotated(tok) ==
    LET used == [login |-> tokens[tok].login, revoked |-> TRUE]
    IN  Issued([tokens EXCEPT ![tok] = used], used.login)

Rotate(c) ==
    /\ call[c].pc = "looked"
    /\ Len(tokens) < MaxTokens
    /\ tokens' = Rotated(call[c].tok)
    /\ call' = [call EXCEPT ![c] = [pc |-> "rotated", tok |-> call[c].tok,
                                   retry |-> FALSE, new |-> Len(tokens) + 1]]
    /\ UNCHANGED <<age, strays, session, form, refreshPromise, historyVars>>

\* The same for a refresh nobody waits for; and it may be dropped or fail.
StrayLook(s) ==
    /\ s.pc = "refresh"
    /\ Valid(s.tok)
    /\ strays' = (strays \ {s}) \cup {[s EXCEPT !.pc = "looked"]}
    /\ UNCHANGED <<tokens, age, browserVars, historyVars>>

StrayRotate(s) ==
    /\ s.pc = "looked"
    /\ Len(tokens) < MaxTokens
    /\ tokens' = Rotated(s.tok)
    /\ strays' = strays \ {s}
    /\ UNCHANGED <<age, browserVars, historyVars>>

StrayEnd(s) ==
    /\ strays' = strays \ {s}
    /\ UNCHANGED <<tokens, age, browserVars, historyVars>>

\* Pairs that somebody still has.
Held ==
    {session} \cup {form[tab] : tab \in Tabs} \cup {s.tok : s \in strays}
        \cup {call[c].tok : c \in Calls} \cup {call[c].new : c \in Calls}

\* 15 minutes pass for an access token, 30 days for a refresh token.
Expire(i) ==
    /\ i \in Held
    /\ age[i] < 2
    /\ age[i] = 1 => Cardinality({j \in DOMAIN tokens : age[j] = 2}) < MaxLapsed
    /\ age' = [age EXCEPT ![i] = @ + 1]
    /\ UNCHANGED <<tokens, strays, browserVars, historyVars>>

Browser ==
    \/ \E tab \in Tabs : handleLogin(tab) \/ SignIn(tab) \/ Reload(tab)
    \/ SignOut
    \/ \E c \in Calls :
         \/ request(c) \/ Answered(c) \/ GiveUp(c) \/ StartRefresh(c)
         \/ JoinRefresh(c) \/ Refreshed(c) \/ RefreshUnreachable(c)

Backend ==
    \/ \E c \in Calls : Look(c) \/ Deny(c) \/ Fail(c) \/ Rotate(c)
    \/ \E s \in strays : StrayLook(s) \/ StrayRotate(s) \/ StrayEnd(s)
    \/ \E i \in DOMAIN tokens : Expire(i)

Next == Browser \/ Backend

Spec == Init /\ [][Next]_vars

-----------------------------------------------------------------------------
\* Every pair that is stored, sent or refreshed was issued.
PairTypes ==
    /\ tokens \in Seq([login : 1..MaxTokens, revoked : BOOLEAN])
    /\ Len(tokens) <= MaxTokens
    /\ age \in [1..MaxTokens -> 0..2]
    /\ session \in 0..Len(tokens)
    /\ form \in [Tabs -> 0..Len(tokens)]
    /\ refreshPromise \in [Tabs -> Calls \cup {NoCall}]
    /\ call \in [Calls -> [pc : {"idle", "sent", "refresh", "looked", "rotated", "wait"},
                           tok : 0..Len(tokens), retry : BOOLEAN, new : 0..Len(tokens)]]
    /\ strays \subseteq [tok : 1..Len(tokens), pc : {"refresh", "looked"}]
    /\ raced \in BOOLEAN /\ failed \in BOOLEAN /\ signedOut \in BOOLEAN

\* A tab has at most one refresh under way, that of one of its calls, and no
\* call waits for a promise that nobody is going to settle.
PromisesMatch ==
    /\ \A c \in Refreshing : call[c].tok # None /\ refreshPromise[TabOf[c]] = c
    /\ \A tab \in Tabs : refreshPromise[tab] # NoCall =>
         refreshPromise[tab] \in Refreshing /\ TabOf[refreshPromise[tab]] = tab
    /\ \A c \in Calls : call[c].pc = "wait" => refreshPromise[TabOf[c]] # NoCall

TypeOK == PairTypes /\ PromisesMatch

\* The browser can always go on: unless a refresh failed or was given up, the
\* stored refresh token is not revoked, or else its successor is on its way.
HoldsCurrentToken ==
    ~failed /\ session # None /\ tokens[session].revoked =>
        \E c \in Refreshing : call[c].pc = "rotated" /\ call[c].tok = session

\* Rotation keeps one token alive per login, through lost answers, repeated
\* attempts and failures, unless two refreshes of one token overlapped.
OneLiveToken ==
    ~raced => \A i, j \in DOMAIN tokens :
        /\ tokens[i].login = tokens[j].login
        /\ ~tokens[i].revoked
        /\ ~tokens[j].revoked
        => i = j

\* Signed out is signed out: whatever was sent before, no late answer brings a
\* session back, if no refresh and no sign-in was under way at that moment.
SignedOutStays == signedOut => session = None

\* The user is never signed out because an access token expired: any number of
\* calls that fail together share a refresh and go on.  The session is only
\* cleared by signing out, when the refresh token has expired too, when a retry
\* is answered 401 (the new access token expired before it arrived, or it brings
\* the wrong password again), when the refresh of an earlier sign-in is denied,
\* or when a refresh raced, was given up, or failed.
ExpiryIsInvisible ==
    [][session # None /\ session' = None =>
         \/ SignOut
         \/ age[session] = 2
         \/ \E c \in Calls : call[c].retry /\ GiveUp(c)
         \/ \E c \in Refreshing :
              Deny(c) /\ tokens[call[c].tok].login # tokens[session].login
         \/ raced \/ failed']_vars
=============================================================================
