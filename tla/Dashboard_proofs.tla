--------------------------- MODULE Dashboard_proofs ----------------------------
(***************************************************************************)
(* The dashboard.  First its session (Session), for any number of tabs,    *)
(* calls and tokens; then the pages of days that a signed-in tab shows     *)
(* (DayPage), for every window, every set of zones and whatever rows are   *)
(* delivered.                                                              *)
(***************************************************************************)
EXTENDS Session, DayPage, Numbers_proofs, SequenceTheorems, TLAPS

TokenRow == [login : 1..MaxTokens, revoked : BOOLEAN]

CallRow ==
    [pc : {"idle", "sent", "refresh", "looked", "rotated", "wait"},
     tok : 0..Len(tokens), retry : BOOLEAN, new : 0..Len(tokens)]

\* What the backend has after it issued a pair: the rows it had, and one more.
LEMMA IssuedRows ==
    ASSUME TypeOK, Len(tokens) < MaxTokens,
           NEW table \in Seq(TokenRow), Len(table) = Len(tokens),
           NEW login \in 1..MaxTokens
    PROVE  /\ Issued(table, login) \in Seq(TokenRow)
           /\ Len(Issued(table, login)) = Len(tokens) + 1
           /\ \A i \in 1..Len(tokens) : Issued(table, login)[i] = table[i]
           /\ Issued(table, login)[Len(tokens) + 1] = [login |-> login, revoked |-> FALSE]
  <1>1. [login |-> login, revoked |-> FALSE] \in TokenRow
    BY DEF TokenRow
  <1>2. QED
    BY <1>1 DEF Issued

\* What rotation makes of the rows: the token is revoked, its successor issued.
LEMMA RotatedRows ==
    ASSUME TypeOK, Len(tokens) < MaxTokens, NEW tok \in 1..Len(tokens)
    PROVE  /\ Rotated(tok) \in Seq(TokenRow)
           /\ Len(Rotated(tok)) = Len(tokens) + 1
           /\ \A i \in 1..Len(tokens) :
                /\ Rotated(tok)[i].login = tokens[i].login
                /\ Rotated(tok)[i].revoked <=> (tokens[i].revoked \/ i = tok)
           /\ Rotated(tok)[Len(tokens) + 1] =
                [login |-> tokens[tok].login, revoked |-> FALSE]
  <1> DEFINE used == [login |-> tokens[tok].login, revoked |-> TRUE]
             table == [tokens EXCEPT ![tok] = used]
  <1>1. tokens \in Seq(TokenRow)
    BY DEF TypeOK, PairTypes, TokenRow
  <1>2. \A i \in 1..Len(tokens) : tokens[i] \in TokenRow
    BY <1>1, LenProperties
  <1>3. used \in TokenRow
    BY <1>2 DEF TokenRow
  <1>4. /\ table \in Seq(TokenRow)
        /\ Len(table) = Len(tokens)
        /\ \A i \in 1..Len(tokens) : table[i] = IF i = tok THEN used ELSE tokens[i]
    <2> HIDE DEF used
    <2> QED
      BY <1>1, <1>3, ExceptSeq
  <1>6. tokens[tok].login \in 1..MaxTokens
    BY <1>2 DEF TokenRow
  <1>7. \A i \in 1..Len(tokens) :
          /\ table[i].login = tokens[i].login
          /\ table[i].revoked <=> (tokens[i].revoked \/ i = tok)
    BY <1>2, <1>4 DEF TokenRow
  <1>8. Rotated(tok) = Issued(table, tokens[tok].login)
    BY DEF Rotated, table
  <1> HIDE DEF table
  <1>9. QED
    BY <1>4, <1>6, <1>7, <1>8, IssuedRows

-----------------------------------------------------------------------------
\* What a tab leaves behind is a refresh the backend is handling.
LEMMA GivenTypes ==
    ASSUME TypeOK, NEW c \in Refreshing
    PROVE  Given(c) \subseteq [tok : 1..Len(tokens), pc : {"refresh", "looked"}]
  <1>1. /\ c \in Calls
        /\ call[c].pc \in {"refresh", "looked", "rotated"}
        /\ call[c].tok \in 1..Len(tokens)
    BY DEF TypeOK, PairTypes, PromisesMatch, Refreshing, None
  <1>2. QED
    BY <1>1 DEF Given

\* A step only stores and sends pairs that were issued.
LEMMA PairTypesStep ==
    ASSUME TypeOK, [Next]_vars
    PROVE  PairTypes'
  <1> USE SessionAssumption DEF None, TypeOK, TokenRow
  <1>0. Len(tokens) \in Nat /\ DOMAIN tokens = 1..Len(tokens)
    BY DEF PairTypes
  <1>1. ASSUME NEW tab \in Tabs, handleLogin(tab)
       PROVE  PairTypes'
    <2>1. /\ tokens' \in Seq(TokenRow)
          /\ Len(tokens') = Len(tokens) + 1
      <3>1. Len(tokens) < MaxTokens /\ tokens' = Issued(tokens, Len(tokens) + 1)
        BY <1>1 DEF handleLogin
      <3>2. tokens \in Seq(TokenRow) /\ Len(tokens) + 1 \in 1..MaxTokens
        BY <1>0, <3>1 DEF PairTypes
      <3>3. QED
        BY <3>1, <3>2, IssuedRows
    <2>2. form' \in [Tabs -> 0..Len(tokens')]
      BY <1>0, <1>1, <2>1 DEF handleLogin, PairTypes
    <2>3. QED
      BY <1>0, <1>1, <2>1, <2>2 DEF handleLogin, historyVars, PairTypes
  <1>2. ASSUME NEW tab \in Tabs, SignIn(tab)
       PROVE  PairTypes'
    <2>1. form' \in [Tabs -> 0..Len(tokens')] /\ session' \in 0..Len(tokens')
      BY <1>0, <1>2 DEF SignIn, backendVars, PairTypes
    <2>2. QED
      BY <1>0, <1>2, <2>1 DEF SignIn, backendVars, PairTypes
  <1>3. CASE SignOut
    BY <1>0, <1>3 DEF SignOut, backendVars, PairTypes
  <1>4. ASSUME NEW tab \in Tabs, Reload(tab)
       PROVE  PairTypes'
    <2>1. form' \in [Tabs -> 0..Len(tokens')]
      BY <1>0, <1>4 DEF Reload, PairTypes
    <2>2. strays' \subseteq [tok : 1..Len(tokens'), pc : {"refresh", "looked"}]
      BY <1>0, <1>4, GivenTypes DEF Reload, PairTypes
    <2>3. refreshPromise' \in [Tabs -> Calls \cup {NoCall}]
      BY <1>0, <1>4 DEF Reload, PairTypes
    <2>4. call' \in [Calls -> CallRow] /\ tokens' = tokens
      BY <1>0, <1>4 DEF Reload, Idle, PairTypes, CallRow
    <2>5. QED
      BY <1>0, <1>4, <2>1, <2>2, <2>3, <2>4 DEF Reload, PairTypes, CallRow
  <1>5. ASSUME NEW c \in Calls, request(c)
       PROVE  PairTypes'
    BY <1>0, <1>5 DEF request, Sent, Idle, backendVars, historyVars, PairTypes
  <1>6. ASSUME NEW c \in Calls, Answered(c)
       PROVE  PairTypes'
    BY <1>0, <1>6 DEF Answered, Idle, backendVars, historyVars, PairTypes
  <1>7. ASSUME NEW c \in Calls, GiveUp(c)
       PROVE  PairTypes'
    BY <1>0, <1>7 DEF GiveUp, Unauthorized, Idle, backendVars, historyVars, PairTypes
  <1>8. ASSUME NEW c \in Calls, StartRefresh(c)
       PROVE  PairTypes'
    <2>1. call' \in [Calls -> CallRow] /\ tokens' = tokens
      BY <1>0, <1>8, ZenonT(40) DEF StartRefresh, backendVars, PairTypes, CallRow
    <2>2. raced' \in BOOLEAN
      BY <1>8 DEF StartRefresh, PairTypes
    <2>3. QED
      BY <1>0, <1>8, <2>1, <2>2 DEF StartRefresh, backendVars, PairTypes, CallRow
  <1>9. ASSUME NEW c \in Calls, JoinRefresh(c)
       PROVE  PairTypes'
    BY <1>0, <1>9 DEF JoinRefresh, Unauthorized, Waiting, backendVars, historyVars, PairTypes
  <1>10. ASSUME NEW c \in Calls, Refreshed(c)
       PROVE  PairTypes'
    BY <1>0, <1>10 DEF Refreshed, Resume, Awaiting, Sent, backendVars, historyVars, PairTypes
  <1>11. ASSUME NEW c \in Calls, RefreshUnreachable(c)
       PROVE  PairTypes'
    <2>1. strays' \subseteq [tok : 1..Len(tokens'), pc : {"refresh", "looked"}]
      BY <1>0, <1>11, GivenTypes DEF RefreshUnreachable, PairTypes
    <2>2. refreshPromise' \in [Tabs -> Calls \cup {NoCall}]
      BY <1>0, <1>11 DEF RefreshUnreachable, Resume, PairTypes
    <2>3. call' \in [Calls -> CallRow] /\ tokens' = tokens
      BY <1>0, <1>11 DEF RefreshUnreachable, Resume, Idle, PairTypes, CallRow
    <2>4. QED
      BY <1>0, <1>11, <2>1, <2>2, <2>3 DEF RefreshUnreachable, PairTypes, CallRow
  <1>12. ASSUME NEW c \in Calls, Look(c)
       PROVE  PairTypes'
    BY <1>0, <1>12, ZenonT(40) DEF Look, backendVars, historyVars, PairTypes
  <1>13. ASSUME NEW c \in Calls, Deny(c)
       PROVE  PairTypes'
    BY <1>0, <1>13 DEF Deny, RefreshDenied, Resume, Awaiting, Idle, backendVars, PairTypes
  <1>14. ASSUME NEW c \in Calls, Fail(c)
       PROVE  PairTypes'
    BY <1>0, <1>14 DEF Fail, RefreshDenied, Resume, Awaiting, Idle, backendVars, PairTypes
  <1>15. ASSUME NEW c \in Calls, Rotate(c)
       PROVE  PairTypes'
    <2>1. call[c].tok \in 1..Len(tokens)
      BY <1>0, <1>15 DEF Rotate, PairTypes, PromisesMatch, Refreshing
    <2>2. /\ tokens' \in Seq(TokenRow)
          /\ Len(tokens') = Len(tokens) + 1
      BY <1>15, <2>1, RotatedRows DEF Rotate
    <2>3. Len(tokens') <= MaxTokens
      BY <1>0, <1>15, <2>2 DEF Rotate
    <2>4. call' \in [Calls -> [pc : {"idle", "sent", "refresh", "looked", "rotated", "wait"},
                              tok : 0..Len(tokens'), retry : BOOLEAN,
                              new : 0..Len(tokens')]]
      BY <1>0, <1>15, <2>2 DEF Rotate, PairTypes
    <2>5. /\ form' \in [Tabs -> 0..Len(tokens')]
          /\ strays' \subseteq [tok : 1..Len(tokens'), pc : {"refresh", "looked"}]
      BY <1>0, <1>15, <2>2 DEF Rotate, PairTypes
    <2>6. QED
      BY <1>0, <1>15, <2>2, <2>3, <2>4, <2>5, SMTT(20) DEF Rotate, historyVars, PairTypes
  <1>16. ASSUME NEW s \in strays, StrayLook(s)
       PROVE  PairTypes'
    BY <1>0, <1>16 DEF StrayLook, browserVars, historyVars, PairTypes
  <1>17. ASSUME NEW s \in strays, StrayRotate(s)
       PROVE  PairTypes'
    <2>1. s.tok \in 1..Len(tokens)
      BY <1>0 DEF PairTypes
    <2>2. /\ tokens' \in Seq(TokenRow)
          /\ Len(tokens') = Len(tokens) + 1
      BY <1>17, <2>1, RotatedRows DEF StrayRotate
    <2>3. Len(tokens') <= MaxTokens
      BY <1>0, <1>17, <2>2 DEF StrayRotate
    <2>4. call' \in [Calls -> [pc : {"idle", "sent", "refresh", "looked", "rotated", "wait"},
                              tok : 0..Len(tokens'), retry : BOOLEAN,
                              new : 0..Len(tokens')]]
      BY <1>0, <1>17, <2>2, SMTT(30) DEF StrayRotate, browserVars, PairTypes
    <2>5. /\ form' \in [Tabs -> 0..Len(tokens')]
          /\ strays' \subseteq [tok : 1..Len(tokens'), pc : {"refresh", "looked"}]
      BY <1>0, <1>17, <2>2 DEF StrayRotate, browserVars, PairTypes
    <2>6. QED
      BY <1>0, <1>17, <2>2, <2>3, <2>4, <2>5 DEF StrayRotate, browserVars, historyVars, PairTypes
  <1>18. ASSUME NEW s \in strays, StrayEnd(s)
       PROVE  PairTypes'
    BY <1>0, <1>18 DEF StrayEnd, browserVars, historyVars, PairTypes
  <1>19. ASSUME NEW i \in DOMAIN tokens, Expire(i)
       PROVE  PairTypes'
    <2>1. age[i] < 2 /\ age' = [age EXCEPT ![i] = @ + 1]
      BY <1>19 DEF Expire
    <2>2. age \in [1..MaxTokens -> 0..2] /\ i \in 1..MaxTokens
      BY <1>0 DEF PairTypes
    <2>3. age[i] \in 0..2
      BY <2>2
    <2>4. age[i] + 1 \in 0..2
      BY <2>1, <2>3
    <2>5. age' \in [1..MaxTokens -> 0..2]
      BY <2>1, <2>2, <2>4, Zenon
    <2>6. UNCHANGED <<tokens, strays, browserVars, historyVars>>
      BY <1>19 DEF Expire
    <2>7. QED
      BY <2>5, <2>6 DEF browserVars, historyVars, PairTypes
  <1>20. CASE UNCHANGED vars
    BY <1>20 DEF vars, browserVars, backendVars, historyVars, PairTypes
  <1>21. QED
    BY <1>1, <1>2, <1>3, <1>4, <1>5, <1>6, <1>7, <1>8, <1>9, <1>10, <1>11, <1>12, <1>13, <1>14, <1>15, <1>16, <1>17, <1>18, <1>19, <1>20
    DEF Next, Browser, Backend

\* A refresh that ends, however it ends, resets its promise and wakes who waits.
LEMMA PromisesMatchStep ==
    ASSUME TypeOK, [Next]_vars
    PROVE  PromisesMatch'
  <1> USE SessionAssumption DEF None, TypeOK
  <1>0. /\ call \in [Calls -> CallRow]
        /\ refreshPromise \in [Tabs -> Calls \cup {NoCall}]
    BY DEF PairTypes, CallRow
  <1>1. ASSUME NEW tab \in Tabs, handleLogin(tab)
       PROVE  PromisesMatch'
    BY <1>0, <1>1 DEF handleLogin, historyVars, PromisesMatch, Refreshing, CallRow
  <1>2. ASSUME NEW tab \in Tabs, SignIn(tab)
       PROVE  PromisesMatch'
    BY <1>0, <1>2 DEF SignIn, backendVars, PromisesMatch, Refreshing, CallRow
  <1>3. CASE SignOut
    BY <1>0, <1>3 DEF SignOut, backendVars, PromisesMatch, Refreshing, CallRow
  <1>4. ASSUME NEW tab \in Tabs, Reload(tab)
       PROVE  PromisesMatch'
    BY <1>0, <1>4 DEF Reload, Given, Idle, PromisesMatch, Refreshing, CallRow
  <1>5. ASSUME NEW c \in Calls, request(c)
       PROVE  PromisesMatch'
    BY <1>0, <1>5 DEF request, Sent, Idle, backendVars, historyVars, PromisesMatch, Refreshing, CallRow
  <1>6. ASSUME NEW c \in Calls, Answered(c)
       PROVE  PromisesMatch'
    BY <1>0, <1>6 DEF Answered, Idle, backendVars, historyVars, PromisesMatch, Refreshing, CallRow
  <1>7. ASSUME NEW c \in Calls, GiveUp(c)
       PROVE  PromisesMatch'
    BY <1>0, <1>7 DEF GiveUp, Unauthorized, Idle, backendVars, historyVars, PromisesMatch, Refreshing, CallRow
  <1>8. ASSUME NEW c \in Calls, StartRefresh(c)
       PROVE  PromisesMatch'
    BY <1>0, <1>8 DEF StartRefresh, Unauthorized, backendVars, PromisesMatch, Refreshing, CallRow
  <1>9. ASSUME NEW c \in Calls, JoinRefresh(c)
       PROVE  PromisesMatch'
    BY <1>0, <1>9 DEF JoinRefresh, Unauthorized, Waiting, backendVars, historyVars, PromisesMatch, Refreshing, CallRow
  <1>10. ASSUME NEW c \in Calls, Refreshed(c)
       PROVE  PromisesMatch'
    BY <1>0, <1>10 DEF Refreshed, Resume, Awaiting, Sent, backendVars, historyVars, PromisesMatch, Refreshing, CallRow
  <1>11. ASSUME NEW c \in Calls, RefreshUnreachable(c)
       PROVE  PromisesMatch'
    BY <1>0, <1>11 DEF RefreshUnreachable, Resume, Awaiting, Given, Idle, PromisesMatch, Refreshing, CallRow
  <1>12. ASSUME NEW c \in Calls, Look(c)
       PROVE  PromisesMatch'
    BY <1>0, <1>12 DEF Look, backendVars, historyVars, PromisesMatch, Refreshing, CallRow
  <1>13. ASSUME NEW c \in Calls, Deny(c)
       PROVE  PromisesMatch'
    BY <1>0, <1>13 DEF Deny, RefreshDenied, Resume, Awaiting, Idle, backendVars, PromisesMatch, Refreshing, CallRow
  <1>14. ASSUME NEW c \in Calls, Fail(c)
       PROVE  PromisesMatch'
    BY <1>0, <1>14 DEF Fail, RefreshDenied, Resume, Awaiting, Idle, backendVars, PromisesMatch, Refreshing, CallRow
  <1>15. ASSUME NEW c \in Calls, Rotate(c)
       PROVE  PromisesMatch'
    BY <1>0, <1>15 DEF Rotate, historyVars, PromisesMatch, Refreshing, CallRow
  <1>16. ASSUME NEW s \in strays, StrayLook(s)
       PROVE  PromisesMatch'
    BY <1>0, <1>16 DEF StrayLook, browserVars, historyVars, PromisesMatch, Refreshing, CallRow
  <1>17. ASSUME NEW s \in strays, StrayRotate(s)
       PROVE  PromisesMatch'
    BY <1>0, <1>17 DEF StrayRotate, browserVars, historyVars, PromisesMatch, Refreshing, CallRow
  <1>18. ASSUME NEW s \in strays, StrayEnd(s)
       PROVE  PromisesMatch'
    BY <1>0, <1>18 DEF StrayEnd, browserVars, historyVars, PromisesMatch, Refreshing, CallRow
  <1>19. ASSUME NEW i \in DOMAIN tokens, Expire(i)
       PROVE  PromisesMatch'
    BY <1>0, <1>19 DEF Expire, browserVars, historyVars, PromisesMatch, Refreshing, CallRow
  <1>20. CASE UNCHANGED vars
    BY <1>20 DEF vars, browserVars, backendVars, historyVars, PromisesMatch, Refreshing, CallRow
  <1>21. QED
    BY <1>1, <1>2, <1>3, <1>4, <1>5, <1>6, <1>7, <1>8, <1>9, <1>10, <1>11, <1>12, <1>13, <1>14, <1>15, <1>16, <1>17, <1>18, <1>19, <1>20
    DEF Next, Browser, Backend

\* Every pair in use was issued, and a tab waits for a refresh that one of its
\* own calls is doing.
THEOREM TypeCorrect == Spec => []TypeOK
  <1>1. Init => TypeOK
    <2> SUFFICES ASSUME Init PROVE TypeOK
      OBVIOUS
    <2>1. tokens \in Seq(TokenRow) /\ Len(tokens) = 0
      BY DEF Init
    <2>2. call \in [Calls -> CallRow]
      BY <2>1 DEF Init, Idle, CallRow, None
    <2>3. PairTypes
      <3>1. /\ age \in [1..MaxTokens -> 0..2]
            /\ session = 0
            /\ form \in [Tabs -> {0}]
            /\ refreshPromise \in [Tabs -> {NoCall}]
            /\ strays = {}
            /\ raced = FALSE /\ failed = FALSE /\ signedOut = FALSE
        BY DEF Init, None
      <3>2. /\ Len(tokens) <= MaxTokens
            /\ session \in 0..Len(tokens)
        BY <2>1, <3>1, SessionAssumption
      <3>3. /\ form \in [Tabs -> 0..Len(tokens)]
            /\ refreshPromise \in [Tabs -> Calls \cup {NoCall}]
        BY <2>1, <3>1
      <3>4. QED
        BY <2>1, <2>2, <3>1, <3>2, <3>3 DEF PairTypes, TokenRow, CallRow
    <2>4. PromisesMatch
      BY DEF Init, PromisesMatch, Refreshing, Idle
    <2>5. QED
      BY <2>3, <2>4 DEF TypeOK
  <1>2. TypeOK /\ [Next]_vars => TypeOK'
    BY PairTypesStep, PromisesMatchStep DEF TypeOK
  <1>3. QED
    BY <1>1, <1>2, PTL DEF Spec

-----------------------------------------------------------------------------
(***************************************************************************)
(* Signed out with nothing under way: there is nothing left that could     *)
(* store a session, because a refresh starts from a stored one.            *)
(***************************************************************************)
SignedOutInv == signedOut => session = None /\ Refreshing = {}

\* Nobody can start a refresh with nothing stored, so none can end with a pair.
LEMMA SignedOutStep ==
    ASSUME TypeOK, SignedOutInv, [Next]_vars
    PROVE  SignedOutInv'
  <1>0. call \in [Calls -> CallRow]
    BY DEF TypeOK, PairTypes, CallRow
  <1>1. ASSUME NEW tab \in Tabs, handleLogin(tab)
       PROVE  SignedOutInv'
    BY <1>0, <1>1 DEF handleLogin, historyVars, SignedOutInv, Refreshing, CallRow
  <1>2. ASSUME NEW tab \in Tabs, SignIn(tab)
       PROVE  SignedOutInv'
    BY <1>0, <1>2 DEF SignIn, backendVars, SignedOutInv, Refreshing, CallRow
  <1>3. CASE SignOut
    BY <1>0, <1>3 DEF SignOut, backendVars, SignedOutInv, Refreshing, CallRow
  <1>4. ASSUME NEW tab \in Tabs, Reload(tab)
       PROVE  SignedOutInv'
    BY <1>0, <1>4 DEF Reload, Idle, SignedOutInv, Refreshing, CallRow
  <1>5. ASSUME NEW c \in Calls, request(c)
       PROVE  SignedOutInv'
    BY <1>0, <1>5 DEF request, Sent, backendVars, historyVars, SignedOutInv, Refreshing, CallRow
  <1>6. ASSUME NEW c \in Calls, Answered(c)
       PROVE  SignedOutInv'
    BY <1>0, <1>6 DEF Answered, Idle, backendVars, historyVars, SignedOutInv, Refreshing, CallRow
  <1>7. ASSUME NEW c \in Calls, GiveUp(c)
       PROVE  SignedOutInv'
    BY <1>0, <1>7 DEF GiveUp, Unauthorized, Idle, backendVars, historyVars, SignedOutInv, Refreshing, CallRow
  <1>8. ASSUME NEW c \in Calls, StartRefresh(c)
       PROVE  SignedOutInv'
    BY <1>0, <1>8 DEF StartRefresh, Unauthorized, backendVars, SignedOutInv, Refreshing, CallRow
  <1>9. ASSUME NEW c \in Calls, JoinRefresh(c)
       PROVE  SignedOutInv'
    BY <1>0, <1>9 DEF JoinRefresh, Unauthorized, Waiting, backendVars, historyVars, SignedOutInv, Refreshing, CallRow
  <1>10. ASSUME NEW c \in Calls, Refreshed(c)
       PROVE  SignedOutInv'
    BY <1>0, <1>10 DEF Refreshed, Resume, Awaiting, Sent, backendVars, historyVars, SignedOutInv, Refreshing, CallRow
  <1>11. ASSUME NEW c \in Calls, RefreshUnreachable(c)
       PROVE  SignedOutInv'
    BY <1>0, <1>11 DEF RefreshUnreachable, Resume, Awaiting, Idle, SignedOutInv, Refreshing, CallRow
  <1>12. ASSUME NEW c \in Calls, Look(c)
       PROVE  SignedOutInv'
    BY <1>0, <1>12 DEF Look, backendVars, historyVars, SignedOutInv, Refreshing, CallRow
  <1>13. ASSUME NEW c \in Calls, Deny(c)
       PROVE  SignedOutInv'
    BY <1>0, <1>13 DEF Deny, RefreshDenied, Resume, Awaiting, Idle, backendVars, SignedOutInv, Refreshing, CallRow
  <1>14. ASSUME NEW c \in Calls, Fail(c)
       PROVE  SignedOutInv'
    BY <1>0, <1>14 DEF Fail, RefreshDenied, Resume, Awaiting, Idle, backendVars, SignedOutInv, Refreshing, CallRow
  <1>15. ASSUME NEW c \in Calls, Rotate(c)
       PROVE  SignedOutInv'
    BY <1>0, <1>15 DEF Rotate, historyVars, SignedOutInv, Refreshing, CallRow
  <1>16. ASSUME NEW s \in strays, StrayLook(s)
       PROVE  SignedOutInv'
    BY <1>0, <1>16 DEF StrayLook, browserVars, historyVars, SignedOutInv, Refreshing, CallRow
  <1>17. ASSUME NEW s \in strays, StrayRotate(s)
       PROVE  SignedOutInv'
    BY <1>0, <1>17 DEF StrayRotate, browserVars, historyVars, SignedOutInv, Refreshing, CallRow
  <1>18. ASSUME NEW s \in strays, StrayEnd(s)
       PROVE  SignedOutInv'
    BY <1>0, <1>18 DEF StrayEnd, browserVars, historyVars, SignedOutInv, Refreshing, CallRow
  <1>19. ASSUME NEW i \in DOMAIN tokens, Expire(i)
       PROVE  SignedOutInv'
    BY <1>0, <1>19 DEF Expire, browserVars, historyVars, SignedOutInv, Refreshing, CallRow
  <1>20. CASE UNCHANGED vars
    BY <1>20 DEF vars, browserVars, backendVars, historyVars, SignedOutInv, Refreshing
  <1>21. QED
    BY <1>1, <1>2, <1>3, <1>4, <1>5, <1>6, <1>7, <1>8, <1>9, <1>10, <1>11, <1>12, <1>13, <1>14, <1>15, <1>16, <1>17, <1>18, <1>19, <1>20
    DEF Next, Browser, Backend

\* Once signed out, no late answer brings a session back.
THEOREM SignedOutForGood == Spec => []SignedOutStays
  <1>1. Init => SignedOutInv
    BY DEF Init, SignedOutInv
  <1>2. TypeOK /\ SignedOutInv /\ [Next]_vars => SignedOutInv'
    BY SignedOutStep
  <1>3. SignedOutInv => SignedOutStays
    BY DEF SignedOutInv, SignedOutStays
  <1>4. QED
    BY <1>1, <1>2, <1>3, TypeCorrect, PTL DEF Spec

-----------------------------------------------------------------------------
(***************************************************************************)
(* While no token is being refreshed twice at a time, every token has a    *)
(* sole spender, which finds it alive.                                     *)
(***************************************************************************)
Live(i) == ~tokens[i].revoked

SoleSpender ==
    ~raced =>
        /\ \A c, d \in Refreshing : call[c].tok = call[d].tok => c = d
        /\ \A c \in Refreshing, s \in strays : s.tok # call[c].tok
        /\ \A r, s \in strays : r.tok = s.tok => r = s
        /\ \A c \in Refreshing : call[c].pc = "looked" => Live(call[c].tok)
        /\ \A s \in strays : s.pc = "looked" => Live(s.tok)

OneLive ==
    ~raced => \A i, j \in 1..Len(tokens) :
        tokens[i].login = tokens[j].login /\ Live(i) /\ Live(j) => i = j

LoginsKnown == \A i \in 1..Len(tokens) : tokens[i].login <= Len(tokens)

RotationInv == SoleSpender /\ OneLive /\ LoginsKnown

\* Steps that start no refresh, rotate nothing and let some refreshes end.
LEMMA SpendersKept ==
    ASSUME SoleSpender, tokens' = tokens, raced' = raced, strays' \subseteq strays,
           \A c \in Refreshing' : /\ c \in Refreshing
                                  /\ call'[c].tok = call[c].tok
                                  /\ call'[c].pc = "looked" => call[c].pc = "looked"
    PROVE  SoleSpender'
  BY DEF SoleSpender, Live

\* A refresh that its tab leaves to the backend is a stray of the same token.
LEMMA SpenderLeft ==
    ASSUME SoleSpender, tokens' = tokens, raced' = raced, NEW c \in Refreshing,
           \A s \in strays' : s \in strays \/ s = [tok |-> call[c].tok, pc |-> call[c].pc],
           \A d \in Refreshing' : d \in Refreshing \ {c} /\ call'[d] = call[d]
    PROVE  SoleSpender'
  <1> SUFFICES ASSUME ~raced
               PROVE  SoleSpender'
    BY DEF SoleSpender
  <1>1. \A r, s \in strays' : r.tok = s.tok => r = s
    BY DEF SoleSpender
  <1>2. \A d \in Refreshing', s \in strays' : s.tok # call'[d].tok
    BY DEF SoleSpender
  <1>3. \A s \in strays' : s.pc = "looked" => ~tokens'[s.tok].revoked
    BY DEF SoleSpender, Live
  <1>4. \A d, b \in Refreshing' : call'[d].tok = call'[b].tok => d = b
    BY DEF SoleSpender
  <1>5. \A d \in Refreshing' : call'[d].pc = "looked" => ~tokens'[call'[d].tok].revoked
    BY DEF SoleSpender, Live
  <1>6. QED
    BY <1>1, <1>2, <1>3, <1>4, <1>5 DEF SoleSpender, Live

\* A refresh starts on a token nobody else is spending, or raced becomes true; a
\* rotation revokes the one token it spends itself.
LEMMA SpenderStep ==
    ASSUME TypeOK, SoleSpender, [Next]_vars
    PROVE  SoleSpender'
  <1>0. /\ call \in [Calls -> CallRow]
        /\ Len(tokens) \in Nat /\ DOMAIN tokens = 1..Len(tokens)
        /\ \A c \in Refreshing : call[c].tok \in 1..Len(tokens)
        /\ \A s \in strays : s.tok \in 1..Len(tokens)
        /\ \A c, d \in Refreshing : TabOf[c] = TabOf[d] => c = d
    <2>1. call \in [Calls -> CallRow]
      BY DEF TypeOK, PairTypes, CallRow
    <2>2. Len(tokens) \in Nat /\ DOMAIN tokens = 1..Len(tokens)
      BY DEF TypeOK, PairTypes
    <2>3. \A c \in Refreshing : call[c].tok \in 1..Len(tokens)
      <3> SUFFICES ASSUME NEW c \in Refreshing
                   PROVE  call[c].tok \in 1..Len(tokens)
        OBVIOUS
      <3>1. c \in Calls /\ call[c].tok # 0
        BY DEF TypeOK, PromisesMatch, Refreshing, None
      <3>2. call[c].tok \in 0..Len(tokens)
        BY <2>1, <3>1 DEF CallRow
      <3>3. QED
        BY <2>2, <3>1, <3>2
    <2>4. \A s \in strays : s.tok \in 1..Len(tokens)
      BY DEF TypeOK, PairTypes
    <2>5. \A c, d \in Refreshing : TabOf[c] = TabOf[d] => c = d
      BY DEF TypeOK, PromisesMatch
    <2>6. QED
      BY <2>1, <2>2, <2>3, <2>4, <2>5
  <1>1. ASSUME NEW tab \in Tabs, handleLogin(tab)
       PROVE  SoleSpender'
    <2>1. /\ \A i \in 1..Len(tokens) : tokens'[i] = tokens[i]
          /\ UNCHANGED <<strays, call, raced>>
      <3>1. Len(tokens) < MaxTokens /\ tokens' = Issued(tokens, Len(tokens) + 1)
        BY <1>1 DEF handleLogin
      <3>2. tokens \in Seq(TokenRow) /\ Len(tokens) + 1 \in 1..MaxTokens
        BY <1>0, <3>1, SessionAssumption DEF TypeOK, PairTypes, TokenRow
      <3>3. \A i \in 1..Len(tokens) : tokens'[i] = tokens[i]
        BY <3>1, <3>2, IssuedRows
      <3>4. QED
        BY <1>1, <3>3 DEF handleLogin, historyVars
    <2>2. QED
      BY <1>0, <2>1 DEF SoleSpender, Live, Refreshing
  <1>2. ASSUME NEW tab \in Tabs, SignIn(tab)
       PROVE  SoleSpender'
    BY <1>0, <1>2, SpendersKept DEF SignIn, backendVars, Refreshing, CallRow
  <1>3. CASE SignOut
    BY <1>0, <1>3, SpendersKept DEF SignOut, backendVars, Refreshing, CallRow
  <1>4. ASSUME NEW tab \in Tabs, Reload(tab)
       PROVE  SoleSpender'
    <2> DEFINE mine == {c \in Refreshing : TabOf[c] = tab}
    <2>1. /\ UNCHANGED <<tokens, raced>>
          /\ strays' = strays \cup UNION {Given(c) : c \in mine}
          /\ \A d \in Refreshing' : d \in Refreshing \ mine /\ call'[d] = call[d]
      BY <1>0, <1>4 DEF Reload, Refreshing, Idle
    <2>2. CASE mine = {}
      BY <2>1, <2>2, SpendersKept
    <2>3. ASSUME NEW c \in mine
          PROVE  SoleSpender'
      <3>1. mine = {c}
        BY <1>0
      <3>2. \A s \in strays' : s \in strays \/ s = [tok |-> call[c].tok, pc |-> call[c].pc]
        BY <2>1, <3>1 DEF Given
      <3>3. QED
        BY <2>1, <3>1, <3>2, SpenderLeft
    <2>4. QED
      BY <2>2, <2>3
  <1>5. ASSUME NEW c \in Calls, request(c)
       PROVE  SoleSpender'
    BY <1>0, <1>5, SpendersKept DEF request, Sent, backendVars, historyVars, Refreshing, CallRow
  <1>6. ASSUME NEW c \in Calls, Answered(c)
       PROVE  SoleSpender'
    BY <1>0, <1>6, SpendersKept DEF Answered, Idle, backendVars, historyVars, Refreshing, CallRow
  <1>7. ASSUME NEW c \in Calls, GiveUp(c)
       PROVE  SoleSpender'
    BY <1>0, <1>7, SpendersKept DEF GiveUp, Unauthorized, Idle, backendVars, historyVars, Refreshing, CallRow
  <1>8. ASSUME NEW c \in Calls, StartRefresh(c)
       PROVE  SoleSpender'
    <2> SUFFICES ASSUME ~raced'
                 PROVE  SoleSpender'
      BY DEF SoleSpender
    <2>1. /\ UNCHANGED <<tokens, strays>>
          /\ ~raced /\ session \notin SpentElsewhere(TabOf[c])
          /\ call' = [call EXCEPT ![c].pc = "refresh", ![c].tok = session]
          /\ refreshPromise[TabOf[c]] = NoCall
      BY <1>8 DEF StartRefresh, backendVars
    <2>2. Refreshing' = Refreshing \cup {c} /\ c \notin Refreshing
      <3>1. call[c].pc = "sent"
        BY <1>8 DEF StartRefresh, Unauthorized
      <3>2. \A d \in Calls : call'[d].pc = IF d = c THEN "refresh" ELSE call[d].pc
        BY <1>0, <2>1 DEF CallRow
      <3>3. QED
        BY <3>1, <3>2 DEF Refreshing
    <2>3. \A d \in Refreshing : call'[d] = call[d]
      BY <1>0, <2>1, <2>2 DEF Refreshing
    <2>4. call'[c].pc = "refresh" /\ call'[c].tok = session
      BY <1>0, <2>1 DEF CallRow
    <2>5. \A d \in Refreshing : TabOf[d] # TabOf[c]
      <3>1. \A d \in Refreshing : refreshPromise[TabOf[d]] = d /\ d # NoCall
        BY SessionAssumption DEF TypeOK, PromisesMatch, Refreshing
      <3>2. QED
        BY <2>1, <3>1
    <2>6. \A d \in Refreshing : call[d].tok # session
      BY <2>1, <2>5 DEF SpentElsewhere
    <2>7. \A s \in strays : s.tok # session
      BY <2>1 DEF SpentElsewhere
    <2>8. ~raced /\ tokens' = tokens /\ strays' = strays
      BY <2>1
    <2>9. ASSUME NEW d \in Refreshing'
          PROVE  \/ d = c /\ call'[d].tok = session /\ call'[d].pc = "refresh"
                 \/ d # c /\ d \in Refreshing /\ call'[d] = call[d]
      BY <2>2, <2>3, <2>4
    <2>10. \A d, b \in Refreshing' : call'[d].tok = call'[b].tok => d = b
      BY <2>6, <2>8, <2>9 DEF SoleSpender
    <2>11. \A d \in Refreshing', s \in strays' : s.tok # call'[d].tok
      BY <2>7, <2>8, <2>9 DEF SoleSpender
    <2>12. \A d \in Refreshing' : call'[d].pc = "looked" => ~tokens'[call'[d].tok].revoked
      BY <2>8, <2>9 DEF SoleSpender, Live
    <2>13. QED
      BY <2>8, <2>10, <2>11, <2>12 DEF SoleSpender, Live
  <1>9. ASSUME NEW c \in Calls, JoinRefresh(c)
       PROVE  SoleSpender'
    BY <1>0, <1>9, SpendersKept DEF JoinRefresh, Unauthorized, Waiting, backendVars, historyVars, Refreshing, CallRow
  <1>10. ASSUME NEW c \in Calls, Refreshed(c)
       PROVE  SoleSpender'
    BY <1>0, <1>10, SpendersKept DEF Refreshed, Resume, Awaiting, Sent, backendVars, historyVars, Refreshing, CallRow
  <1>11. ASSUME NEW c \in Calls, RefreshUnreachable(c)
       PROVE  SoleSpender'
    <2>1. /\ UNCHANGED <<tokens, raced>> /\ c \in Refreshing
          /\ \A s \in strays' : s \in strays \/ s = [tok |-> call[c].tok, pc |-> call[c].pc]
      BY <1>11 DEF RefreshUnreachable, Given
    <2>2. \A d \in Refreshing' : d \in Refreshing \ {c} /\ call'[d] = call[d]
      BY <1>0, <1>11 DEF RefreshUnreachable, Resume, Awaiting, Refreshing, Idle
    <2>3. QED
      BY <2>1, <2>2, SpenderLeft
  <1>12. ASSUME NEW c \in Calls, Look(c)
       PROVE  SoleSpender'
    <2>1. /\ UNCHANGED <<tokens, raced, strays>>
          /\ Live(call[c].tok)
          /\ Refreshing' = Refreshing
          /\ \A d \in Refreshing : /\ call'[d].tok = call[d].tok
                                  /\ call'[d].pc = IF d = c THEN "looked" ELSE call[d].pc
      BY <1>0, <1>12 DEF Look, Valid, Live, Refreshing, CallRow, backendVars, historyVars
    <2>2. QED
      BY <2>1 DEF SoleSpender, Live
  <1>13. ASSUME NEW c \in Calls, Deny(c)
       PROVE  SoleSpender'
    BY <1>0, <1>13, SpendersKept DEF Deny, RefreshDenied, Resume, Awaiting, Idle, backendVars, Refreshing, CallRow
  <1>14. ASSUME NEW c \in Calls, Fail(c)
       PROVE  SoleSpender'
    BY <1>0, <1>14, SpendersKept DEF Fail, RefreshDenied, Resume, Awaiting, Idle, backendVars, Refreshing, CallRow
  <1>15. ASSUME NEW c \in Calls, Rotate(c)
       PROVE  SoleSpender'
    <2>1. c \in Refreshing
      BY <1>15 DEF Rotate, Refreshing
    <2>2. /\ UNCHANGED <<raced, strays>>
          /\ Refreshing' = Refreshing
          /\ \A d \in Refreshing : /\ call'[d].tok = call[d].tok
                                  /\ call'[d].pc = IF d = c THEN "rotated" ELSE call[d].pc
      BY <1>0, <1>15 DEF Rotate, Refreshing, CallRow, historyVars
    <2>3. \A i \in 1..Len(tokens) : i # call[c].tok => (tokens'[i].revoked <=> tokens[i].revoked)
      BY <1>0, <1>15, <2>1, RotatedRows, ZenonT(40) DEF Rotate
    <2>4. QED
      BY <1>0, <2>1, <2>2, <2>3 DEF SoleSpender, Live
  <1>16. ASSUME NEW s \in strays, StrayLook(s)
       PROVE  SoleSpender'
    <2> DEFINE found == [s EXCEPT !.pc = "looked"]
    <2>1. /\ UNCHANGED <<tokens, raced, call>>
          /\ strays' = (strays \ {s}) \cup {found}
          /\ Live(s.tok)
      BY <1>16 DEF StrayLook, Valid, Live, browserVars, historyVars
    <2>2. found.tok = s.tok /\ found.pc = "looked"
      BY DEF TypeOK, PairTypes
    <2>3. Refreshing' = Refreshing
      BY <2>1 DEF Refreshing
    <2> HIDE DEF found
    <2>4. QED
      BY <2>1, <2>2, <2>3 DEF SoleSpender, Live
  <1>17. ASSUME NEW s \in strays, StrayRotate(s)
       PROVE  SoleSpender'
    <2>1. /\ UNCHANGED <<raced, call>>
          /\ strays' = strays \ {s}
          /\ Refreshing' = Refreshing
      BY <1>17 DEF StrayRotate, browserVars, historyVars, Refreshing
    <2>2. \A i \in 1..Len(tokens) : i # s.tok => (tokens'[i].revoked <=> tokens[i].revoked)
      BY <1>0, <1>17, RotatedRows, ZenonT(40) DEF StrayRotate
    <2>3. QED
      BY <1>0, <2>1, <2>2 DEF SoleSpender, Live
  <1>18. ASSUME NEW s \in strays, StrayEnd(s)
       PROVE  SoleSpender'
    BY <1>0, <1>18, SpendersKept DEF StrayEnd, browserVars, historyVars, Refreshing, CallRow
  <1>19. ASSUME NEW i \in DOMAIN tokens, Expire(i)
       PROVE  SoleSpender'
    BY <1>0, <1>19, SpendersKept DEF Expire, browserVars, historyVars, Refreshing, CallRow
  <1>20. CASE UNCHANGED vars
    BY <1>20, SpendersKept DEF vars, browserVars, backendVars, historyVars, Refreshing
  <1>21. QED
    BY <1>1, <1>2, <1>3, <1>4, <1>5, <1>6, <1>7, <1>8, <1>9, <1>10, <1>11, <1>12, <1>13, <1>14, <1>15, <1>16, <1>17, <1>18, <1>19, <1>20
    DEF Next, Browser, Backend

\* A sign-in issues the only token of a new login.
LEMMA SignInKeepsOne ==
    ASSUME TypeOK, OneLive, LoginsKnown, NEW tab \in Tabs, handleLogin(tab)
    PROVE  (OneLive /\ LoginsKnown)'
  <1>1. Len(tokens) \in Nat /\ tokens \in Seq(TokenRow)
    BY DEF TypeOK, PairTypes, TokenRow
  <1>2. Len(tokens) < MaxTokens /\ tokens' = Issued(tokens, Len(tokens) + 1) /\ raced' = raced
    BY DEF handleLogin, historyVars
  <1>3. Len(tokens) + 1 \in 1..MaxTokens
    BY <1>1, <1>2, SessionAssumption
  <1>4. /\ Len(tokens') = Len(tokens) + 1
        /\ \A i \in 1..Len(tokens) : tokens'[i] = tokens[i]
        /\ tokens'[Len(tokens) + 1] = [login |-> Len(tokens) + 1, revoked |-> FALSE]
    BY <1>1, <1>2, <1>3, IssuedRows
  <1>5. \A i \in 1..Len(tokens) : tokens[i].login \in Nat
    <2>1. \A i \in 1..Len(tokens) : tokens[i] \in TokenRow
      BY <1>1, LenProperties
    <2>2. QED
      BY <2>1, SessionAssumption DEF TokenRow
  <1>6. \A i \in 1..Len(tokens') : i = Len(tokens) + 1 \/ i \in 1..Len(tokens)
    BY <1>1, <1>4
  <1>7. LoginsKnown'
    BY <1>1, <1>4, <1>5, <1>6 DEF LoginsKnown
  <1>8. \A i \in 1..Len(tokens) : tokens'[i].login # Len(tokens) + 1
    BY <1>1, <1>4, <1>5 DEF LoginsKnown
  <1>9. OneLive'
    BY <1>2, <1>4, <1>6, <1>8 DEF OneLive, Live
  <1>10. QED
    BY <1>7, <1>9

\* Rotation replaces the live token of a login by its successor.
LEMMA RotationKeepsOne ==
    ASSUME TypeOK, OneLive, LoginsKnown, Len(tokens) < MaxTokens,
           NEW tok \in 1..Len(tokens), ~raced => Live(tok),
           tokens' = Rotated(tok), raced' = raced
    PROVE  (OneLive /\ LoginsKnown)'
  <1>1. Len(tokens) \in Nat /\ tokens \in Seq(TokenRow)
    BY DEF TypeOK, PairTypes, TokenRow
  <1>2. /\ Len(tokens') = Len(tokens) + 1
        /\ \A i \in 1..Len(tokens) :
             /\ tokens'[i].login = tokens[i].login
             /\ tokens'[i].revoked <=> (tokens[i].revoked \/ i = tok)
        /\ tokens'[Len(tokens) + 1] = [login |-> tokens[tok].login, revoked |-> FALSE]
    BY RotatedRows
  <1>3. \A i \in 1..Len(tokens) : tokens[i].login \in Nat
    <2>1. \A i \in 1..Len(tokens) : tokens[i] \in TokenRow
      BY <1>1, LenProperties
    <2>2. QED
      BY <2>1, SessionAssumption DEF TokenRow
  <1>4. \A i \in 1..Len(tokens') : i = Len(tokens) + 1 \/ i \in 1..Len(tokens)
    <2> DEFINE n == Len(tokens)
    <2>1. n \in Nat /\ Len(tokens') = n + 1
      BY <1>1, <1>2
    <2> HIDE DEF n
    <2>2. \A i \in 1..(n + 1) : i = n + 1 \/ i \in 1..n
      BY <2>1
    <2>3. QED
      BY <2>1, <2>2 DEF n
  <1>5. LoginsKnown'
    BY <1>1, <1>2, <1>3, <1>4 DEF LoginsKnown
  <1>6. ~raced => \A i \in 1..Len(tokens) :
          tokens[i].login = tokens[tok].login => tokens'[i].revoked
    BY <1>2 DEF OneLive, Live
  <1>7. ~raced => \A i, j \in 1..Len(tokens) :
          tokens'[i].login = tokens'[j].login /\ ~tokens'[i].revoked /\ ~tokens'[j].revoked
            => i = j
    BY <1>2 DEF OneLive, Live
  <1>8. OneLive'
    BY <1>2, <1>4, <1>6, <1>7 DEF OneLive, Live
  <1>9. QED
    BY <1>5, <1>8

\* A rotation finds its token alive, and no other step revokes or issues one.
LEMMA OneLiveStep ==
    ASSUME TypeOK, RotationInv, [Next]_vars
    PROVE  (OneLive /\ LoginsKnown)'
  <1> USE DEF RotationInv
  <1>0. ASSUME tokens' = tokens, raced => raced'
        PROVE  (OneLive /\ LoginsKnown)'
    BY <1>0 DEF OneLive, LoginsKnown, Live
  <1>1. ASSUME NEW tab \in Tabs, handleLogin(tab)
        PROVE  (OneLive /\ LoginsKnown)'
    BY <1>1, SignInKeepsOne
  <1>2. ASSUME NEW c \in Calls, Rotate(c)
        PROVE  (OneLive /\ LoginsKnown)'
    <2>1. c \in Refreshing /\ call[c].tok \in 0..Len(tokens) /\ call[c].tok # 0
      BY <1>2 DEF Rotate, Refreshing, TypeOK, PairTypes, PromisesMatch, None
    <2>2. Len(tokens) \in Nat
      BY DEF TypeOK, PairTypes
    <2>3. call[c].tok \in 1..Len(tokens)
      BY <2>1, <2>2
    <2>4. ~raced => Live(call[c].tok)
      BY <1>2, <2>1 DEF Rotate, SoleSpender
    <2>5. Len(tokens) < MaxTokens /\ tokens' = Rotated(call[c].tok) /\ raced' = raced
      BY <1>2 DEF Rotate, historyVars
    <2>6. QED
      BY <2>3, <2>4, <2>5, RotationKeepsOne
  <1>3. ASSUME NEW s \in strays, StrayRotate(s)
        PROVE  (OneLive /\ LoginsKnown)'
    <2>1. s.tok \in 1..Len(tokens)
      BY DEF TypeOK, PairTypes
    <2>2. ~raced => Live(s.tok)
      BY <1>3 DEF StrayRotate, SoleSpender
    <2>3. Len(tokens) < MaxTokens /\ tokens' = Rotated(s.tok) /\ raced' = raced
      BY <1>3 DEF StrayRotate, historyVars
    <2>4. QED
      BY <2>1, <2>2, <2>3, RotationKeepsOne
  <1>4. ASSUME NEW tab \in Tabs, SignIn(tab) \/ Reload(tab)
        PROVE  tokens' = tokens /\ (raced => raced')
    BY <1>4 DEF SignIn, Reload, backendVars
  <1>5. ASSUME SignOut
        PROVE  tokens' = tokens /\ (raced => raced')
    BY <1>5 DEF SignOut, backendVars
  <1>6. ASSUME NEW c \in Calls,
               \/ request(c) \/ Answered(c) \/ GiveUp(c) \/ StartRefresh(c)
               \/ JoinRefresh(c) \/ Refreshed(c) \/ RefreshUnreachable(c)
               \/ Look(c) \/ Deny(c) \/ Fail(c)
        PROVE  tokens' = tokens /\ (raced => raced')
    <2>1. CASE request(c)
      BY <2>1 DEF request, backendVars, historyVars
    <2>2. CASE Answered(c)
      BY <2>2 DEF Answered, backendVars, historyVars
    <2>3. CASE GiveUp(c)
      BY <2>3 DEF GiveUp, backendVars, historyVars
    <2>4. CASE StartRefresh(c)
      BY <2>4 DEF StartRefresh, backendVars
    <2>5. CASE JoinRefresh(c) \/ Look(c)
      BY <2>5 DEF JoinRefresh, Look, backendVars, historyVars
    <2>6. CASE Refreshed(c)
      BY <2>6 DEF Refreshed, backendVars, historyVars
    <2>7. CASE RefreshUnreachable(c)
      BY <2>7 DEF RefreshUnreachable
    <2>8. CASE Deny(c)
      BY <2>8 DEF Deny, RefreshDenied, backendVars
    <2>9. CASE Fail(c)
      BY <2>9 DEF Fail, RefreshDenied, backendVars
    <2>10. QED
      BY <1>6, <2>1, <2>2, <2>3, <2>4, <2>5, <2>6, <2>7, <2>8, <2>9
  <1>7. ASSUME NEW s \in strays, StrayLook(s) \/ StrayEnd(s)
        PROVE  tokens' = tokens /\ (raced => raced')
    BY <1>7 DEF StrayLook, StrayEnd, historyVars
  <1>8. ASSUME NEW i \in DOMAIN tokens, Expire(i)
        PROVE  tokens' = tokens /\ (raced => raced')
    BY <1>8 DEF Expire, historyVars
  <1>9. ASSUME UNCHANGED vars
        PROVE  tokens' = tokens /\ (raced => raced')
    BY <1>9 DEF vars, backendVars, historyVars
  <1>10. QED
    BY <1>0, <1>1, <1>2, <1>3, <1>4, <1>5, <1>6, <1>7, <1>8, <1>9
    DEF Next, Browser, Backend

\* As long as no token is refreshed twice at a time, a login has one live token.
THEOREM OneTokenPerLogin == Spec => []OneLiveToken
  <1>1. Init => RotationInv
    BY DEF Init, RotationInv, SoleSpender, OneLive, LoginsKnown, Refreshing, Idle
  <1>2. TypeOK /\ RotationInv /\ [Next]_vars => RotationInv'
    BY SpenderStep, OneLiveStep DEF RotationInv
  <1>3. TypeOK /\ RotationInv => OneLiveToken
    <2>1. TypeOK => DOMAIN tokens = 1..Len(tokens)
      BY DEF TypeOK, PairTypes
    <2>2. QED
      BY <2>1 DEF RotationInv, OneLive, OneLiveToken, Live
  <1>4. QED
    BY <1>1, <1>2, <1>3, TypeCorrect, PTL DEF Spec

-----------------------------------------------------------------------------
(***************************************************************************)
(* As long as no refresh fails, a pair that is on its way to the browser   *)
(* is alive and nobody can spend it before it is stored.                   *)
(***************************************************************************)
Spending(tok) == tok = session \/ \E c \in Refreshing : call[c].tok = tok

Arriving == {c \in Refreshing : call[c].pc = "rotated"}

FreshPairs ==
    /\ strays = {}
    /\ \A tab \in Tabs : form[tab] # None => Live(form[tab]) /\ ~Spending(form[tab])
    /\ \A c \in Arriving : call[c].new # None /\ Live(call[c].new) /\ ~Spending(call[c].new)
    /\ \A s, t \in Tabs : form[s] # None /\ form[t] # None => s = t
    /\ \A c, d \in Arriving : call[c].new = call[d].new => c = d
    /\ \A c \in Arriving, tab \in Tabs : call[c].new # form[tab]

HoldInv == ~failed => FreshPairs /\ HoldsCurrentToken

\* Steps that start no refresh, rotate nothing and store nothing.
LEMMA FreshPairsKept ==
    ASSUME ~failed => FreshPairs, failed' = failed, tokens' = tokens, strays' = strays,
           session' \in {session, None},
           \A tab \in Tabs : form'[tab] \in {form[tab], None},
           Refreshing' \subseteq Refreshing,
           \A c \in Refreshing' : /\ call'[c].tok = call[c].tok
                                  /\ call'[c].new = call[c].new
                                  /\ call'[c].pc = "rotated" => call[c].pc = "rotated"
    PROVE  ~failed' => FreshPairs'
  <1> SUFFICES ASSUME ~failed'
               PROVE  FreshPairs'
    OBVIOUS
  <1>1. FreshPairs
    OBVIOUS
  <1>2. Arriving' \subseteq Arriving
    BY DEF Arriving
  <1>3. \A tab \in Tabs : form'[tab] # None =>
          ~tokens'[form'[tab]].revoked /\ form'[tab] # session'
             /\ \A c \in Refreshing' : call'[c].tok # form'[tab]
    BY <1>1 DEF FreshPairs, Live, Spending
  <1>4. ASSUME NEW c \in Arriving'
        PROVE  /\ call'[c].new # None
               /\ ~tokens'[call'[c].new].revoked /\ call'[c].new # session'
               /\ \A d \in Refreshing' : call'[d].tok # call'[c].new
    <2>1. c \in Arriving /\ call'[c].new = call[c].new /\ call[c].new # None
      BY <1>1, <1>2 DEF Arriving, FreshPairs
    <2>2. Live(call[c].new) /\ call[c].new # session
            /\ \A d \in Refreshing : call[d].tok # call[c].new
      BY <1>1, <2>1 DEF FreshPairs, Spending
    <2>3. QED
      BY <2>1, <2>2 DEF Live
  <1>5. \A s, t \in Tabs : form'[s] # None /\ form'[t] # None => s = t
    BY <1>1 DEF FreshPairs
  <1>6. \A c, d \in Arriving' : call'[c].new = call'[d].new => c = d
    BY <1>1, <1>2 DEF FreshPairs, Arriving
  <1>7. \A c \in Arriving', tab \in Tabs : call'[c].new # form'[tab]
    BY <1>1, <1>2 DEF FreshPairs, Arriving
  <1>8. QED
    BY <1>1, <1>3, <1>4, <1>5, <1>6, <1>7 DEF FreshPairs, Live, Spending

\* Steps that store nothing and give up no answer on its way to the browser.
LEMMA HoldKept ==
    ASSUME HoldInv, failed' = failed, tokens' = tokens, strays' = strays,
           session' \in {session, None},
           \A tab \in Tabs : form'[tab] \in {form[tab], None},
           Refreshing' \subseteq Refreshing, Arriving \subseteq Refreshing',
           \A c \in Refreshing' : /\ call'[c].tok = call[c].tok
                                  /\ call'[c].new = call[c].new
                                  /\ call'[c].pc = "rotated" <=> call[c].pc = "rotated"
    PROVE  HoldInv'
  <1>1. ~failed' => FreshPairs'
    BY FreshPairsKept DEF HoldInv
  <1>2. ~failed' => HoldsCurrentToken'
    <2> SUFFICES ASSUME ~failed', session' # None, tokens'[session'].revoked
                 PROVE  \E c \in Refreshing' : call'[c].pc = "rotated" /\ call'[c].tok = session'
      BY DEF HoldsCurrentToken
    <2>1. session' = session /\ HoldsCurrentToken
      BY DEF HoldInv
    <2>2. PICK c \in Arriving : call[c].tok = session
      BY <2>1 DEF HoldsCurrentToken, Arriving
    <2>3. QED
      BY <2>1, <2>2 DEF Arriving
  <1>3. QED
    BY <1>1, <1>2 DEF HoldInv

\* Five steps store, issue or begin to spend a pair.  A sign-in issues one that
\* nobody can have yet.
LEMMA HoldLogin ==
    ASSUME TypeOK, HoldInv, NEW tab \in Tabs, handleLogin(tab)
    PROVE  HoldInv'
  <1> SUFFICES ASSUME ~failed
               PROVE  HoldInv'
    BY DEF handleLogin, historyVars, HoldInv
  <1> DEFINE tok == Len(tokens) + 1
  <1>1. Len(tokens) \in Nat /\ tokens \in Seq(TokenRow)
    BY DEF TypeOK, PairTypes, TokenRow
  <1>2. Len(tokens) < MaxTokens /\ tokens' = Issued(tokens, tok)
    BY DEF handleLogin
  <1>3. tok \in 1..MaxTokens
    BY <1>1, <1>2, SessionAssumption
  <1>4. /\ \A i \in 1..Len(tokens) : tokens'[i] = tokens[i]
        /\ tokens'[tok] = [login |-> tok, revoked |-> FALSE]
    BY <1>1, <1>2, <1>3, IssuedRows
  <1>5. /\ UNCHANGED <<failed, call, strays, refreshPromise, session>>
        /\ session \in 0..Len(tokens)
        /\ \A t \in Tabs : form[t] = None /\ form'[t] = IF t = tab THEN tok ELSE None
    BY DEF handleLogin, historyVars, TypeOK, PairTypes
  <1>6. Refreshing' = Refreshing /\ Arriving' = Arriving
    BY <1>5 DEF Refreshing, Arriving
  <1>7. \A c \in Refreshing : call[c].tok \in 0..Len(tokens) /\ call[c].new \in 0..Len(tokens)
    BY DEF TypeOK, PairTypes, Refreshing
  <1>8. FreshPairs
    BY DEF HoldInv
  <1>9. FreshPairs'
    <2> HIDE DEF tok
    <2>1. tok # None /\ \A i \in 0..Len(tokens) : i # tok
      BY <1>1 DEF tok, None
    <2>2. \A t \in Tabs : form'[t] # None =>
            ~tokens'[form'[t]].revoked /\ form'[t] # session'
              /\ \A c \in Refreshing' : call'[c].tok # form'[t]
      BY <1>4, <1>5, <1>6, <1>7, <2>1
    <2>3. \A c \in Arriving : call[c].new \in 1..Len(tokens)
      BY <1>1, <1>7, <1>8 DEF Arriving, FreshPairs, None
    <2>4. \A c \in Arriving' :
            /\ call'[c].new # None
            /\ ~tokens'[call'[c].new].revoked /\ call'[c].new # session'
            /\ \A d \in Refreshing' : call'[d].tok # call'[c].new
      BY <1>4, <1>5, <1>6, <1>8, <2>3 DEF FreshPairs, Live, Spending
    <2>5. \A c \in Arriving', t \in Tabs : call'[c].new # form'[t]
      BY <1>5, <1>6, <1>7, <2>1, <2>4 DEF Arriving
    <2>6. \A c, d \in Arriving' : call'[c].new = call'[d].new => c = d
      BY <1>5, <1>6, <1>8 DEF FreshPairs
    <2>7. \A s, t \in Tabs : form'[s] # None /\ form'[t] # None => s = t
      BY <1>5
    <2>8. QED
      BY <1>5, <1>8, <2>2, <2>4, <2>5, <2>6, <2>7 DEF FreshPairs, Live, Spending
  <1>10. HoldsCurrentToken'
    <2>1. HoldsCurrentToken
      BY DEF HoldInv
    <2>2. session # None => session \in 1..Len(tokens) /\ tokens'[session] = tokens[session]
      BY <1>1, <1>4, <1>5 DEF None
    <2>3. QED
      BY <1>5, <1>6, <2>1, <2>2 DEF HoldsCurrentToken, Arriving
  <1>11. QED
    BY <1>9, <1>10 DEF HoldInv

\* What the form stores is alive, and it leaves no other pair in a form.
LEMMA HoldSignIn ==
    ASSUME TypeOK, HoldInv, NEW tab \in Tabs, SignIn(tab)
    PROVE  HoldInv'
  <1> SUFFICES ASSUME ~failed
               PROVE  HoldInv'
    BY DEF SignIn, HoldInv
  <1>1. /\ UNCHANGED <<failed, call, strays, tokens>>
        /\ form[tab] # None /\ session' = form[tab]
        /\ \A t \in Tabs : form'[t] = IF t = tab THEN None ELSE form[t]
    BY DEF SignIn, backendVars, TypeOK, PairTypes
  <1>2. Refreshing' = Refreshing /\ Arriving' = Arriving
    BY <1>1 DEF Refreshing, Arriving
  <1>3. FreshPairs
    BY DEF HoldInv
  <1>4. \A t \in Tabs : form'[t] = None
    BY <1>1, <1>3 DEF FreshPairs
  <1>5. FreshPairs'
    BY <1>1, <1>2, <1>3, <1>4 DEF FreshPairs, Live, Spending
  <1>6. ~tokens'[session'].revoked
    BY <1>1, <1>3 DEF FreshPairs, Live
  <1>7. QED
    BY <1>5, <1>6 DEF HoldInv, HoldsCurrentToken

\* A refresh spends the stored pair, which is none of those on their way.
LEMMA HoldStartRefresh ==
    ASSUME TypeOK, HoldInv, NEW c \in Calls, StartRefresh(c)
    PROVE  HoldInv'
  <1> SUFFICES ASSUME ~failed
               PROVE  HoldInv'
    BY DEF StartRefresh, HoldInv
  <1>0. UNCHANGED <<failed, form, session, strays, tokens>>
    BY DEF StartRefresh, backendVars
  <1>1. /\ session # None
        /\ call' = [call EXCEPT ![c].pc = "refresh", ![c].tok = session]
        /\ call[c].pc = "sent"
    BY DEF StartRefresh, Unauthorized
  <1>2. call \in [Calls -> CallRow]
    BY DEF TypeOK, PairTypes, CallRow
  <1>3. \A d \in Calls : /\ d # c => call'[d] = call[d]
                         /\ d = c => call'[d].tok = session /\ call'[d].pc = "refresh"
    BY <1>1, <1>2 DEF CallRow
  <1>4. Refreshing' = Refreshing \cup {c} /\ Arriving' = Arriving
        /\ c \notin Arriving /\ c \notin Refreshing /\ Refreshing \subseteq Calls
    BY <1>1, <1>3 DEF Refreshing, Arriving
  <1>5. FreshPairs
    BY DEF HoldInv
  <1>6. \A d \in Arriving : d # c /\ call'[d] = call[d]
    BY <1>3, <1>4 DEF Arriving, Refreshing
  <1>7. \A d \in Refreshing' :
          \/ call'[d].tok = session
          \/ d \in Refreshing /\ call'[d].tok = call[d].tok
    <2>1. call'[c].tok = session
      BY <1>3
    <2>2. \A d \in Refreshing : call'[d] = call[d]
      BY <1>3, <1>4
    <2>3. QED
      BY <1>4, <2>1, <2>2
  <1>9. FreshPairs'
    <2>1. \A tab \in Tabs : form'[tab] # None =>
            ~tokens'[form'[tab]].revoked /\ form'[tab] # session'
              /\ \A d \in Refreshing' : call'[d].tok # form'[tab]
      BY <1>0, <1>5, <1>7 DEF FreshPairs, Live, Spending
    <2>2. \A d \in Arriving' : d \in Arriving /\ call'[d] = call[d]
      BY <1>4, <1>6
    <2>3. \A d \in Arriving' :
            /\ call'[d].new # None
            /\ ~tokens'[call'[d].new].revoked /\ call'[d].new # session'
            /\ \A b \in Refreshing' : call'[b].tok # call'[d].new
      BY <1>0, <1>5, <1>7, <2>2 DEF FreshPairs, Live, Spending
    <2>4. \A d, b \in Arriving' : call'[d].new = call'[b].new => d = b
      BY <1>5, <2>2 DEF FreshPairs
    <2>5. \A d \in Arriving', tab \in Tabs : call'[d].new # form'[tab]
      BY <1>0, <1>5, <2>2 DEF FreshPairs
    <2>6. QED
      BY <1>0, <1>5, <2>1, <2>3, <2>4, <2>5 DEF FreshPairs, Live, Spending
  <1>10. HoldsCurrentToken'
    <2>1. tokens[session].revoked => \E d \in Arriving : call[d].tok = session
      BY <1>1 DEF HoldInv, HoldsCurrentToken, Arriving
    <2>2. \A d \in Arriving : d \in Refreshing' /\ call'[d] = call[d] /\ call[d].pc = "rotated"
      BY <1>4, <1>6 DEF Arriving
    <2>3. QED
      BY <1>0, <2>1, <2>2 DEF HoldsCurrentToken
  <1>11. QED
    BY <1>9, <1>10 DEF HoldInv

\* A pair that arrives is alive, and no longer on its way.
LEMMA HoldRefreshed ==
    ASSUME TypeOK, HoldInv, NEW c \in Calls, Refreshed(c)
    PROVE  HoldInv'
  <1> SUFFICES ASSUME ~failed
               PROVE  HoldInv'
    BY DEF Refreshed, historyVars, HoldInv
  <1>0. /\ UNCHANGED <<failed, form, strays, tokens>>
        /\ c \in Arriving
        /\ session' = call[c].new
    BY DEF Refreshed, Arriving, Refreshing, backendVars, historyVars
  <1>1. call' = [d \in Calls |-> IF d \in Awaiting(c) THEN Sent(call[c].new, TRUE) ELSE call[d]]
    BY DEF Refreshed, Resume
  <1>2. Refreshing' \subseteq Refreshing \ {c} /\ \A d \in Refreshing' : call'[d] = call[d]
    BY <1>1 DEF Refreshing, Awaiting, Sent
  <1>3. Arriving' \subseteq Arriving \ {c} /\ \A d \in Arriving' : call'[d] = call[d]
    BY <1>2 DEF Arriving
  <1>4. FreshPairs
    BY DEF HoldInv
  <1>5. FreshPairs'
    <2>1. \A tab \in Tabs : form'[tab] # None =>
            ~tokens'[form'[tab]].revoked /\ form'[tab] # session'
              /\ \A d \in Refreshing' : call'[d].tok # form'[tab]
      BY <1>0, <1>2, <1>4 DEF FreshPairs, Live, Spending
    <2>2. \A d \in Arriving' :
            /\ call'[d].new # None
            /\ ~tokens'[call'[d].new].revoked /\ call'[d].new # session'
            /\ \A b \in Refreshing' : call'[b].tok # call'[d].new
      BY <1>0, <1>2, <1>3, <1>4 DEF FreshPairs, Live, Spending
    <2>3. \A d, b \in Arriving' : call'[d].new = call'[b].new => d = b
      BY <1>3, <1>4 DEF FreshPairs
    <2>4. \A d \in Arriving', tab \in Tabs : call'[d].new # form'[tab]
      BY <1>0, <1>3, <1>4 DEF FreshPairs
    <2>5. QED
      BY <1>0, <1>4, <2>1, <2>2, <2>3, <2>4 DEF FreshPairs, Live, Spending
  <1>6. ~tokens'[session'].revoked
    BY <1>0, <1>4 DEF FreshPairs, Live
  <1>7. QED
    BY <1>5, <1>6 DEF HoldInv, HoldsCurrentToken

\* A rotation revokes a pair that is not on its way; if it is the stored one, its
\* successor is.
LEMMA HoldRotate ==
    ASSUME TypeOK, HoldInv, NEW c \in Calls, Rotate(c)
    PROVE  HoldInv'
  <1> SUFFICES ASSUME ~failed
               PROVE  HoldInv'
    BY DEF Rotate, historyVars, HoldInv
  <1> DEFINE tok == call[c].tok
             next == Len(tokens) + 1
  <1>0. UNCHANGED <<failed, form, session, strays>>
    BY DEF Rotate, historyVars
  <1>1. /\ call' = [call EXCEPT ![c] = [pc |-> "rotated", tok |-> tok,
                                       retry |-> FALSE, new |-> next]]
        /\ call[c].pc = "looked" /\ Len(tokens) < MaxTokens /\ tokens' = Rotated(tok)
    BY DEF Rotate
  <1>2. Len(tokens) \in Nat /\ call \in [Calls -> CallRow] /\ c \in Refreshing
    BY <1>1 DEF TypeOK, PairTypes, CallRow, Refreshing
  <1>3. tok \in 1..Len(tokens)
    <2>1. tok \in 0..Len(tokens) /\ tok # 0
      BY <1>2 DEF TypeOK, PromisesMatch, None, CallRow
    <2>2. QED
      BY <1>2, <2>1
  <1>4. /\ \A i \in 1..Len(tokens) : tokens'[i].revoked <=> (tokens[i].revoked \/ i = tok)
        /\ ~tokens'[next].revoked
    <2> HIDE DEF tok
    <2>1. tokens' = Rotated(tok) /\ Len(tokens) < MaxTokens
      BY <1>1
    <2>2. /\ \A i \in 1..Len(tokens) : tokens'[i].revoked <=> (tokens[i].revoked \/ i = tok)
          /\ tokens'[Len(tokens) + 1] = [login |-> tokens[tok].login, revoked |-> FALSE]
      BY <1>3, <2>1, RotatedRows
    <2>3. QED
      BY <2>2
  <1>5. /\ \A d \in Calls : d # c => call'[d] = call[d]
        /\ call'[c].tok = tok /\ call'[c].pc = "rotated" /\ call'[c].new = next
    BY <1>1, <1>2
  <1>6. /\ Refreshing' = Refreshing /\ Refreshing \subseteq Calls
        /\ Arriving' = Arriving \cup {c} /\ c \notin Arriving
    BY <1>1, <1>5 DEF Refreshing, Arriving
  <1> HIDE DEF tok, next
  <1>7. \A d \in Refreshing : call'[d].tok = call[d].tok
    BY <1>5, <1>6 DEF tok
  <1>8. \A d \in Arriving : d # c /\ call'[d] = call[d]
    BY <1>5, <1>6 DEF Arriving
  <1>9. FreshPairs
    BY DEF HoldInv
  <1>10. /\ next # None /\ \A i \in 0..Len(tokens) : i # next
         /\ session # next
         /\ \A t \in Tabs : form[t] # next /\ (form[t] # None => form[t] \in 1..Len(tokens))
         /\ \A d \in Refreshing : call[d].tok # next
         /\ \A d \in Arriving : call[d].new # next /\ call[d].new \in 1..Len(tokens)
    <2>1. next # None /\ \A i \in 0..Len(tokens) : i # next
      BY <1>2 DEF next, None
    <2>2. session \in 0..Len(tokens) /\ \A t \in Tabs : form[t] \in 0..Len(tokens)
      BY DEF TypeOK, PairTypes
    <2>3. \A d \in Refreshing : call[d].tok \in 0..Len(tokens) /\ call[d].new \in 0..Len(tokens)
      BY <1>2, <1>6 DEF CallRow
    <2>4. \A d \in Arriving : call[d].new \in 1..Len(tokens)
      BY <1>2, <1>9, <2>3 DEF Arriving, FreshPairs, None
    <2>5. \A t \in Tabs : form[t] # None => form[t] \in 1..Len(tokens)
      BY <1>2, <2>2 DEF None
    <2>6. QED
      BY <2>1, <2>2, <2>3, <2>4, <2>5 DEF Arriving
  <1>11. FreshPairs'
    <2>1. \A t \in Tabs : form'[t] # None =>
            ~tokens'[form'[t]].revoked /\ form'[t] # session'
              /\ \A d \in Refreshing' : call'[d].tok # form'[t]
      <3>1. \A t \in Tabs : form[t] # None =>
              ~tokens[form[t]].revoked /\ form[t] # session
                /\ \A d \in Refreshing : call[d].tok # form[t]
        BY <1>9 DEF FreshPairs, Live, Spending
      <3>2. \A t \in Tabs : form[t] # None => form[t] # tok
        BY <1>2, <3>1 DEF tok
      <3>3. QED
        BY <1>0, <1>4, <1>6, <1>7, <1>10, <3>1, <3>2
    <2>2. ASSUME NEW d \in Arriving
          PROVE  /\ call'[d].new = call[d].new /\ call[d].new # None
                 /\ ~tokens'[call[d].new].revoked /\ call[d].new # session
                 /\ \A b \in Refreshing : call[b].tok # call[d].new
      <3>1. /\ call[d].new # None
            /\ ~tokens[call[d].new].revoked /\ call[d].new # session
            /\ \A b \in Refreshing : call[b].tok # call[d].new
        BY <1>9 DEF FreshPairs, Live, Spending
      <3>2. call[d].new # tok
        BY <1>2, <3>1 DEF tok
      <3>3. QED
        BY <1>4, <1>8, <1>10, <3>1, <3>2
    <2>3. \A d \in Arriving' :
            /\ call'[d].new # None
            /\ ~tokens'[call'[d].new].revoked /\ call'[d].new # session'
            /\ \A b \in Refreshing' : call'[b].tok # call'[d].new
      BY <1>0, <1>4, <1>5, <1>6, <1>7, <1>10, <2>2
    <2>4. \A d, b \in Arriving' : call'[d].new = call'[b].new => d = b
      BY <1>5, <1>6, <1>9, <1>10, <2>2 DEF FreshPairs
    <2>5. \A d \in Arriving', t \in Tabs : call'[d].new # form'[t]
      BY <1>0, <1>5, <1>6, <1>9, <1>10, <2>2 DEF FreshPairs
    <2>6. QED
      BY <1>0, <1>9, <2>1, <2>3, <2>4, <2>5 DEF FreshPairs, Live, Spending
  <1>12. HoldsCurrentToken'
    <2> SUFFICES ASSUME session' # None, tokens'[session'].revoked
                 PROVE  \E d \in Refreshing' : call'[d].pc = "rotated" /\ call'[d].tok = session'
      BY DEF HoldsCurrentToken
    <2>1. CASE session = tok
      BY <1>0, <1>2, <1>5, <1>6, <2>1
    <2>2. CASE session # tok
      <3>1. session \in 1..Len(tokens)
        BY <1>0, <1>2 DEF TypeOK, PairTypes, None
      <3>2. tokens[session].revoked
        BY <1>0, <1>4, <2>2, <3>1
      <3>3. PICK d \in Arriving : call[d].tok = session
        BY <1>0, <3>2 DEF HoldInv, HoldsCurrentToken, Arriving
      <3>4. QED
        BY <1>0, <1>6, <1>8, <3>3 DEF Arriving
    <2>3. QED
      BY <2>1, <2>2
  <1>13. QED
    BY <1>11, <1>12 DEF HoldInv

\* Every other step stores nothing, or is a failure.
LEMMA HoldStep ==
    ASSUME TypeOK, HoldInv, [Next]_vars
    PROVE  HoldInv'
  <1>0. call \in [Calls -> CallRow] /\ (~failed => strays = {})
    BY DEF TypeOK, PairTypes, CallRow, HoldInv, FreshPairs
  <1>1. ASSUME NEW tab \in Tabs, handleLogin(tab)
        PROVE  HoldInv'
    BY <1>1, HoldLogin
  <1>2. ASSUME NEW tab \in Tabs, SignIn(tab)
        PROVE  HoldInv'
    BY <1>2, HoldSignIn
  <1>3. CASE SignOut
    BY <1>0, <1>3, HoldKept DEF SignOut, backendVars, Refreshing, Arriving, CallRow
  <1>4. ASSUME NEW tab \in Tabs, Reload(tab)
        PROVE  HoldInv'
    <2> DEFINE mine == {c \in Refreshing : TabOf[c] = tab}
    <2>1. CASE mine # {}
      BY <1>4, <2>1 DEF Reload, HoldInv
    <2>2. CASE mine = {}
      <3>1. /\ UNCHANGED <<tokens, session, strays>>
            /\ failed' = failed
        BY <1>4, <2>2 DEF Reload, TypeOK, PairTypes
      <3>2. \A t \in Tabs : form'[t] \in {form[t], None}
        BY <1>4 DEF Reload, TypeOK, PairTypes
      <3>3. call' = [c \in Calls |-> IF TabOf[c] = tab THEN Idle ELSE call[c]]
        BY <1>4 DEF Reload
      <3>4. Refreshing' = Refreshing /\ \A c \in Refreshing : call'[c] = call[c]
        BY <2>2, <3>3 DEF Refreshing, Idle
      <3>5. Arriving \subseteq Refreshing
        BY DEF Arriving
      <3>6. QED
        BY <3>1, <3>2, <3>4, <3>5, HoldKept
    <2>3. QED
      BY <2>1, <2>2
  <1>5. ASSUME NEW c \in Calls, request(c)
        PROVE  HoldInv'
    BY <1>0, <1>5, HoldKept DEF request, Sent, Idle, backendVars, historyVars, Refreshing, Arriving, CallRow
  <1>6. ASSUME NEW c \in Calls, Answered(c)
        PROVE  HoldInv'
    BY <1>0, <1>6, HoldKept DEF Answered, Idle, backendVars, historyVars, Refreshing, Arriving, CallRow
  <1>7. ASSUME NEW c \in Calls, GiveUp(c)
        PROVE  HoldInv'
    BY <1>0, <1>7, HoldKept DEF GiveUp, Unauthorized, Idle, backendVars, historyVars, Refreshing, Arriving, CallRow
  <1>8. ASSUME NEW c \in Calls, StartRefresh(c)
        PROVE  HoldInv'
    BY <1>8, HoldStartRefresh
  <1>9. ASSUME NEW c \in Calls, JoinRefresh(c)
        PROVE  HoldInv'
    BY <1>0, <1>9, HoldKept
    DEF JoinRefresh, Unauthorized, Waiting, backendVars, historyVars, Refreshing, Arriving, CallRow
  <1>10. ASSUME NEW c \in Calls, Refreshed(c)
         PROVE  HoldInv'
    BY <1>10, HoldRefreshed
  <1>11. ASSUME NEW c \in Calls, RefreshUnreachable(c) \/ Fail(c)
         PROVE  HoldInv'
    BY <1>11 DEF RefreshUnreachable, Fail, HoldInv
  <1>12. ASSUME NEW c \in Calls, Look(c)
         PROVE  HoldInv'
    BY <1>0, <1>12, HoldKept DEF Look, backendVars, historyVars, Refreshing, Arriving, CallRow
  <1>13. ASSUME NEW c \in Calls, Deny(c)
         PROVE  HoldInv'
    <2>1. /\ UNCHANGED <<tokens, form, strays, failed>> /\ session' = None
          /\ call' = [d \in Calls |-> IF d \in Awaiting(c) THEN Idle ELSE call[d]]
          /\ call[c].pc = "refresh"
      BY <1>13 DEF Deny, RefreshDenied, Resume, backendVars
    <2>2. /\ Refreshing' \subseteq Refreshing
          /\ \A d \in Refreshing' : call'[d] = call[d]
          /\ Arriving \subseteq Refreshing'
      BY <2>1 DEF Refreshing, Arriving, Awaiting, Idle
    <2>3. QED
      BY <2>1, <2>2, HoldKept
  <1>14. ASSUME NEW c \in Calls, Rotate(c)
         PROVE  HoldInv'
    BY <1>14, HoldRotate
  <1>15. ASSUME NEW s \in strays, StrayLook(s) \/ StrayRotate(s) \/ StrayEnd(s)
         PROVE  HoldInv'
    BY <1>0, <1>15 DEF StrayLook, StrayRotate, StrayEnd, historyVars, HoldInv
  <1>16. ASSUME NEW i \in DOMAIN tokens, Expire(i)
         PROVE  HoldInv'
    BY <1>0, <1>16, HoldKept DEF Expire, browserVars, historyVars, Refreshing, Arriving
  <1>17. CASE UNCHANGED vars
    BY <1>0, <1>17, HoldKept DEF vars, browserVars, backendVars, historyVars, Refreshing, Arriving
  <1>18. QED
    BY <1>1, <1>2, <1>3, <1>4, <1>5, <1>6, <1>7, <1>8, <1>9, <1>10, <1>11, <1>12, <1>13, <1>14, <1>15, <1>16, <1>17
    DEF Next, Browser, Backend

\* The browser can always go on, as long as no refresh failed or was given up.
THEOREM BrowserGoesOn == Spec => []HoldsCurrentToken
  <1>1. Init => HoldInv
    <2> SUFFICES ASSUME Init PROVE HoldInv
      OBVIOUS
    <2>1. Refreshing = {} /\ strays = {} /\ session = None /\ \A tab \in Tabs : form[tab] = None
      BY DEF Init, Refreshing, Idle
    <2>2. QED
      BY <2>1 DEF HoldInv, FreshPairs, HoldsCurrentToken, Arriving
  <1>2. TypeOK /\ HoldInv /\ [Next]_vars => HoldInv'
    BY HoldStep
  <1>3. HoldInv => HoldsCurrentToken
    BY DEF HoldInv, HoldsCurrentToken
  <1>4. QED
    BY <1>1, <1>2, <1>3, TypeCorrect, PTL DEF Spec

-----------------------------------------------------------------------------
(***************************************************************************)
(* Why a refresh is never denied for a pair that somebody else has spent:  *)
(* as long as none raced or failed, a refresh under way has found its pair *)
(* alive, and what it is answered with is of the same login.               *)
(***************************************************************************)
FoundAlive ==
    ~raced /\ ~failed =>
        /\ \A c \in Refreshing : call[c].pc # "rotated" => Live(call[c].tok)
        /\ \A c \in Arriving : tokens[call[c].new].login = tokens[call[c].tok].login

\* Steps that start no refresh and rotate nothing.
LEMMA FoundKept ==
    ASSUME FoundAlive, tokens' = tokens, raced => raced', failed => failed',
           Refreshing' \subseteq Refreshing,
           \A c \in Refreshing' : /\ call'[c].tok = call[c].tok
                                  /\ call'[c].new = call[c].new
                                  /\ call'[c].pc = "rotated" <=> call[c].pc = "rotated"
    PROVE  FoundAlive'
  <1> SUFFICES ASSUME ~raced', ~failed'
               PROVE  FoundAlive'
    BY DEF FoundAlive
  <1>1. Arriving' \subseteq Arriving
    BY DEF Arriving
  <1>2. \A c \in Refreshing' : call'[c].pc # "rotated" => ~tokens'[call'[c].tok].revoked
    BY DEF FoundAlive, Live
  <1>3. \A c \in Arriving' : c \in Arriving /\ c \in Refreshing'
    BY <1>1 DEF Arriving
  <1>4. \A c \in Arriving' : tokens'[call'[c].new].login = tokens'[call'[c].tok].login
    BY <1>3 DEF FoundAlive
  <1>5. QED
    BY <1>2, <1>4 DEF FoundAlive, Live

\* Where the pairs of a refresh come from.
LEMMA RefreshPairs ==
    ASSUME TypeOK, ~failed => FreshPairs
    PROVE  /\ call \in [Calls -> CallRow] /\ Len(tokens) \in Nat
           /\ Refreshing \subseteq Calls
           /\ \A c \in Refreshing : call[c].tok \in 1..Len(tokens)
           /\ ~failed => \A c \in Arriving : call[c].new \in 1..Len(tokens)
  <1>1. call \in [Calls -> CallRow] /\ Len(tokens) \in Nat
    BY DEF TypeOK, PairTypes, CallRow
  <1>2. \A c \in Refreshing : c \in Calls /\ call[c].tok # 0
    BY DEF TypeOK, PromisesMatch, Refreshing, None
  <1>3. \A c \in Refreshing : call[c].tok \in 0..Len(tokens) /\ call[c].new \in 0..Len(tokens)
    BY <1>1, <1>2 DEF CallRow
  <1>4. \A c \in Refreshing : call[c].tok \in 1..Len(tokens)
    BY <1>1, <1>2, <1>3
  <1>5. ASSUME ~failed
        PROVE  \A c \in Arriving : call[c].new \in 1..Len(tokens)
    <2>1. \A c \in Arriving : c \in Refreshing /\ call[c].new # 0
      BY <1>5 DEF FreshPairs, Arriving, None
    <2>2. QED
      BY <1>1, <1>3, <2>1
  <1>6. QED
    BY <1>1, <1>2, <1>4, <1>5

\* A refresh starts with the stored pair; were that one revoked, its successor
\* would be on its way to another tab, and the two refreshes overlapped.
LEMMA FoundStartRefresh ==
    ASSUME TypeOK, HoldInv, FoundAlive, NEW c \in Calls, StartRefresh(c)
    PROVE  FoundAlive'
  <1> SUFFICES ASSUME ~raced', ~failed'
               PROVE  FoundAlive'
    BY DEF FoundAlive
  <1>0. /\ UNCHANGED <<tokens, session>> /\ ~raced /\ ~failed
        /\ session # None /\ call[c].pc = "sent"
        /\ session \notin SpentElsewhere(TabOf[c])
        /\ refreshPromise[TabOf[c]] = NoCall
        /\ call' = [call EXCEPT ![c].pc = "refresh", ![c].tok = session]
    BY DEF StartRefresh, Unauthorized, backendVars
  <1>1. call \in [Calls -> CallRow]
    BY DEF TypeOK, PairTypes, CallRow
  <1>2. \A d \in Calls : /\ d # c => call'[d] = call[d]
                         /\ d = c => call'[d].tok = session /\ call'[d].pc = "refresh"
    BY <1>0, <1>1 DEF CallRow
  <1>3. /\ Refreshing' = Refreshing \cup {c} /\ Arriving' = Arriving
        /\ c \notin Refreshing /\ Arriving \subseteq Refreshing /\ Refreshing \subseteq Calls
    BY <1>0, <1>2 DEF Refreshing, Arriving
  <1>4. ~tokens[session].revoked
    <2> SUFFICES ASSUME tokens[session].revoked
                 PROVE  FALSE
      OBVIOUS
    <2>1. PICK d \in Refreshing : call[d].tok = session
      BY <1>0 DEF HoldInv, HoldsCurrentToken
    <2>2. refreshPromise[TabOf[d]] = d /\ d # NoCall
      BY <1>3, SessionAssumption DEF TypeOK, PromisesMatch
    <2>3. TabOf[d] # TabOf[c]
      BY <1>0, <2>2
    <2>4. session \in SpentElsewhere(TabOf[c])
      BY <2>1, <2>3 DEF SpentElsewhere
    <2>5. QED
      BY <1>0, <2>4
  <1>5. \A d \in Refreshing' : call'[d].pc # "rotated" => ~tokens'[call'[d].tok].revoked
    <2>1. ASSUME NEW d \in Refreshing, call'[d].pc # "rotated"
          PROVE  ~tokens'[call'[d].tok].revoked
      <3>1. call'[d] = call[d]
        BY <1>2, <1>3
      <3>2. QED
        BY <1>0, <2>1, <3>1 DEF FoundAlive, Live
    <2>2. ~tokens'[call'[c].tok].revoked
      BY <1>0, <1>2, <1>4
    <2>3. QED
      BY <1>3, <2>1, <2>2
  <1>6. \A d \in Arriving' : tokens'[call'[d].new].login = tokens'[call'[d].tok].login
    <2>1. \A d \in Arriving : call'[d] = call[d]
      BY <1>2, <1>3
    <2>2. QED
      BY <1>0, <1>3, <2>1 DEF FoundAlive
  <1>7. QED
    BY <1>5, <1>6 DEF FoundAlive, Live

\* A rotation revokes the pair it spends, which no other refresh spends, and
\* issues one of the same login.
LEMMA FoundRotate ==
    ASSUME TypeOK, SoleSpender, HoldInv, FoundAlive, NEW c \in Calls, Rotate(c)
    PROVE  FoundAlive'
  <1> SUFFICES ASSUME ~raced', ~failed'
               PROVE  FoundAlive'
    BY DEF FoundAlive
  <1> DEFINE tok == call[c].tok
             next == Len(tokens) + 1
  <1>0. ~raced /\ ~failed
    BY DEF Rotate, historyVars
  <1>1. /\ call' = [call EXCEPT ![c] = [pc |-> "rotated", tok |-> tok,
                                       retry |-> FALSE, new |-> next]]
        /\ call[c].pc = "looked" /\ Len(tokens) < MaxTokens /\ tokens' = Rotated(tok)
    BY DEF Rotate
  <1>2. /\ call \in [Calls -> CallRow] /\ Len(tokens) \in Nat
        /\ Refreshing \subseteq Calls
        /\ \A d \in Refreshing : call[d].tok \in 1..Len(tokens)
        /\ \A d \in Arriving : call[d].new \in 1..Len(tokens)
    BY <1>0, RefreshPairs DEF HoldInv
  <1>3. c \in Refreshing /\ tok \in 1..Len(tokens)
    BY <1>1, <1>2 DEF Refreshing
  <1>4. /\ \A i \in 1..Len(tokens) : /\ tokens'[i].login = tokens[i].login
                                     /\ tokens'[i].revoked <=> (tokens[i].revoked \/ i = tok)
        /\ tokens'[next].login = tokens[tok].login
    <2> HIDE DEF tok
    <2>1. tokens' = Rotated(tok) /\ Len(tokens) < MaxTokens
      BY <1>1
    <2>2. /\ \A i \in 1..Len(tokens) : /\ Rotated(tok)[i].login = tokens[i].login
                                       /\ Rotated(tok)[i].revoked <=> (tokens[i].revoked \/ i = tok)
          /\ Rotated(tok)[Len(tokens) + 1] = [login |-> tokens[tok].login, revoked |-> FALSE]
      BY <1>3, <2>1, RotatedRows
    <2>3. QED
      BY <2>1, <2>2
  <1>5. /\ \A d \in Calls : d # c => call'[d] = call[d]
        /\ call'[c].tok = tok /\ call'[c].pc = "rotated" /\ call'[c].new = next
    BY <1>1, <1>2
  <1>6. Refreshing' = Refreshing /\ Arriving' = Arriving \cup {c} /\ c \notin Arriving
    BY <1>1, <1>5 DEF Refreshing, Arriving
  <1> HIDE DEF next
  <1>7. ASSUME NEW d \in Refreshing', call'[d].pc # "rotated"
        PROVE  ~tokens'[call'[d].tok].revoked
    <2>1. d \in Refreshing /\ d # c /\ call'[d] = call[d]
      BY <1>2, <1>5, <1>6, <1>7
    <2>2. Live(call[d].tok) /\ call[d].tok # tok
      BY <1>0, <1>3, <1>7, <2>1 DEF FoundAlive, SoleSpender
    <2>3. QED
      BY <1>2, <1>4, <2>1, <2>2 DEF Live
  <1>8. ASSUME NEW d \in Arriving'
        PROVE  tokens'[call'[d].new].login = tokens'[call'[d].tok].login
    <2>1. CASE d = c
      BY <1>3, <1>4, <1>5, <2>1
    <2>2. CASE d # c
      <3>1. d \in Arriving /\ d \in Refreshing /\ call'[d] = call[d]
        BY <1>2, <1>5, <1>6, <1>8, <2>2 DEF Arriving
      <3>2. tokens[call[d].new].login = tokens[call[d].tok].login
        BY <1>0, <3>1 DEF FoundAlive
      <3>3. QED
        BY <1>2, <1>4, <3>1, <3>2
    <2>3. QED
      BY <2>1, <2>2
  <1>9. QED
    BY <1>7, <1>8 DEF FoundAlive, Live

LEMMA FoundStep ==
    ASSUME TypeOK, SoleSpender, HoldInv, FoundAlive, [Next]_vars
    PROVE  FoundAlive'
  <1>0. call \in [Calls -> CallRow] /\ (~failed => strays = {} /\ FreshPairs)
    BY DEF TypeOK, PairTypes, CallRow, HoldInv, FreshPairs
  <1>1. ASSUME NEW tab \in Tabs, handleLogin(tab)
        PROVE  FoundAlive'
    <2> SUFFICES ASSUME ~raced', ~failed'
                 PROVE  FoundAlive'
      BY DEF FoundAlive
    <2>1. UNCHANGED <<call, raced, failed>>
      BY <1>1 DEF handleLogin, historyVars
    <2>2. \A i \in 1..Len(tokens) : tokens'[i] = tokens[i]
      <3>1. Len(tokens) < MaxTokens /\ tokens' = Issued(tokens, Len(tokens) + 1)
        BY <1>1 DEF handleLogin
      <3>2. tokens \in Seq(TokenRow) /\ Len(tokens) + 1 \in 1..MaxTokens
        BY <3>1, SessionAssumption DEF TypeOK, PairTypes, TokenRow
      <3>3. QED
        BY <3>1, <3>2, IssuedRows
    <2>3. Refreshing' = Refreshing /\ Arriving' = Arriving /\ Arriving \subseteq Refreshing
      BY <2>1 DEF Refreshing, Arriving
    <2>4. /\ \A c \in Refreshing : call[c].tok \in 1..Len(tokens)
          /\ \A c \in Arriving : call[c].new \in 1..Len(tokens)
      BY <1>0, <2>1, RefreshPairs
    <2>5. \A c \in Refreshing' : call'[c].pc # "rotated" => ~tokens'[call'[c].tok].revoked
      BY <2>1, <2>2, <2>3, <2>4 DEF FoundAlive, Live
    <2>6. \A c \in Arriving' : tokens'[call'[c].new].login = tokens'[call'[c].tok].login
      BY <2>1, <2>2, <2>3, <2>4 DEF FoundAlive
    <2>7. QED
      BY <2>5, <2>6 DEF FoundAlive, Live
  <1>2. ASSUME NEW tab \in Tabs, SignIn(tab)
        PROVE  FoundAlive'
    BY <1>0, <1>2, FoundKept DEF SignIn, backendVars, Refreshing
  <1>3. CASE SignOut
    BY <1>0, <1>3, FoundKept DEF SignOut, backendVars, Refreshing
  <1>4. ASSUME NEW tab \in Tabs, Reload(tab)
        PROVE  FoundAlive'
    <2>1. /\ UNCHANGED <<tokens, raced>> /\ (failed => failed')
          /\ call' = [c \in Calls |-> IF TabOf[c] = tab THEN Idle ELSE call[c]]
      BY <1>4 DEF Reload
    <2>2. Refreshing' \subseteq Refreshing /\ \A c \in Refreshing' : call'[c] = call[c]
      BY <2>1 DEF Refreshing, Idle
    <2>3. QED
      BY <2>1, <2>2, FoundKept
  <1>5. ASSUME NEW c \in Calls, request(c)
        PROVE  FoundAlive'
    BY <1>0, <1>5, FoundKept DEF request, Sent, Idle, backendVars, historyVars, Refreshing, CallRow
  <1>6. ASSUME NEW c \in Calls, Answered(c)
        PROVE  FoundAlive'
    BY <1>0, <1>6, FoundKept DEF Answered, Idle, backendVars, historyVars, Refreshing, CallRow
  <1>7. ASSUME NEW c \in Calls, GiveUp(c)
        PROVE  FoundAlive'
    BY <1>0, <1>7, FoundKept DEF GiveUp, Unauthorized, Idle, backendVars, historyVars, Refreshing, CallRow
  <1>8. ASSUME NEW c \in Calls, StartRefresh(c)
        PROVE  FoundAlive'
    BY <1>8, FoundStartRefresh
  <1>9. ASSUME NEW c \in Calls, JoinRefresh(c)
        PROVE  FoundAlive'
    BY <1>0, <1>9, FoundKept
    DEF JoinRefresh, Unauthorized, Waiting, backendVars, historyVars, Refreshing, CallRow
  <1>10. ASSUME NEW c \in Calls, Refreshed(c)
         PROVE  FoundAlive'
    <2>1. /\ UNCHANGED <<tokens, raced, failed>>
          /\ call' = [d \in Calls |-> IF d \in Awaiting(c) THEN Sent(call[c].new, TRUE) ELSE call[d]]
      BY <1>10 DEF Refreshed, Resume, backendVars, historyVars
    <2>2. Refreshing' \subseteq Refreshing /\ \A d \in Refreshing' : call'[d] = call[d]
      BY <2>1 DEF Refreshing, Sent
    <2>3. QED
      BY <2>1, <2>2, FoundKept
  <1>11. ASSUME NEW c \in Calls, RefreshUnreachable(c) \/ Fail(c)
         PROVE  FoundAlive'
    BY <1>11 DEF RefreshUnreachable, Fail, FoundAlive
  <1>12. ASSUME NEW c \in Calls, Look(c)
         PROVE  FoundAlive'
    BY <1>0, <1>12, FoundKept DEF Look, backendVars, historyVars, Refreshing, CallRow
  <1>13. ASSUME NEW c \in Calls, Deny(c)
         PROVE  FoundAlive'
    <2>1. /\ UNCHANGED <<tokens, raced, failed>>
          /\ call' = [d \in Calls |-> IF d \in Awaiting(c) THEN Idle ELSE call[d]]
      BY <1>13 DEF Deny, RefreshDenied, Resume, backendVars
    <2>2. Refreshing' \subseteq Refreshing /\ \A d \in Refreshing' : call'[d] = call[d]
      BY <2>1 DEF Refreshing, Idle
    <2>3. QED
      BY <2>1, <2>2, FoundKept
  <1>14. ASSUME NEW c \in Calls, Rotate(c)
         PROVE  FoundAlive'
    BY <1>14, FoundRotate
  <1>15. ASSUME NEW s \in strays, StrayLook(s) \/ StrayRotate(s) \/ StrayEnd(s)
         PROVE  FoundAlive'
    BY <1>0, <1>15 DEF StrayLook, StrayRotate, StrayEnd, historyVars, FoundAlive
  <1>16. ASSUME NEW i \in DOMAIN tokens, Expire(i)
         PROVE  FoundAlive'
    BY <1>0, <1>16, FoundKept DEF Expire, browserVars, historyVars, Refreshing
  <1>17. CASE UNCHANGED vars
    BY <1>0, <1>17, FoundKept DEF vars, browserVars, backendVars, historyVars, Refreshing
  <1>18. QED
    BY <1>1, <1>2, <1>3, <1>4, <1>5, <1>6, <1>7, <1>8, <1>9, <1>10, <1>11, <1>12, <1>13, <1>14, <1>15, <1>16, <1>17
    DEF Next, Browser, Backend

\* A refresh that is denied spends the stored pair, or one of another login: a
\* live pair of the same login is the stored one, and if that one was spent its
\* successor would be.
LEMMA DeniedIsExpired ==
    ASSUME TypeOK, OneLive, HoldInv, FoundAlive, ~raced, ~failed, session # None,
           NEW c \in Calls, Deny(c), tokens[call[c].tok].login = tokens[session].login
    PROVE  age[session] = 2
  <1>1. c \in Refreshing /\ call[c].pc # "rotated" /\ ~Valid(call[c].tok)
    BY DEF Deny, Refreshing
  <1>2. /\ call \in [Calls -> CallRow] /\ Len(tokens) \in Nat
        /\ \A d \in Refreshing : call[d].tok \in 1..Len(tokens)
        /\ \A d \in Arriving : call[d].new \in 1..Len(tokens)
    BY RefreshPairs DEF HoldInv
  <1>3. session \in 1..Len(tokens) /\ Len(tokens) <= MaxTokens /\ age \in [1..MaxTokens -> 0..2]
    BY <1>2 DEF TypeOK, PairTypes, None
  <1>4. Live(call[c].tok) /\ call[c].tok \in 1..Len(tokens)
    BY <1>1, <1>2 DEF FoundAlive
  <1>5. Live(session)
    <2> SUFFICES ASSUME ~Live(session)
                 PROVE  FALSE
      OBVIOUS
    <2>1. PICK d \in Arriving : call[d].tok = session
      BY DEF HoldInv, HoldsCurrentToken, Arriving, Live
    <2>2. /\ Live(call[d].new) /\ call[d].new \in 1..Len(tokens)
          /\ call[c].tok # call[d].new
      BY <1>1, <1>2 DEF HoldInv, FreshPairs, Spending
    <2>3. tokens[call[d].new].login = tokens[session].login
      BY <2>1 DEF FoundAlive
    <2>4. QED
      BY <1>4, <2>2, <2>3 DEF OneLive
  <1>6. call[c].tok = session
    BY <1>3, <1>4, <1>5 DEF OneLive
  <1>7. ~(age[session] < 2) /\ age[session] \in 0..2
    <2>1. session \in 1..MaxTokens
      BY <1>2, <1>3, SessionAssumption
    <2>2. QED
      BY <1>1, <1>3, <1>5, <1>6, <2>1 DEF Valid, Live
  <1>8. QED
    BY <1>7

\* An expired access token signs nobody out: the session is only cleared by the
\* user, when its refresh token has expired as well, by a retry that comes too
\* late, or when refreshes raced, failed or belong to an earlier sign-in.
THEOREM ExpiryIsNeverSeen == Spec => ExpiryIsInvisible
  <1> DEFINE Cleared ==
        session # None /\ session' = None =>
          \/ SignOut
          \/ age[session] = 2
          \/ \E c \in Calls : call[c].retry /\ GiveUp(c)
          \/ \E c \in Refreshing :
               Deny(c) /\ tokens[call[c].tok].login # tokens[session].login
          \/ raced \/ failed'
  <1>1. Init => RotationInv /\ HoldInv /\ FoundAlive
    <2> SUFFICES ASSUME Init PROVE RotationInv /\ HoldInv /\ FoundAlive
      OBVIOUS
    <2>1. Refreshing = {} /\ strays = {} /\ session = None /\ \A tab \in Tabs : form[tab] = None
      BY DEF Init, Refreshing, Idle
    <2>2. HoldInv /\ FoundAlive
      BY <2>1 DEF HoldInv, FreshPairs, HoldsCurrentToken, Arriving, FoundAlive
    <2>3. RotationInv
      BY DEF Init, RotationInv, SoleSpender, OneLive, LoginsKnown, Refreshing, Idle
    <2>4. QED
      BY <2>2, <2>3
  <1>2. TypeOK /\ RotationInv /\ HoldInv /\ FoundAlive /\ [Next]_vars
          => (RotationInv /\ HoldInv /\ FoundAlive)'
    BY SpenderStep, OneLiveStep, HoldStep, FoundStep DEF RotationInv
  <1>3. ASSUME TypeOK, RotationInv, HoldInv, FoundAlive, Next
        PROVE  Cleared
    <2> SUFFICES ASSUME session # None, session' = None, ~raced, ~failed', ~(age[session] = 2)
                 PROVE  \/ SignOut
                        \/ \E c \in Calls : call[c].retry /\ GiveUp(c)
                        \/ \E c \in Refreshing :
                             Deny(c) /\ tokens[call[c].tok].login # tokens[session].login
      OBVIOUS
    <2>1. ASSUME NEW tab \in Tabs, handleLogin(tab) \/ SignIn(tab) \/ Reload(tab)
          PROVE  FALSE
      BY <2>1 DEF handleLogin, SignIn, Reload
    <2>2. ASSUME NEW c \in Calls,
                 \/ request(c) \/ Answered(c) \/ StartRefresh(c) \/ JoinRefresh(c)
                 \/ RefreshUnreachable(c) \/ Look(c)
          PROVE  FALSE
      BY <2>2 DEF request, Answered, StartRefresh, JoinRefresh, RefreshUnreachable, Look
    <2>3. ASSUME NEW c \in Calls, GiveUp(c)
          PROVE  call[c].retry
      BY <2>3 DEF GiveUp
    <2>4. ASSUME NEW c \in Calls, Refreshed(c)
          PROVE  FALSE
      <3>1. c \in Arriving /\ session' = call[c].new /\ UNCHANGED failed
        BY <2>4 DEF Refreshed, historyVars, Arriving, Refreshing
      <3>2. ~failed
        BY <3>1
      <3>3. call[c].new # None
        BY <1>3, <3>1, <3>2 DEF HoldInv, FreshPairs
      <3>4. QED
        BY <3>1, <3>3
    <2>5. ASSUME NEW c \in Calls, Fail(c)
          PROVE  FALSE
      BY <2>5 DEF Fail
    <2>6. ASSUME NEW c \in Calls, Deny(c)
          PROVE  c \in Refreshing /\ tokens[call[c].tok].login # tokens[session].login
      <3>1. ~failed
        BY <2>6 DEF Deny
      <3>2. tokens[call[c].tok].login # tokens[session].login
        BY <2>6, <3>1, DeniedIsExpired, <1>3 DEF RotationInv
      <3>3. QED
        BY <2>6, <3>2 DEF Deny, Refreshing
    <2>7. ASSUME NEW c \in Calls, Rotate(c)
          PROVE  FALSE
      BY <2>7 DEF Rotate
    <2>8. ASSUME NEW s \in strays, StrayLook(s) \/ StrayRotate(s) \/ StrayEnd(s)
          PROVE  FALSE
      BY <2>8 DEF StrayLook, StrayRotate, StrayEnd, browserVars
    <2>9. ASSUME NEW i \in DOMAIN tokens, Expire(i)
          PROVE  FALSE
      BY <2>9 DEF Expire, browserVars
    <2>10. QED
      BY <1>3, <2>1, <2>2, <2>3, <2>4, <2>5, <2>6, <2>7, <2>8, <2>9
      DEF Next, Browser, Backend
  <1>4. TypeOK /\ RotationInv /\ HoldInv /\ FoundAlive /\ [Next]_vars => [Cleared]_vars
    BY <1>3
  <1>5. QED
    BY <1>1, <1>2, <1>4, TypeCorrect, PTL DEF Spec, ExpiryIsInvisible

-----------------------------------------------------------------------------
(***************************************************************************)
(* The Today, History and Profile pages.  First the streaks row of the     *)
(* days that are over when the page is opened: what the fold over them     *)
(* yields, by smallest counterexample as for sums.                         *)
(***************************************************************************)
IsStreakIter(S, it) ==
    it = [s \in SUBSET S |-> IF s = {} THEN NoStreak
                             ELSE UpdatedStreak(it[s \ {Max(s)}], Max(s))]

LEMMA StreakIsIter ==
    ASSUME NEW S
    PROVE  StreakOf(S) = (CHOOSE it : IsStreakIter(S, it))[S]
  BY DEF StreakOf, MapThenFoldSet, IsStreakIter

LEMMA StreakIterValue ==
    ASSUME NEW S, NEW it, IsStreakIter(S, it), NEW s \in SUBSET S
    PROVE  it[s] = IF s = {} THEN NoStreak ELSE UpdatedStreak(it[s \ {Max(s)}], Max(s))
  BY DEF IsStreakIter

LEMMA StreakIterUnique ==
    ASSUME NEW S, DaySet(S), NEW T \in SUBSET S, NEW i, NEW j,
           IsStreakIter(S, i), IsStreakIter(T, j)
    PROVE  \A s \in SUBSET T : i[s] = j[s]
  <1> DEFINE B == {s \in SUBSET T : i[s] # j[s]}
  <1> SUFFICES ASSUME B # {} PROVE FALSE
    OBVIOUS
  <1>1. DaySet(T) /\ IsFiniteSet(T)
    BY DaySubset
  <1>2. PICK s \in B : \A U \in B : U \subseteq s => U = s
    <2>1. B \in SUBSET (SUBSET T) /\ B # {}
      OBVIOUS
    <2> HIDE DEF B
    <2>2. QED
      BY <1>1, <2>1, MinimalSet
  <1>3. s \in SUBSET T /\ s \in SUBSET S /\ i[s] # j[s]
    OBVIOUS
  <1>a. i[s] = IF s = {} THEN NoStreak ELSE UpdatedStreak(i[s \ {Max(s)}], Max(s))
    BY <1>3, StreakIterValue
  <1>b. j[s] = IF s = {} THEN NoStreak ELSE UpdatedStreak(j[s \ {Max(s)}], Max(s))
    BY <1>3, StreakIterValue
  <1>4. /\ i[s] = IF s = {} THEN NoStreak ELSE UpdatedStreak(i[s \ {Max(s)}], Max(s))
        /\ j[s] = IF s = {} THEN NoStreak ELSE UpdatedStreak(j[s \ {Max(s)}], Max(s))
    BY <1>a, <1>b
  <1>5. s # {} /\ Max(s) \in s
    <2>1. s # {}
      BY <1>3, <1>4
    <2>2. DaySet(s)
      BY <1>1, <1>3, DaySubset
    <2>3. QED
      BY <2>1, <2>2, LatestIs
  <1>6. s \ {Max(s)} \notin B /\ s \ {Max(s)} \in SUBSET T
    BY <1>2, <1>3, <1>5
  <1>7. i[s \ {Max(s)}] = j[s \ {Max(s)}]
    BY <1>6
  <1>8. QED
    BY <1>3, <1>4, <1>7

LEMMA StreakIterExists ==
    ASSUME NEW S, DaySet(S)
    PROVE  \A T \in SUBSET S : \E it : IsStreakIter(T, it)
  <1> DEFINE B == {T \in SUBSET S : ~ \E it : IsStreakIter(T, it)}
             The(T) == CHOOSE it : IsStreakIter(T, it)
  <1> SUFFICES ASSUME B # {} PROVE FALSE
    OBVIOUS
  <1>1. PICK T \in B : \A U \in B : U \subseteq T => U = T
    <2>0. IsFiniteSet(S)
      BY DEF DaySet
    <2>1. B \in SUBSET (SUBSET S) /\ B # {}
      OBVIOUS
    <2> HIDE DEF B
    <2>2. QED
      BY <2>0, <2>1, MinimalSet
  <1>2. \A U \in SUBSET T : U # T => IsStreakIter(U, The(U))
    BY <1>1
  <1>3. DaySet(T) /\ T \in SUBSET S
    BY DaySubset
  <1>4. \A s \in SUBSET T : s # {} => Max(s) \in s
    <2> SUFFICES ASSUME NEW s \in SUBSET T, s # {} PROVE Max(s) \in s
      OBVIOUS
    <2>1. DaySet(s)
      BY <1>3, DaySubset
    <2>2. QED
      BY <2>1, LatestIs
  <1> HIDE DEF The
  <1> DEFINE new == [s \in SUBSET T |-> IF s = {} THEN NoStreak
                       ELSE UpdatedStreak(The(s \ {Max(s)})[s \ {Max(s)}], Max(s))]
  <1>5. \A s \in SUBSET T : s # T => new[s] = The(s)[s]
    <2> SUFFICES ASSUME NEW s \in SUBSET T, s # T PROVE new[s] = The(s)[s]
      OBVIOUS
    <2>1. IsStreakIter(s, The(s)) /\ DaySet(s)
      BY <1>2, <1>3, DaySubset
    <2>2. The(s)[s] = IF s = {} THEN NoStreak ELSE UpdatedStreak(The(s)[s \ {Max(s)}], Max(s))
      BY <2>1, StreakIterValue
    <2>3. CASE s = {}
      BY <2>2, <2>3
    <2>4. CASE s # {}
      <3> DEFINE r == s \ {Max(s)}
      <3>1. r \in SUBSET s /\ r \in SUBSET T /\ r # T
        BY <1>4, <2>4
      <3>2. IsStreakIter(r, The(r))
        BY <1>2, <3>1
      <3> HIDE DEF r
      <3>3. The(s)[r] = The(r)[r]
        BY <2>1, <3>1, <3>2, StreakIterUnique
      <3>4. new[s] = UpdatedStreak(The(r)[r], Max(s))
        BY <2>4 DEF r
      <3>5. The(s)[s] = UpdatedStreak(The(s)[r], Max(s))
        BY <2>2, <2>4 DEF r
      <3>6. QED
        BY <3>3, <3>4, <3>5
    <2>5. QED
      BY <2>3, <2>4
  <1>6. IsStreakIter(T, new)
    <2>1. \A s \in SUBSET T : s # {} => new[s \ {Max(s)}] = The(s \ {Max(s)})[s \ {Max(s)}]
      <3> SUFFICES ASSUME NEW s \in SUBSET T, s # {}
                   PROVE  new[s \ {Max(s)}] = The(s \ {Max(s)})[s \ {Max(s)}]
        OBVIOUS
      <3> HIDE DEF new
      <3>1. s \ {Max(s)} \in SUBSET T /\ s \ {Max(s)} # T
        BY <1>4
      <3>2. QED
        BY <1>5, <3>1
    <2>2. new = [s \in SUBSET T |-> IF s = {} THEN NoStreak
                                    ELSE UpdatedStreak(new[s \ {Max(s)}], Max(s))]
      BY <2>1
    <2>3. QED
      BY <2>2 DEF IsStreakIter
  <1>7. QED
    BY <1>1, <1>6

\* The streaks after some days are those after all but the last, updated by it.
LEMMA StreakFirst ==
    ASSUME NEW S, DaySet(S)
    PROVE  StreakOf(S) = IF S = {} THEN NoStreak
                         ELSE UpdatedStreak(StreakOf(S \ {Max(S)}), Max(S))
  <1> DEFINE it == CHOOSE i : IsStreakIter(S, i)
             R == S \ {Max(S)}
             jt == CHOOSE j : IsStreakIter(R, j)
  <1>1. IsStreakIter(S, it) /\ IsStreakIter(R, jt)
    BY StreakIterExists
  <1>2. StreakOf(S) = it[S] /\ StreakOf(R) = jt[R]
    BY StreakIsIter
  <1> HIDE DEF it, jt
  <1>3. it[R] = jt[R]
    BY <1>1, StreakIterUnique
  <1>4. it[S] = IF S = {} THEN NoStreak ELSE UpdatedStreak(it[R], Max(S))
    BY <1>1, StreakIterValue
  <1>5. QED
    BY <1>2, <1>3, <1>4

\* A streaks row that is true of some days.
StreakTrue(s, days) ==
    /\ s \in StreakRow(days)
    /\ Happened(s, days)
    /\ s.current <= s.longest

LEMMA StreakStaysTrue ==
    ASSUME NEW days \in SUBSET Int, NEW s, StreakTrue(s, days), NEW d \in Int
    PROVE  StreakTrue(UpdatedStreak(s, d), days \cup {d})
  <1> DEFINE after == days \cup {d}
             t == UpdatedStreak(s, d)
  <1>1. s \in StreakRow(after)
    BY DEF StreakTrue, StreakRow
  <1>2. t \in StreakRow(after)
    BY <1>1, UpdatedRow
  <1>3. Happened(t, after)
    BY <1>1, RuleInventsNothing DEF StreakTrue
  <1>4. t.current <= t.longest
    <2>1. CASE s = NoStreak
      BY <2>1, StreakCases
    <2>2. CASE s # NoStreak
      <3>1. s.current \in Nat \ {0} /\ s.longest \in Nat \ {0}
        BY <1>1, <2>2, StreakFields
      <3>2. /\ Larger(s.longest, s.current + 1) >= s.current + 1
            /\ Larger(s.longest, 1) >= 1
        BY <3>1 DEF Larger
      <3>3. QED
        BY <2>2, <3>2, StreakCases DEF StreakTrue
    <2>3. QED
      BY <2>1, <2>2
  <1>5. QED
    BY <1>2, <1>3, <1>4 DEF StreakTrue

LEMMA StreakOfIsTrue ==
    ASSUME NEW S, DaySet(S)
    PROVE  StreakTrue(StreakOf(S), S)
  <1> DEFINE B == {T \in SUBSET S : ~StreakTrue(StreakOf(T), T)}
  <1>1. ASSUME B # {} PROVE FALSE
    <2>1. PICK T \in B : \A U \in B : U \subseteq T => U = T
      <3>0. IsFiniteSet(S)
        BY DEF DaySet
      <3>1. B \in SUBSET (SUBSET S)
        OBVIOUS
      <3> HIDE DEF B
      <3>2. QED
        BY <1>1, <3>0, <3>1, MinimalSet
    <2>2. T \in SUBSET S /\ ~StreakTrue(StreakOf(T), T) /\ DaySet(T)
      BY DaySubset
    <2>3. CASE T = {}
      <3>1. StreakOf(T) = NoStreak
        BY <2>2, <2>3, StreakFirst
      <3>2. StreakTrue(NoStreak, T)
        BY DEF StreakTrue, StreakRow, Happened, NoStreak
      <3>3. QED
        BY <2>2, <3>1, <3>2
    <2>4. CASE T # {}
      <3> DEFINE R == T \ {Max(T)}
      <3>1. Max(T) \in T
        BY <2>2, <2>4, LatestIs
      <3>2. R \in SUBSET S /\ R # T /\ R \subseteq T /\ R \cup {Max(T)} = T
        BY <3>1
      <3>3. StreakTrue(StreakOf(R), R)
        BY <2>1, <3>2
      <3>4. StreakOf(T) = UpdatedStreak(StreakOf(R), Max(T))
        BY <2>2, <2>4, StreakFirst
      <3>5. StreakTrue(UpdatedStreak(StreakOf(R), Max(T)), R \cup {Max(T)})
        <4> HIDE DEF R
        <4>1. R \in SUBSET Int /\ Max(T) \in Int
          BY <2>2, <3>1, <3>2 DEF DaySet
        <4>2. QED
          BY <3>2, <3>3, <4>1, StreakStaysTrue
      <3>6. QED
        BY <2>2, <3>2, <3>4, <3>5, Zenon
    <2>5. QED
      BY <2>3, <2>4
  <1>2. QED
    BY <1>1

\* The day on which the page was opened, in UTC.
Opened == Start \div HoursPerDay

ClockOK == /\ now \in Int /\ Start <= now /\ now <= Start + MaxHours
           /\ offset \in Zones

RowsOK == /\ rows \in [DOMAIN rows -> [keys : Nat, clicks : Nat]]
          /\ DOMAIN rows \subseteq Instants \X Apps
          /\ IsFiniteSet(DOMAIN rows)
          /\ \A r \in DOMAIN rows : r[1] <= now

StreakOK == StreakTrue(streak, ActiveDays)

ViewOK == /\ page \in Pages /\ metric \in Metrics /\ clicks \in 0..MaxClicks
          /\ seen \in Int /\ Opened - 1 <= seen /\ seen <= Today
          /\ page # "today" => selected = NoDay
          /\ page = "today" => /\ selected \in Int /\ selected <= seen
                               /\ Opened - Window - clicks <= selected

CacheOK == /\ DOMAIN cache \subseteq QueryKeys
           /\ HistoryKey \in DOMAIN cache =>
                \A d \in DOMAIN cache[HistoryKey] : cache[HistoryKey][d] \in StatOf(d)

DayInv == ClockOK /\ RowsOK /\ StreakOK /\ ViewOK /\ CacheOK

LEMMA DayConstants ==
    /\ HoursPerDay \in Nat \ {0} /\ DaysPerWeek \in Nat \ {0}
    /\ WeekDays \in Nat \ {0} /\ MonthBars \in Nat \ {0} /\ MonthBack \in Nat
    /\ Window \in Nat /\ Window >= 2 /\ Window > WeekDays /\ Window >= MonthBars
    /\ Start \in Nat /\ MaxHours \in Nat /\ MaxPosts \in Nat /\ MaxClicks \in Nat
    /\ NoDay \notin Int
    /\ \A z \in Zones : z \in Int /\ 1 - HoursPerDay <= z /\ z <= HoursPerDay - 1
  BY DayPageAssumption, CalendarAssumption

LEMMA OpenedIs ==
    /\ Opened \in Int /\ Opened * HoursPerDay <= Start
    /\ (Start + MaxHours) \div HoursPerDay \in Int
    /\ Opened <= (Start + MaxHours) \div HoursPerDay
    /\ Opened >= 0
  <1>1. /\ Start \in Int /\ 0 \in Int /\ Start + MaxHours \in Int /\ HoursPerDay \in Nat \ {0}
        /\ Start <= Start + MaxHours /\ 0 <= Start
    BY DayConstants
  <1>2. 0 \div HoursPerDay = 0
    BY <1>1, Quotient
  <1>3. QED
    BY <1>1, <1>2, Division, DivisionOrder DEF Opened

LEMMA DateOrder ==
    ASSUME NEW t \in Int, NEW u \in Int, NEW z \in Zones, t <= u
    PROVE  /\ toLocalISODate(t, z) \in Int
           /\ toLocalISODate(t, z) <= toLocalISODate(u, z)
  BY DayConstants, Division, DivisionOrder DEF toLocalISODate

LEMMA DateBounds ==
    ASSUME NEW t \in Int, Start <= t, t <= Start + MaxHours, NEW z \in Zones
    PROVE  /\ Opened - 1 <= toLocalISODate(t, z)
           /\ toLocalISODate(t, z) <= (Start + MaxHours) \div HoursPerDay + 1
  <1> DEFINE H == HoursPerDay
             L == (Start + MaxHours) \div HoursPerDay
  <1>1. H \in Nat \ {0} /\ z \in Int /\ 1 - H <= z /\ z <= H - 1 /\ Start + MaxHours \in Int
    BY DayConstants
  <1>2. Opened \in Int /\ L \in Int /\ Opened * H <= Start /\ Start + MaxHours < (L + 1) * H
    BY <1>1, OpenedIs, Division
  <1> HIDE DEF L, H
  <1> DEFINE p == Opened * H
             q == (L + 1) * H
  <1>3. /\ (Opened - 1) * H = p - H /\ (L + 2) * H = q + H
        /\ p \in Int /\ q \in Int /\ p <= Start /\ Start + MaxHours < q
    BY <1>1, <1>2
  <1> HIDE DEF p, q
  <1>4. /\ (Opened - 1) * H \in Int /\ (Opened - 1) * H <= t + z
        /\ (L + 2) * H \in Int /\ t + z <= (L + 2) * H - 1
    BY <1>1, <1>3, DayConstants
  <1>5. ((Opened - 1) * H) \div H = Opened - 1
    BY <1>1, <1>2, Quotient
  <1>6. ((L + 2) * H - 1) \div H = L + 1
    <2>1. (L + 1) * H <= (L + 2) * H - 1 /\ (L + 2) * H - 1 < (L + 1 + 1) * H
      BY <1>1, <1>2
    <2>2. QED
      BY <1>1, <1>2, <1>4, <2>1, Quotient
  <1>7. Opened - 1 <= (t + z) \div H /\ (t + z) \div H <= L + 1
    BY <1>1, <1>4, <1>5, <1>6, DivisionOrder, SMTT(30)
  <1>8. QED
    BY <1>7 DEF toLocalISODate, H, L

LEMMA TodayIs ==
    ASSUME ClockOK
    PROVE  /\ Today \in Int /\ Opened - 1 <= Today
           /\ Today <= (Start + MaxHours) \div HoursPerDay + 1
           /\ offset \in Int
  BY DateOrder, DateBounds, DayConstants DEF ClockOK, Today

\* The bounded set of days that a tab can be on.
LEMMA DatesAre ==
    ASSUME NEW d \in Int, Opened - Window - MaxClicks <= d,
           d <= (Start + MaxHours) \div HoursPerDay + 1
    PROVE  d \in Dates
  <1>1. Opened - Window - MaxClicks \in Int /\ (Start + MaxHours) \div HoursPerDay + 1 \in Int
    BY OpenedIs, DayConstants
  <1>2. QED
    BY <1>1 DEF Dates, Opened

LEMMA InvImpliesType ==
    ASSUME DayInv
    PROVE  DayPageTypeOK
  <1>1. now \in Instants /\ offset \in Zones
    BY DayConstants DEF DayInv, ClockOK, Instants
  <1>2. /\ rows \in [DOMAIN rows -> [keys : Nat, clicks : Nat]]
        /\ DOMAIN rows \subseteq Instants \X Apps
    BY DEF DayInv, RowsOK
  <1>3. streak \in StreakRow(ActiveDays)
    BY DEF DayInv, StreakOK, StreakTrue
  <1>4. /\ page \in Pages /\ metric \in Metrics /\ clicks \in 0..MaxClicks
        /\ seen <= Today /\ (page = "today" => selected <= seen)
    BY DEF DayInv, ViewOK
  <1>5. seen \in Dates
    BY TodayIs, OpenedIs, DatesAre, DayConstants DEF DayInv, ViewOK
  <1>6. page = "today" => selected \in Dates /\ selected # NoDay
    BY TodayIs, OpenedIs, DatesAre, DayConstants DEF DayInv, ViewOK
  <1>7. selected \in Dates \cup {NoDay} /\ (selected = NoDay <=> page # "today")
    BY <1>6 DEF DayInv, ViewOK
  <1>8. /\ DOMAIN cache \subseteq QueryKeys
        /\ \A d \in (IF Loaded(HistoryKey) THEN DOMAIN cache[HistoryKey] ELSE {}) :
              cache[HistoryKey][d] \in StatOf(d)
    BY DEF DayInv, CacheOK, Loaded
  <1>9. QED
    BY <1>1, <1>2, <1>3, <1>4, <1>5, <1>7, <1>8 DEF DayPageTypeOK

-----------------------------------------------------------------------------
LEMMA RowIs ==
    ASSUME ClockOK, RowsOK, NEW r \in DOMAIN rows
    PROVE  /\ r[1] \in Int /\ r[1] >= 0 /\ r[1] <= now /\ r[2] \in Apps /\ r = <<r[1], r[2]>>
           /\ rows[r].keys \in Nat /\ rows[r].clicks \in Nat
           /\ toLocalISODate(r[1], offset) \in Int
           /\ toLocalISODate(r[1], offset) <= Today
  <1>1. r[1] \in Int /\ r[1] >= 0 /\ r[1] <= now /\ r[2] \in Apps /\ r = <<r[1], r[2]>>
    BY DayConstants DEF RowsOK, Instants
  <1>2. rows[r] \in [keys : Nat, clicks : Nat]
    BY DEF RowsOK
  <1>3. QED
    BY <1>1, <1>2, DateOrder DEF ClockOK, Today

LEMMA RollupDaySet ==
    ASSUME ClockOK, RowsOK
    PROVE  DaySet(RollupDays) /\ RollupDays \subseteq Int
  <1> DEFINE g == [r \in DOMAIN rows |-> toLocalISODate(r[1], offset)]
  <1>1. IsFiniteSet({g[r] : r \in DOMAIN rows})
    <2>1. IsFiniteSet(DOMAIN rows)
      BY DEF RowsOK
    <2> HIDE DEF g
    <2>2. QED
      BY <2>1, FiniteImage
  <1>2. {g[r] : r \in DOMAIN rows} = RollupDays
    BY DEF RollupDays
  <1>3. RollupDays \subseteq Int
    BY RowIs DEF RollupDays
  <1>4. QED
    BY <1>1, <1>2, <1>3 DEF DaySet

LEMMA ActiveDaySet ==
    ASSUME ClockOK, RowsOK
    PROVE  DaySet(ActiveDays) /\ ActiveDays \in SUBSET RollupDays
  <1>1. ActiveDays \in SUBSET RollupDays
    BY DEF ActiveDays, RollupDays
  <1>2. QED
    BY <1>1, RollupDaySet, DaySubset

LEMMA CountedIs ==
    ASSUME ClockOK, RowsOK, NEW of \in SUBSET DOMAIN rows
    PROVE  /\ IsFiniteSet(of)
           /\ Counted("keys", of) \in Nat
           /\ Counted("clicks", of) \in Nat
  <1>1. IsFiniteSet(of)
    BY FS_Subset DEF RowsOK
  <1> DEFINE f == [r \in DOMAIN rows |-> rows[r]["keys"]]
             g == [r \in DOMAIN rows |-> rows[r]["clicks"]]
  <1>2. \A r \in of : f[r] \in Int /\ f[r] >= 0 /\ g[r] \in Int /\ g[r] >= 0
    BY RowIs
  <1> HIDE DEF f, g
  <1>3. SumOn(f, of) \in Int /\ SumOn(f, of) >= 0
    BY <1>1, <1>2, SumType
  <1>4. SumOn(g, of) \in Int /\ SumOn(g, of) >= 0
    BY <1>1, <1>2, SumType
  <1>5. QED
    BY <1>1, <1>3, <1>4 DEF Counted, f, g

LEMMA RollupType ==
    ASSUME ClockOK, RowsOK, NEW d
    PROVE  Rollup(d) \in StatOf(d)
  <1> DEFINE mine == {r \in DOMAIN rows : toLocalISODate(r[1], offset) = d}
             live == {r \in mine : HasActivity(rows[r])}
             g == [r \in live |-> r[1]]
  <1>1. mine \in SUBSET DOMAIN rows /\ live \in SUBSET DOMAIN rows
    OBVIOUS
  <1> HIDE DEF mine, live
  <1>2. IsFiniteSet(live) /\ Counted("keys", mine) \in Nat /\ Counted("clicks", mine) \in Nat
    BY <1>1, CountedIs
  <1>3. IsFiniteSet({g[r] : r \in live})
    BY <1>2, FiniteImage
  <1>4. {g[r] : r \in live} = {r[1] : r \in live}
    OBVIOUS
  <1>5. Cardinality({r[1] : r \in live}) \in Nat
    BY <1>3, <1>4, FS_CardinalityType
  <1>6. Rollup(d) = [date |-> d, keys |-> Counted("keys", mine), clicks |-> Counted("clicks", mine),
                     minutes |-> Cardinality({r[1] : r \in live})]
    BY DEF Rollup, mine, live
  <1>7. QED
    BY <1>2, <1>5, <1>6 DEF StatOf

LEMMA ObservedAreKeys ==
    ASSUME DayInv, NEW q \in Observed
    PROVE  q \in QueryKeys
  <1>1. page = "today" => selected \in Dates
    BY InvImpliesType DEF DayPageTypeOK, DayInv, ViewOK
  <1>2. page \in Pages
    BY DEF DayInv, ViewOK
  <1>3. QED
    BY <1>1, <1>2 DEF Observed, QueryKeys, Pages, Ranges

LEMMA FilledIs ==
    ASSUME DayInv
    PROVE  /\ ~Loaded(HistoryKey) => Filled = <<>>
           /\ Loaded(HistoryKey) =>
                /\ Filled = fillDays(cache[HistoryKey], seen, Window)
                /\ Filled \in Seq(DayStat) /\ Len(Filled) = Window
                /\ DOMAIN Filled = 1..Window
                /\ \A i \in 1..Window :
                      /\ Filled[i] \in DayStat
                      /\ Filled[i].date = seen + i - Window
  <1>1. ~Loaded(HistoryKey) => Filled = <<>>
    BY DEF Filled
  <1>2. ASSUME Loaded(HistoryKey)
        PROVE  /\ Filled = fillDays(cache[HistoryKey], seen, Window)
               /\ Filled \in Seq(DayStat) /\ Len(Filled) = Window
               /\ DOMAIN Filled = 1..Window
               /\ \A i \in 1..Window :
                     /\ Filled[i] \in DayStat
                     /\ Filled[i].date = seen + i - Window
    <2> DEFINE hist == cache[HistoryKey]
    <2>1. Filled = fillDays(hist, seen, Window)
      BY <1>2 DEF Filled
    <2>2. \A d \in DOMAIN hist : hist[d] \in StatOf(d)
      BY <1>2 DEF Loaded, DayInv, CacheOK
    <2> HIDE DEF hist
    <2>3. \A i \in 1..Window : seen + (i - Window) \in Int /\ seen + (i - Window) = seen + i - Window
      BY DayConstants DEF DayInv, ViewOK
    <2> DEFINE entry(d) == IF d \in DOMAIN hist THEN hist[d] ELSE NoActivity(d)
    <2>4. Filled = [i \in 1..Window |-> entry(seen + (i - Window))]
      BY <2>1 DEF fillDays, shiftLocalDate
    <2>5. \A d \in Int : entry(d) \in DayStat /\ entry(d).date = d
      BY <2>2 DEF StatOf, DayStat, NoActivity
    <2> HIDE DEF entry
    <2>6. \A i \in 1..Window : Filled[i] \in DayStat /\ Filled[i].date = seen + i - Window
      BY <2>3, <2>4, <2>5
    <2>7. Filled \in [1..Window -> DayStat] /\ Window \in Nat
      BY <2>4, <2>6, DayConstants
    <2>8. Filled \in Seq(DayStat) /\ Len(Filled) = Window /\ DOMAIN Filled = 1..Window
      BY <2>7
    <2>9. QED
      BY <2>1, <2>6, <2>8 DEF hist
  <1>3. QED
    BY <1>1, <1>2

\* The days of a chart are days of the window.
LEMMA ChartDaysAre ==
    ASSUME DayInv, NEW i \in DOMAIN ChartDays
    PROVE  /\ ChartDays[i].date \in Int
           /\ seen - Window < ChartDays[i].date /\ ChartDays[i].date <= seen
  <1>1. Loaded(HistoryKey)
    <2>1. ASSUME Filled = <<>> PROVE DOMAIN ChartDays = {}
      <3>1. \A n \in Nat : LastDays(<<>>, n) = <<>>
        BY DEF LastDays
      <3>2. ChartDays = <<>>
        BY <2>1, <3>1, DayConstants DEF ChartDays
      <3>3. QED
        BY <3>2
    <2>2. QED
      BY <2>1, FilledIs
  <1>2. Filled \in Seq(DayStat) /\ Len(Filled) = Window
    BY <1>1, FilledIs
  <1>3. \A k \in 1..Window : Filled[k].date = seen + k - Window
    BY <1>1, FilledIs
  <1>4. PICK n \in {WeekDays, MonthBars} : ChartDays = LastDays(Filled, n)
    BY DEF ChartDays
  <1>5. n \in Nat /\ n <= Window /\ Window \in Nat /\ seen \in Int
    BY DayConstants DEF DayInv, ViewOK
  <1>6. ChartDays = [k \in 1..n |-> Filled[Window - n + k]]
    BY <1>2, <1>4, <1>5, LastDaysAre
  <1>7. i \in 1..n /\ Window - n + i \in 1..Window /\ ChartDays[i] = Filled[Window - n + i]
    BY <1>5, <1>6
  <1>8. QED
    BY <1>3, <1>5, <1>7

-----------------------------------------------------------------------------
LEMMA DayPageStarts ==
    ASSUME DayPageInit
    PROVE  DayInv
  <1>1. ClockOK
    BY DayConstants DEF DayPageInit, ClockOK
  <1>2. /\ offset \in Int /\ Start \in Nat /\ MaxHours \in Nat
        /\ Past \in [DOMAIN Past -> [keys : Nat, clicks : Nat]]
        /\ DOMAIN Past \subseteq (0..Start) \X Apps /\ IsFiniteSet(DOMAIN Past)
    BY <1>1, TodayIs, DayPageAssumption
  <1>3. RowsOK
    BY <1>2 DEF DayPageInit, RowsOK, Instants
  <1>4. StreakOK
    BY <1>1, <1>3, ActiveDaySet, StreakOfIsTrue DEF DayPageInit, StreakOK
  <1>5. ViewOK
    <2>1. Today \in Int /\ Opened - 1 <= Today /\ Opened - Window - 0 <= Today /\ 0 \in 0..MaxClicks
      BY <1>1, TodayIs, OpenedIs, DayConstants
    <2>2. QED
      BY <2>1 DEF DayPageInit, ViewOK, Pages, Ranges, Metrics
  <1>6. CacheOK
    <2>1. DOMAIN cache = {}
      BY DEF DayPageInit
    <2>2. QED
      BY <2>1 DEF CacheOK
  <1>7. QED
    BY <1>1, <1>3, <1>4, <1>5, <1>6 DEF DayInv

LEMMA FetchStep ==
    ASSUME DayInv, NEW q \in Observed, Fetch(q)
    PROVE  DayInv'
  <1>1. UNCHANGED <<now, offset, rows, streak, page, selected, metric, clicks>> /\ seen' = Today
    BY DEF Fetch, serverVars, viewVars
  <1>2. ClockOK' /\ RowsOK' /\ StreakOK'
    BY <1>1 DEF DayInv, ClockOK, RowsOK, StreakOK, ActiveDays, Instants
  <1>3. ViewOK'
    <2>1. /\ Today' = Today /\ Today \in Int /\ Opened - 1 <= Today
          /\ seen <= Today /\ seen \in Int
      BY <1>1, TodayIs DEF DayInv, ViewOK, Today
    <2>2. page = "today" => selected \in Int /\ selected <= Today
      BY <2>1 DEF DayInv, ViewOK
    <2>3. QED
      BY <1>1, <2>1, <2>2 DEF DayInv, ViewOK
  <1>4. CacheOK'
    <2>1. cache' = [k \in DOMAIN cache \cup {q} |-> IF k = q THEN Answer(q) ELSE cache[k]]
      BY DEF Fetch, With
    <2>2. DOMAIN cache' \subseteq QueryKeys
      BY <2>1, ObservedAreKeys DEF DayInv, CacheOK
    <2>3. ASSUME HistoryKey \in DOMAIN cache', NEW d \in DOMAIN cache'[HistoryKey]
          PROVE  cache'[HistoryKey][d] \in StatOf(d)
      <3>1. CASE q = HistoryKey
        <4>1. cache'[HistoryKey] = History
          BY <2>1, <2>3, <3>1 DEF Answer, HistoryKey
        <4>2. History[d] = Rollup(d)
          BY <2>3, <4>1 DEF History
        <4>3. QED
          BY <4>1, <4>2, RollupType DEF DayInv
      <3>2. CASE q # HistoryKey
        <4>1. cache'[HistoryKey] = cache[HistoryKey] /\ HistoryKey \in DOMAIN cache
          BY <2>1, <2>3, <3>2
        <4>2. QED
          BY <2>3, <4>1 DEF DayInv, CacheOK
      <3>3. QED
        BY <3>1, <3>2
    <2>4. QED
      BY <2>2, <2>3 DEF CacheOK
  <1>5. QED
    BY <1>2, <1>3, <1>4 DEF DayInv

LEMMA EvictStep ==
    ASSUME DayInv, NEW q \in DOMAIN cache, Evict(q)
    PROVE  DayInv'
  <1>1. /\ UNCHANGED <<now, offset, rows, streak, page, selected, metric, seen, clicks>>
        /\ cache' = [k \in DOMAIN cache \ {q} |-> cache[k]]
    BY DEF Evict, serverVars, viewVars
  <1>2. ClockOK' /\ RowsOK' /\ StreakOK'
    BY <1>1 DEF DayInv, ClockOK, RowsOK, StreakOK, ActiveDays, Instants
  <1>3. ViewOK'
    BY <1>1 DEF DayInv, ViewOK, Today
  <1>4. CacheOK'
    BY <1>1 DEF DayInv, CacheOK
  <1>5. QED
    BY <1>2, <1>3, <1>4 DEF DayInv

\* After a click that puts the page on a day it may be on, or on none.
LEMMA ClickStep ==
    ASSUME DayInv, Click, page' \in Pages, metric' \in Metrics,
           page' # "today" => selected' = NoDay,
           page' = "today" => /\ selected' \in Int /\ selected' <= Today
                              /\ Opened - Window - clicks - 1 <= selected'
    PROVE  DayInv'
  <1>1. /\ UNCHANGED <<now, offset, rows, streak, cache>>
        /\ seen' = Today /\ clicks < MaxClicks /\ clicks' = clicks + 1
    BY DEF Click, serverVars
  <1>2. ClockOK' /\ RowsOK' /\ StreakOK'
    BY <1>1 DEF DayInv, ClockOK, RowsOK, StreakOK, ActiveDays, Instants
  <1>3. ViewOK'
    <2>1. Today' = Today /\ Today \in Int /\ Opened - 1 <= Today
      BY <1>1, TodayIs DEF DayInv, Today
    <2>2. clicks' \in 0..MaxClicks /\ Opened - Window - clicks' = Opened - Window - clicks - 1
      BY <1>1, DayConstants, OpenedIs DEF DayInv, ViewOK
    <2>3. QED
      BY <1>1, <2>1, <2>2 DEF ViewOK
  <1>4. CacheOK'
    BY <1>1 DEF DayInv, CacheOK
  <1>5. QED
    BY <1>2, <1>3, <1>4 DEF DayInv

LEMMA UserStep ==
    ASSUME DayInv, User
    PROVE  DayInv'
  <1>0. /\ page \in Pages /\ metric \in Metrics /\ clicks \in Nat
        /\ seen \in Int /\ Opened - 1 <= seen /\ seen <= Today
        /\ Today \in Int /\ Opened - 1 <= Today
        /\ Opened \in Int /\ Window \in Nat /\ Window >= 2
    BY TodayIs, OpenedIs, DayConstants DEF DayInv, ViewOK
  <1>1. CASE PrevDay
    <2>1. /\ page = "today" /\ page' = page /\ metric' = metric /\ Click
          /\ selected' = selected - 1 /\ canGoPrev
      BY <1>1 DEF PrevDay, shiftLocalDate
    <2>2. /\ selected \in Int /\ selected <= seen /\ Opened - Window - clicks <= selected
      BY <2>1 DEF DayInv, ViewOK
    <2>3. selected' \in Int /\ selected' <= Today /\ Opened - Window - clicks - 1 <= selected'
      BY <1>0, <2>1, <2>2
    <2>4. QED
      BY <1>0, <2>1, <2>3, ClickStep
  <1>2. CASE NextDay
    <2>1. /\ page = "today" /\ page' = page /\ metric' = metric /\ Click
          /\ selected' = selected + 1 /\ selected < seen
      BY <1>2 DEF NextDay, canGoNext, shiftLocalDate
    <2>2. /\ selected \in Int /\ Opened - Window - clicks <= selected
      BY <2>1 DEF DayInv, ViewOK
    <2>3. selected' \in Int /\ selected' <= Today /\ Opened - Window - clicks - 1 <= selected'
      BY <1>0, <2>1, <2>2
    <2>4. QED
      BY <1>0, <2>1, <2>3, ClickStep
  <1>3. CASE JumpToToday
    <2>1. page = "today" /\ page' = page /\ metric' = metric /\ Click /\ selected' = seen
      BY <1>3 DEF JumpToToday
    <2>2. QED
      BY <1>0, <2>1, ClickStep
  <1>4. ASSUME Click, MountDay(NoDay), metric' = metric
        PROVE  DayInv'
    <2>1. page' = "today" /\ selected' = Today /\ "today" \in Pages
      BY <1>4 DEF MountDay, Pages, Ranges
    <2>2. QED
      BY <1>0, <1>4, <2>1, ClickStep
  <1>5. ASSUME NEW p \in Pages \ {"today"}, Click, Unmounted(p), metric' \in Metrics
        PROVE  DayInv'
    <2>1. page' = p /\ selected' = NoDay
      BY <1>5 DEF Unmounted
    <2>2. QED
      BY <1>5, <2>1, ClickStep
  <1>6. CASE OpenToday
    BY <1>4, <1>6 DEF OpenToday
  <1>7. ASSUME NEW range \in Ranges, SelectRange(range)
        PROVE  DayInv'
    <2>1. CASE range = "today"
      BY <1>4, <1>7, <2>1 DEF SelectRange
    <2>2. CASE range # "today"
      <3>1. Unmounted(range) /\ metric' = metric /\ Click /\ range \in Pages \ {"today"}
        BY <1>7, <2>2 DEF SelectRange, Pages
      <3>2. QED
        BY <1>0, <1>5, <3>1
    <2>3. QED
      BY <2>1, <2>2
  <1>8. ASSUME NEW p \in Pages, OpenTab(p)
        PROVE  DayInv'
    <2>1. Unmounted(p) /\ metric' = "keys" /\ Click /\ p \in Pages \ {"today"} /\ "keys" \in Metrics
      BY <1>8 DEF OpenTab, Metrics
    <2>2. QED
      BY <1>5, <2>1
  <1>9. ASSUME NEW i \in DOMAIN ChartDays, SelectDay(ChartDays[i].date)
        PROVE  DayInv'
    <2> DEFINE d == ChartDays[i].date
    <2>1. d \in Int /\ seen - Window < d /\ d <= seen
      BY ChartDaysAre
    <2>2. MountDay(d) /\ metric' = metric /\ Click
      BY <1>9 DEF SelectDay
    <2> HIDE DEF d
    <2>3. d # NoDay
      BY <2>1, DayConstants
    <2>4. page' = "today" /\ selected' = d
      BY <2>2, <2>3 DEF MountDay
    <2>5. "today" \in Pages /\ d <= Today /\ Opened - Window - clicks - 1 <= d
      BY <1>0, <2>1 DEF Pages, Ranges
    <2>6. QED
      BY <1>0, <2>1, <2>2, <2>4, <2>5, ClickStep
  <1>10. ASSUME NEW m \in Metrics, SetMetric(m)
         PROVE  DayInv'
    <2>1. /\ page = "history" /\ page' = page /\ selected' = selected /\ metric' = m /\ Click
      BY <1>10 DEF SetMetric
    <2>2. selected = NoDay
      BY <2>1 DEF DayInv, ViewOK
    <2>3. QED
      BY <1>0, <2>1, <2>2, ClickStep
  <1>11. QED
    BY <1>1, <1>2, <1>3, <1>6, <1>7, <1>8, <1>9, <1>10 DEF User

LEMMA PostStep ==
    ASSUME DayInv, NEW row \in Deliveries, Post(row)
    PROVE  DayInv'
  <1> DEFINE minute == <<now - row.late, row.app>>
             d == toLocalISODate(minute[1], offset)
  <1>1. /\ UNCHANGED <<now, offset, page, selected, metric, seen, cache, clicks>>
        /\ minute \notin DOMAIN rows
        /\ rows' = With(rows, minute, row.counts)
        /\ streak' = IF HasActivity(row.counts) THEN UpdatedStreak(streak, d) ELSE streak
    BY DEF Post, viewVars
  <1>2. row \in [late : 0..Start, app : Apps, counts : [keys : Nat, clicks : Nat]]
    BY DayPageAssumption
  <1>3. /\ minute[1] \in Int /\ 0 <= minute[1] /\ minute[1] <= now
        /\ minute \in Instants \X Apps
    BY <1>2, DayConstants DEF DayInv, ClockOK, Instants
  <1>4. row.counts \in [keys : Nat, clicks : Nat]
    BY <1>2
  <1>5. /\ rows' = [r \in DOMAIN rows \cup {minute} |-> IF r = minute THEN row.counts ELSE rows[r]]
        /\ DOMAIN rows' = DOMAIN rows \cup {minute}
    BY <1>1 DEF With
  <1>6. ClockOK'
    BY <1>1 DEF DayInv, ClockOK
  <1>7. RowsOK'
    <2> HIDE DEF minute
    <2>1. IsFiniteSet(DOMAIN rows')
      BY <1>5, FS_AddElement DEF DayInv, RowsOK
    <2>2. rows' \in [DOMAIN rows' -> [keys : Nat, clicks : Nat]]
      BY <1>4, <1>5 DEF DayInv, RowsOK
    <2>3. DOMAIN rows' \subseteq Instants \X Apps /\ \A r \in DOMAIN rows' : r[1] <= now
      BY <1>3, <1>5 DEF DayInv, RowsOK
    <2>4. QED
      BY <1>1, <2>1, <2>2, <2>3 DEF RowsOK, Instants
  <1>8. StreakOK'
    <2>1. ActiveDays' = IF HasActivity(row.counts) THEN ActiveDays \cup {d} ELSE ActiveDays
      <3> DEFINE live == {r \in DOMAIN rows : HasActivity(rows[r])}
      <3>1. {r \in DOMAIN rows' : HasActivity(rows'[r])}
              = IF HasActivity(row.counts) THEN live \cup {minute} ELSE live
        <4> HIDE DEF minute
        <4>1. rows'[minute] = row.counts /\ \A r \in DOMAIN rows : rows'[r] = rows[r]
          BY <1>1, <1>5
        <4>2. QED
          BY <1>1, <1>5, <4>1
      <3>2. QED
        BY <1>1, <3>1 DEF ActiveDays
    <2>2. d \in Int /\ ActiveDays \in SUBSET Int
      BY <1>3, DateOrder, ActiveDaySet, RollupDaySet DEF DayInv, ClockOK
    <2>3. StreakTrue(streak, ActiveDays) /\ StreakTrue(UpdatedStreak(streak, d), ActiveDays \cup {d})
      <3> HIDE DEF d
      <3>1. StreakTrue(streak, ActiveDays)
        BY DEF DayInv, StreakOK
      <3>2. QED
        BY <2>2, <3>1, StreakStaysTrue
    <2>4. CASE HasActivity(row.counts)
      BY <1>1, <2>1, <2>3, <2>4 DEF StreakOK
    <2>5. CASE ~HasActivity(row.counts)
      BY <1>1, <2>1, <2>3, <2>5 DEF StreakOK
    <2>6. QED
      BY <2>4, <2>5
  <1>9. ViewOK'
    BY <1>1 DEF DayInv, ViewOK, Today
  <1>10. CacheOK'
    BY <1>1 DEF DayInv, CacheOK
  <1>11. QED
    BY <1>6, <1>7, <1>8, <1>9, <1>10 DEF DayInv

LEMMA TickStep ==
    ASSUME DayInv, Tick
    PROVE  DayInv'
  <1>1. /\ UNCHANGED <<offset, rows, streak, page, selected, metric, seen, cache, clicks>>
        /\ now < Start + MaxHours /\ now' = now + 1
    BY DEF Tick, serverVars, viewVars
  <1>2. ClockOK'
    BY <1>1, DayConstants DEF DayInv, ClockOK
  <1>3. RowsOK'
    <2>1. \A r \in DOMAIN rows : r[1] \in Int /\ r[1] <= now /\ now \in Int
      BY RowIs DEF DayInv, ClockOK
    <2>2. \A r \in DOMAIN rows : r[1] <= now'
      BY <1>1, <2>1
    <2>3. QED
      BY <1>1, <2>2 DEF DayInv, RowsOK, Instants
  <1>4. StreakOK'
    BY <1>1 DEF DayInv, StreakOK, ActiveDays
  <1>5. ViewOK'
    <2>1. now \in Int /\ now + 1 \in Int /\ now <= now + 1 /\ offset \in Zones
      BY DEF DayInv, ClockOK
    <2>2. /\ toLocalISODate(now, offset) <= toLocalISODate(now + 1, offset)
          /\ toLocalISODate(now, offset) \in Int
      BY <2>1, DateOrder
    <2>3. toLocalISODate(now + 1, offset) \in Int
      <3>1. now + 1 <= now + 1
        BY <2>1
      <3>2. QED
        BY <2>1, <3>1, DateOrder
    <2>4. seen <= Today'
      BY <1>1, <2>2, <2>3 DEF DayInv, ViewOK, Today
    <2>5. QED
      BY <1>1, <2>4 DEF DayInv, ViewOK
  <1>6. CacheOK'
    BY <1>1 DEF DayInv, CacheOK
  <1>7. QED
    BY <1>2, <1>3, <1>4, <1>5, <1>6 DEF DayInv

LEMMA DayPageKeepsInv ==
    ASSUME DayInv, [DayPageNext]_dayPageVars
    PROVE  DayInv'
  <1>1. ASSUME NEW q \in Observed, Refetch(q) PROVE DayInv'
    BY <1>1, FetchStep DEF Refetch
  <1>2. ASSUME NEW q \in DOMAIN cache, Evict(q) PROVE DayInv'
    BY <1>2, EvictStep
  <1>3. CASE User
    BY <1>3, UserStep
  <1>4. ASSUME NEW row \in Deliveries, Post(row) PROVE DayInv'
    BY <1>4, PostStep
  <1>5. CASE Tick
    BY <1>5, TickStep
  <1>6. CASE UNCHANGED dayPageVars
    BY <1>6 DEF dayPageVars, serverVars, viewVars, DayInv, ClockOK, RowsOK, StreakOK, ViewOK, CacheOK,
                ActiveDays, Instants, Today
  <1>7. QED
    BY <1>1, <1>2, <1>3, <1>4, <1>5, <1>6 DEF DayPageNext

LEMMA DayInvHolds == DayPageSpec => []DayInv
  <1>1. DayPageInit => DayInv
    BY DayPageStarts
  <1>2. DayInv /\ [DayPageNext]_dayPageVars => DayInv'
    BY DayPageKeepsInv
  <1>3. QED
    BY <1>1, <1>2, PTL DEF DayPageSpec

-----------------------------------------------------------------------------
(***************************************************************************)
(* The calendar of HistoryView.                                            *)
(***************************************************************************)
\* What the calendar of some days counts for day d.
CellValue(days, m, d) ==
    IF \E i \in DOMAIN days : days[i].date = d
    THEN days[CHOOSE i \in DOMAIN days : days[i].date = d][m]
    ELSE 0

\* The Sunday of row w of a calendar that starts on day s.
Sunday(s, w) == s + (w - 1) * DaysPerWeek

CellDate(s, c) == Sunday(s, c[1]) + c[2] - 1

\* The positions of a calendar from s to today.
CellsOf(s, today) ==
    {c \in (1..Window) \X (1..DaysPerWeek) :
        /\ c[1] <= (today - s) \div DaysPerWeek + 1
        /\ CellDate(s, c) <= today}

\* The calendar begins with the week of the window's first day, and the window
\* has at least as many days as the calendar has weeks.
LEMMA CalendarSpan ==
    ASSUME NEW today \in Int
    PROVE  LET s == CalendarStart(today, Window)
           IN  /\ s \in Int /\ s % DaysPerWeek = 0
               /\ s <= today - Window + 1
               /\ (today - s) \div DaysPerWeek \in Nat
               /\ (today - s) \div DaysPerWeek + 1 <= Window
  <1> DEFINE D == DaysPerWeek
             s == CalendarStart(today, Window)
             first == today - (Window - 1)
  <1>1. D \in Nat \ {0} /\ Window \in Nat /\ Window >= 2 /\ first \in Int
    BY DayConstants
  <1>2. s % D = 0 /\ s <= first /\ first < s + D
    BY <1>1, CalendarStartsOnSunday DEF getDay
  <1>3. s \in Int
    BY <1>1, Remainder DEF CalendarStart, getDay
  <1> HIDE DEF s
  <1>4. today - s \in Nat /\ today - s <= Window - 1 + D - 1
    BY <1>1, <1>2, <1>3
  <1>5. Window - 1 <= (Window - 1) * D
    BY <1>1
  <1>6. Window * D = (Window - 1) * D + D /\ (Window - 1) * D \in Int
    BY <1>1
  <1>7. today - s < Window * D
    BY <1>1, <1>4, <1>5, <1>6
  <1>8. (today - s) \div D < Window /\ (today - s) \div D \in Int
    BY <1>1, <1>4, <1>7, QuotientBelow, Division
  <1>9. 0 <= (today - s) \div D
    <2>1. 0 \div D = 0
      BY <1>1, Quotient
    <2>2. QED
      BY <1>1, <1>4, <2>1, DivisionOrder
  <1>10. (today - s) \div D \in Nat /\ (today - s) \div D + 1 <= Window
    BY <1>1, <1>8, <1>9
  <1>11. QED
    BY <1>1, <1>2, <1>3, <1>10 DEF s

LEMMA CellDates ==
    ASSUME NEW today \in Int, NEW s \in Int, s % DaysPerWeek = 0, s <= today,
           (today - s) \div DaysPerWeek + 1 <= Window
    PROVE  /\ \A c \in CellsOf(s, today) :
                 /\ CellDate(s, c) \in s..today
                 /\ getDay(CellDate(s, c)) + 1 = c[2]
           /\ \A b, c \in CellsOf(s, today) : CellDate(s, b) = CellDate(s, c) => b = c
           /\ \A d \in s..today : \E c \in CellsOf(s, today) : CellDate(s, c) = d
  <1> DEFINE D == DaysPerWeek
  <1>0. D \in Nat \ {0} /\ Window \in Nat
    BY DayConstants
  <1> DEFINE z == s \div D
  <1>1. z \in Int /\ s = z * D
    <2>1. s - (s % D) = (s \div D) * D /\ s \div D \in Int
      BY <1>0, Remainder, Division
    <2>2. QED
      BY <2>1
  <1> HIDE DEF z
  <1>2. ASSUME NEW w \in Int, NEW k \in 1..D
        PROVE  LET d == s + (w - 1) * D + k - 1
               IN  d \in Int /\ (d - s) \div D = w - 1 /\ d % D = k - 1
    <2> DEFINE d == s + (w - 1) * D + k - 1
               p == (w - 1) * D
    <2>1. p \in Int /\ w * D = p + D /\ (w - 1 + 1) * D = p + D
      BY <1>0
    <2>2. d = s + p + k - 1
      OBVIOUS
    <2>3. (z + (w - 1)) * D = s + p /\ (z + (w - 1) + 1) * D = s + p + D
      BY <1>0, <1>1
    <2> HIDE DEF p, d
    <2>4. d \in Int /\ d - s \in Int /\ p <= d - s /\ d - s < p + D
      BY <1>0, <2>1, <2>2
    <2>5. (d - s) \div D = w - 1
      BY <1>0, <2>1, <2>4, Quotient DEF p
    <2>6. d \div D = z + (w - 1)
      <3>1. s + p <= d /\ d < s + p + D
        BY <1>0, <2>1, <2>2
      <3>2. QED
        BY <1>0, <1>1, <2>3, <2>4, <3>1, Quotient
    <2>7. d % D \in Int /\ d - (d % D) = (d \div D) * D
      <3>1. d \in Int
        BY <2>4
      <3>2. d % D \in 0..(D - 1) /\ d - (d % D) = (d \div D) * D
        BY <1>0, <3>1, Remainder
      <3>3. QED
        BY <1>0, <3>2
    <2>8. d - (d % D) = s + p
      BY <2>3, <2>6, <2>7
    <2>9. d % D = k - 1
      BY <1>0, <2>1, <2>2, <2>4, <2>7, <2>8
    <2>10. QED
      BY <2>4, <2>5, <2>9 DEF d
  <1>3. ASSUME NEW c \in CellsOf(s, today)
        PROVE  /\ CellDate(s, c) \in s..today
               /\ getDay(CellDate(s, c)) + 1 = c[2]
               /\ c[1] = (CellDate(s, c) - s) \div D + 1
               /\ c = <<c[1], c[2]>> /\ c[1] \in Int /\ c[2] \in Int
    <2>1. c[1] \in 1..Window /\ c[2] \in 1..D /\ c = <<c[1], c[2]>> /\ CellDate(s, c) <= today
      BY DEF CellsOf
    <2>2. CellDate(s, c) = s + (c[1] - 1) * D + c[2] - 1
      BY DEF CellDate, Sunday
    <2> DEFINE d == CellDate(s, c)
    <2>3. d \in Int /\ (d - s) \div D = c[1] - 1 /\ d % D = c[2] - 1
      BY <1>2, <2>1, <2>2
    <2>4. s <= d
      <3>1. (c[1] - 1) * D >= 0 /\ (c[1] - 1) * D \in Int
        BY <1>0, <2>1
      <3>2. QED
        BY <1>0, <2>1, <2>2, <3>1
    <2> HIDE DEF d
    <2>5. d \in s..today /\ getDay(d) + 1 = c[2] /\ c[1] = (d - s) \div D + 1
      BY <1>0, <2>1, <2>3, <2>4 DEF getDay, d
    <2>6. QED
      BY <1>0, <2>1, <2>5 DEF d
  <1>4. ASSUME NEW b \in CellsOf(s, today), NEW c \in CellsOf(s, today), CellDate(s, b) = CellDate(s, c)
        PROVE  b = c
    <2>1. b[1] = c[1] /\ b[2] = c[2]
      BY <1>3, <1>4
    <2>2. QED
      BY <1>3, <2>1
  <1>5. ASSUME NEW d \in s..today
        PROVE  \E c \in CellsOf(s, today) : CellDate(s, c) = d
    <2> DEFINE q == (d - s) \div D
               r == (d - s) % D
    <2>0. d - s \in Int
      OBVIOUS
    <2>b. q \in Int
      BY <1>0, <2>0, Division
    <2>c. r \in 0..(D - 1) /\ d - s - r = q * D
      BY <1>0, <2>0, Remainder
    <2>1. d - s \in Int /\ q \in Int /\ r \in 0..(D - 1) /\ d - s - r = q * D
      BY <2>0, <2>b, <2>c
    <2>2. 0 <= q /\ q <= (today - s) \div D /\ (today - s) \div D \in Int
      <3>1. 0 \div D = 0
        BY <1>0, Quotient
      <3>2. 0 <= d - s /\ d - s <= today - s /\ today - s \in Int /\ d - s \in Int /\ 0 \in Int
        BY <2>1
      <3>3. 0 \div D <= (d - s) \div D
        BY <1>0, <3>2, DivisionOrder
      <3>4. (d - s) \div D <= (today - s) \div D
        BY <1>0, <3>2, DivisionOrder
      <3>5. (today - s) \div D \in Int
        BY <1>0, <3>2, Division
      <3>6. QED
        BY <3>1, <3>3, <3>4, <3>5
    <2> DEFINE c == <<q + 1, r + 1>>
    <2>a. (q + 1 - 1) * D = q * D /\ q * D \in Int
      BY <1>0, <2>1
    <2> HIDE DEF q, r
    <2>3. CellDate(s, c) = d
      BY <1>0, <2>1, <2>a DEF CellDate, Sunday
    <2>4. c \in (1..Window) \X (1..D) /\ c[1] <= (today - s) \div D + 1
      BY <1>0, <2>1, <2>2
    <2>5. c \in CellsOf(s, today)
      BY <2>3, <2>4 DEF CellsOf
    <2>6. QED
      BY <2>3, <2>5
  <1>6. QED
    BY <1>3, <1>4, <1>5

LEMMA HeatmapIs ==
    ASSUME NEW today \in Int, NEW days, NEW m
    PROVE  LET s   == CalendarStart(today, Window)
               cal == Heatmap(days, m, today, Window)
               max == Largest({CellValue(days, m, d) : d \in s..today})
           IN  /\ \A c \in (1..Window) \X (1..DaysPerWeek) :
                     (c[1] \in DOMAIN cal /\ c[2] \in DOMAIN cal[c[1]]) <=> c \in CellsOf(s, today)
               /\ \A c \in CellsOf(s, today) :
                     cal[c[1]][c[2]] =
                        [date |-> CellDate(s, c), value |-> CellValue(days, m, CellDate(s, c)),
                         step |-> stepFor(CellValue(days, m, CellDate(s, c)), max)]
  <1> DEFINE s   == CalendarStart(today, Window)
             cal == Heatmap(days, m, today, Window)
             max == Largest({CellValue(days, m, d) : d \in s..today})
             cell(d) == [date |-> d, value |-> CellValue(days, m, d),
                         step |-> stepFor(CellValue(days, m, d), max)]
             W == (today - s) \div DaysPerWeek + 1
             row(w) == Min({DaysPerWeek, today - Sunday(s, w) + 1})
  <1>1. cal = [w \in 1..W |-> [k \in 1..row(w) |-> cell(Sunday(s, w) + k - 1)]]
    BY DEF Heatmap, CellValue, Sunday
  <1>2. s \in Int /\ W \in Nat /\ W <= Window /\ DaysPerWeek \in Nat \ {0} /\ Window \in Nat
    BY CalendarSpan, DayConstants
  <1> HIDE DEF cal, max, W, s, row, cell
  <1>3. \A w \in 1..W : Sunday(s, w) \in Int
    BY <1>2 DEF Sunday
  <1>4. \A w \in 1..W : row(w) \in Int /\ \A k \in 1..DaysPerWeek : k <= row(w) <=> Sunday(s, w) + k - 1 <= today
    <2> SUFFICES ASSUME NEW w \in 1..W
                 PROVE  row(w) \in Int /\ \A k \in 1..DaysPerWeek : k <= row(w) <=> Sunday(s, w) + k - 1 <= today
      OBVIOUS
    <2>1. Sunday(s, w) \in Int /\ today - Sunday(s, w) + 1 \in Int
      BY <1>3
    <2>2. row(w) = IF DaysPerWeek <= today - Sunday(s, w) + 1 THEN DaysPerWeek ELSE today - Sunday(s, w) + 1
      BY <1>2, <2>1, MinOfTwo DEF row
    <2>3. QED
      BY <1>2, <2>1, <2>2
  <1>5. DOMAIN cal = 1..W /\ \A w \in 1..W : DOMAIN cal[w] = 1..row(w)
    BY <1>1
  <1>6. ASSUME NEW c \in (1..Window) \X (1..DaysPerWeek)
        PROVE  (c[1] \in DOMAIN cal /\ c[2] \in DOMAIN cal[c[1]]) <=> c \in CellsOf(s, today)
    <2>1. c[1] \in 1..Window /\ c[2] \in 1..DaysPerWeek
      OBVIOUS
    <2>2. c[1] \in DOMAIN cal <=> c[1] <= W
      BY <1>2, <1>5, <2>1
    <2>3. c[1] <= W => (c[2] \in DOMAIN cal[c[1]] <=> CellDate(s, c) <= today)
      BY <1>2, <1>4, <1>5, <2>1 DEF CellDate
    <2>4. c \in CellsOf(s, today) <=> c[1] <= W /\ CellDate(s, c) <= today
      BY DEF CellsOf, W
    <2>5. QED
      BY <2>2, <2>3, <2>4
  <1>7. ASSUME NEW c \in CellsOf(s, today)
        PROVE  cal[c[1]][c[2]] = cell(CellDate(s, c))
    <2>1. c \in (1..Window) \X (1..DaysPerWeek)
      BY DEF CellsOf
    <2>2. c[1] \in 1..W /\ c[2] \in 1..row(c[1])
      BY <1>5, <1>6, <2>1
    <2>3. cal[c[1]][c[2]] = cell(Sunday(s, c[1]) + c[2] - 1)
      BY <1>1, <2>2
    <2>4. QED
      BY <2>3 DEF CellDate
  <1>8. QED
    BY <1>6, <1>7 DEF cal, max, s, cell

LEMMA CalendarHolds ==
    ASSUME DayInv
    PROVE  CalendarAgrees
  <1> DEFINE s   == CalendarStart(seen, Window)
             V(d) == CellValue(Filled, metric, d)
             calendar == HistoryShown.calendar
             cells == {c \in (1..Window) \X (1..DaysPerWeek) :
                         c[1] \in DOMAIN calendar /\ c[2] \in DOMAIN calendar[c[1]]}
             at(c) == calendar[c[1]][c[2]]
             most  == Max({at(c).value : c \in cells} \cup {0})
             Goal1 == \A i \in DOMAIN Filled :
                        LET here == {c \in cells : at(c).date = Filled[i].date}
                        IN  /\ Cardinality(here) = 1
                            /\ \A c \in here : /\ at(c).value = Filled[i][metric]
                                               /\ c[2] = getDay(Filled[i].date) + 1
             Goal2 == \A c \in cells : /\ at(c).date <= seen
                                       /\ at(c).step = 0 <=> at(c).value = 0
                                       /\ at(c).value = most /\ most > 0 => at(c).step = 5
             Goal3 == \A b, c \in cells : at(b).value < at(c).value => at(b).step <= at(c).step
             vals == {V(d) : d \in s..seen}
             max  == Largest(vals)
  <1>1. ASSUME page = "history", Loaded(HistoryKey)
        PROVE  Goal1 /\ Goal2 /\ Goal3
    <2>1. seen \in Int /\ metric \in Metrics
      BY DEF DayInv, ViewOK
    <2>2. /\ DOMAIN Filled = 1..Window /\ Window \in Nat /\ Window >= 2
          /\ \A i \in 1..Window : Filled[i] \in DayStat /\ Filled[i].date = seen + i - Window
      BY <1>1, FilledIs, DayConstants
    <2>3. calendar = Heatmap(Filled, metric, seen, Window)
      BY <1>1 DEF HistoryShown
    <2>4. /\ s \in Int /\ s % DaysPerWeek = 0 /\ s <= seen /\ s <= seen - Window + 1
          /\ (seen - s) \div DaysPerWeek + 1 <= Window
      <3>1. s \in Int /\ s % DaysPerWeek = 0 /\ s <= seen - Window + 1
            /\ (seen - s) \div DaysPerWeek + 1 <= Window
        BY <2>1, CalendarSpan
      <3>2. QED
        BY <2>1, <2>2, <3>1
    <2>5. cells = CellsOf(s, seen)
      <3>1. \A c \in (1..Window) \X (1..DaysPerWeek) :
               (c[1] \in DOMAIN calendar /\ c[2] \in DOMAIN calendar[c[1]]) <=> c \in CellsOf(s, seen)
        BY <2>1, <2>3, HeatmapIs
      <3>2. CellsOf(s, seen) \subseteq (1..Window) \X (1..DaysPerWeek)
        BY DEF CellsOf
      <3> HIDE DEF calendar, s
      <3>3. QED
        BY <3>1, <3>2
    <2>6. \A c \in CellsOf(s, seen) :
             at(c) = [date |-> CellDate(s, c), value |-> V(CellDate(s, c)),
                      step |-> stepFor(V(CellDate(s, c)), max)]
      BY <2>1, <2>3, HeatmapIs
    <2> HIDE DEF calendar, cells, s, max, vals
    <2>7. /\ \A c \in cells : CellDate(s, c) \in s..seen /\ getDay(CellDate(s, c)) + 1 = c[2]
          /\ \A b, c \in cells : CellDate(s, b) = CellDate(s, c) => b = c
          /\ \A d \in s..seen : \E c \in cells : CellDate(s, c) = d
      BY <2>1, <2>4, <2>5, CellDates
    <2>8. \A i \in 1..Window : V(Filled[i].date) = Filled[i][metric]
      <3> SUFFICES ASSUME NEW i \in 1..Window PROVE V(Filled[i].date) = Filled[i][metric]
        OBVIOUS
      <3>1. \A j \in 1..Window : Filled[j].date = Filled[i].date => j = i
        BY <2>1, <2>2
      <3>2. \E j \in DOMAIN Filled : Filled[j].date = Filled[i].date
        BY <2>2
      <3>3. (CHOOSE j \in DOMAIN Filled : Filled[j].date = Filled[i].date) = i
        BY <2>2, <3>1, <3>2
      <3>4. QED
        BY <3>2, <3>3 DEF CellValue
    <2>9. \A d \in Int : V(d) \in Nat
      <3> SUFFICES ASSUME NEW d \in Int PROVE V(d) \in Nat
        OBVIOUS
      <3>1. CASE \E j \in DOMAIN Filled : Filled[j].date = d
        <4>1. PICK j \in 1..Window : Filled[j].date = d
          BY <2>2, <3>1
        <4>2. Filled[j] \in DayStat
          BY <2>2
        <4>3. Filled[j][metric] \in Nat
          BY <2>1, <4>2 DEF DayStat, Metrics
        <4>4. QED
          BY <2>8, <4>1, <4>3
      <3>2. CASE ~ \E j \in DOMAIN Filled : Filled[j].date = d
        BY <3>2 DEF CellValue
      <3>3. QED
        BY <3>1, <3>2
    <2>10. IsFiniteSet(vals) /\ vals \subseteq Nat
      <3> DEFINE g == [d \in s..seen |-> V(d)]
      <3>1. IsFiniteSet({g[d] : d \in s..seen})
        BY <2>1, <2>4, FS_Interval, FiniteImage
      <3>2. {g[d] : d \in s..seen} = vals
        BY DEF vals
      <3>3. vals \subseteq Nat
        BY <2>1, <2>4, <2>9 DEF vals
      <3>4. QED
        BY <3>1, <3>2, <3>3
    <2>11. {at(c).value : c \in cells} = vals
      <3> DEFINE W(d) == V(d)
      <3>1. \A c \in cells : at(c).value = W(CellDate(s, c))
        <4> SUFFICES ASSUME NEW c \in cells PROVE at(c).value = W(CellDate(s, c))
          OBVIOUS
        <4>1. c \in CellsOf(s, seen)
          BY <2>5
        <4> HIDE DEF at
        <4>2. at(c) = [date |-> CellDate(s, c), value |-> V(CellDate(s, c)),
                       step |-> stepFor(V(CellDate(s, c)), max)]
          BY <2>6, <4>1
        <4>3. QED
          BY <4>2
      <3>2. vals = {W(d) : d \in s..seen}
        BY DEF vals
      <3> HIDE DEF W
      <3>3. QED
        BY <2>7, <3>1, <3>2
    <2>12. /\ max \in Nat \ {0} /\ \A v \in vals : v <= max
           /\ most \in Nat
           /\ most > 0 => max = most
      BY <2>10, <2>11, MostIs DEF max
    <2>13. \A c \in cells : /\ at(c).date = CellDate(s, c)
                            /\ at(c).value = V(CellDate(s, c))
                            /\ at(c).value \in vals /\ at(c).value \in 0..max
                            /\ at(c).step = stepFor(at(c).value, max)
      <3> SUFFICES ASSUME NEW c \in cells
                   PROVE  /\ at(c).date = CellDate(s, c)
                          /\ at(c).value = V(CellDate(s, c))
                          /\ at(c).value \in vals /\ at(c).value \in 0..max
                          /\ at(c).step = stepFor(at(c).value, max)
        OBVIOUS
      <3>1. /\ at(c).date = CellDate(s, c)
            /\ at(c).value = V(CellDate(s, c))
            /\ at(c).step = stepFor(at(c).value, max)
        <4>1. c \in CellsOf(s, seen)
          BY <2>5
        <4> HIDE DEF at
        <4>2. at(c) = [date |-> CellDate(s, c), value |-> V(CellDate(s, c)),
                       step |-> stepFor(V(CellDate(s, c)), max)]
          BY <2>6, <4>1
        <4>3. QED
          BY <4>2
      <3>2. at(c).value \in vals
        BY <2>11
      <3> DEFINE v == at(c).value
      <3>a. v \in vals
        BY <3>2
      <3> HIDE DEF v, vals, max
      <3>b. v \in 0..max
        <4>1. v \in Nat
          BY <2>10, <3>a
        <4>2. v <= max /\ max \in Nat
          BY <2>12, <3>a
        <4>3. QED
          BY <4>1, <4>2
      <3>3. at(c).value \in 0..max
        BY <3>b DEF v
      <3>4. QED
        BY <3>1, <3>2, <3>3
    <2> HIDE DEF at, most
    <2>14. ASSUME NEW c \in cells
           PROVE  /\ at(c).step \in 0..5
                  /\ at(c).step = 0 <=> at(c).value = 0
      <3>1. at(c).value \in 0..max /\ at(c).step = stepFor(at(c).value, max)
        BY <2>13
      <3> DEFINE v == at(c).value
      <3>2. v \in 0..max /\ v \in v..max
        BY <3>1, <2>12
      <3> HIDE DEF v
      <3>3. stepFor(v, max) \in 0..5 /\ (stepFor(v, max) = 0 <=> v = 0)
        BY <2>12, <3>2, ColoursFollowCounts
      <3>4. QED
        BY <3>1, <3>3 DEF v
    <2>15. Goal1
      <3> SUFFICES ASSUME NEW i \in 1..Window
                   PROVE  LET here == {c \in cells : at(c).date = Filled[i].date}
                          IN  /\ Cardinality(here) = 1
                              /\ \A c \in here : /\ at(c).value = Filled[i][metric]
                                                 /\ c[2] = getDay(Filled[i].date) + 1
        BY <2>2
      <3> DEFINE d == Filled[i].date
                 here == {c \in cells : at(c).date = d}
      <3>1. d \in s..seen
        <4>1. d = seen + i - Window
          BY <2>2
        <4>2. QED
          BY <2>1, <2>2, <2>4, <4>1
      <3>2. V(d) = Filled[i][metric]
        BY <2>8
      <3>3. PICK c \in cells : CellDate(s, c) = d
        BY <2>7, <3>1
      <3> HIDE DEF d
      <3>4. here = {c}
        BY <2>7, <2>13, <3>3
      <3>5. Cardinality({c}) = 1
        BY FS_Singleton
      <3>6. at(c).value = Filled[i][metric] /\ c[2] = getDay(d) + 1
        BY <2>7, <2>13, <3>2, <3>3
      <3>7. QED
        BY <3>4, <3>5, <3>6 DEF d
    <2>16. Goal2
      <3> SUFFICES ASSUME NEW c \in cells
                   PROVE  /\ at(c).date <= seen
                          /\ at(c).step = 0 <=> at(c).value = 0
                          /\ at(c).value = most /\ most > 0 => at(c).step = 5
        OBVIOUS
      <3>1. at(c).date <= seen
        BY <2>1, <2>4, <2>7, <2>13
      <3>2. ASSUME at(c).value = most, most > 0 PROVE at(c).step = 5
        <4>1. at(c).value = max /\ at(c).step = stepFor(at(c).value, max)
          BY <2>12, <2>13, <3>2
        <4>2. stepFor(max, max) = 5
          <5>1. 0 \in 0..max /\ max \in 0..max
            BY <2>12
          <5>2. QED
            BY <2>12, <5>1, ColoursFollowCounts
        <4>3. QED
          BY <4>1, <4>2
      <3>3. QED
        BY <2>14, <3>1, <3>2
    <2>17. Goal3
      <3> SUFFICES ASSUME NEW b \in cells, NEW c \in cells, at(b).value < at(c).value
                   PROVE  at(b).step <= at(c).step
        OBVIOUS
      <3> DEFINE v == at(b).value
                 w == at(c).value
      <3>1. v \in 0..max /\ w \in v..max
        BY <2>12, <2>13
      <3>2. at(b).step = stepFor(v, max) /\ at(c).step = stepFor(w, max)
        BY <2>13
      <3> HIDE DEF v, w
      <3>3. stepFor(v, max) <= stepFor(w, max)
        BY <2>12, <3>1, ColoursFollowCounts
      <3>4. QED
        BY <3>2, <3>3
    <2>18. QED
      BY <2>15, <2>16, <2>17
  <1>2. QED
    BY <1>1 DEF CalendarAgrees

-----------------------------------------------------------------------------
(***************************************************************************)
(* Numbers of one page from different queries.                             *)
(***************************************************************************)
LEMMA RollupNumbers ==
    ASSUME ClockOK, RowsOK, NEW d, NEW m \in Metrics
    PROVE  Rollup(d)[m] \in Nat
  <1>1. Rollup(d) \in [date : {d}, keys : Nat, clicks : Nat, minutes : Nat]
    BY RollupType DEF StatOf
  <1>2. m \in {"keys", "clicks", "minutes"}
    BY DEF Metrics
  <1>3. QED
    BY <1>1, <1>2

LEMMA HistoryIs ==
    /\ DOMAIN History = {d \in RollupDays : d >= UtcDate - (Window - 1)}
    /\ \A d \in DOMAIN History : History[d] = Rollup(d)
  BY DEF History

LEMMA UtcDateIs ==
    ASSUME ClockOK
    PROVE  UtcDate \in Int
  <1>1. now + 0 \in Int /\ HoursPerDay \in Nat \ {0}
    BY DayConstants DEF ClockOK
  <1>2. QED
    BY <1>1, Division DEF UtcDate, toLocalISODate

LEMMA DaysWithRows ==
    ASSUME ClockOK, RowsOK, NEW d \in RollupDays
    PROVE  d \in Int /\ -1 <= d /\ d <= Today
  <1>1. PICK r \in DOMAIN rows : d = toLocalISODate(r[1], offset)
    BY DEF RollupDays
  <1>2. d \in Int /\ d <= Today /\ r[1] \in Int /\ 0 <= r[1]
    BY <1>1, RowIs
  <1>3. HoursPerDay \in Nat \ {0} /\ offset \in Int /\ 1 - HoursPerDay <= offset
    BY DayConstants DEF ClockOK
  <1> DEFINE q == (-1) * HoursPerDay
  <1>4. q = -HoursPerDay /\ (-1 + 1) * HoursPerDay = 0 /\ q \in Int
    BY <1>3
  <1>5. q \div HoursPerDay = -1
    BY <1>3, <1>4, Quotient
  <1> HIDE DEF q
  <1>6. q \div HoursPerDay <= (r[1] + offset) \div HoursPerDay
    <2>1. r[1] + offset \in Int /\ q <= r[1] + offset
      BY <1>2, <1>3, <1>4
    <2>2. QED
      BY <1>3, <1>4, <2>1, DivisionOrder
  <1>7. QED
    BY <1>1, <1>2, <1>5, <1>6 DEF toLocalISODate

\* What fills the window when the history is up to date.
LEMMA FreshWindow ==
    ASSUME DayInv, Fresh(HistoryKey)
    PROVE  /\ seen = Today /\ seen \in Int /\ Window \in Nat
           /\ DOMAIN Filled = 1..Window
           /\ \A i \in 1..Window :
                 LET d == seen + i - Window
                 IN  /\ Filled[i].date = d /\ Filled[i] \in DayStat
                     /\ d \in DOMAIN History => Filled[i] = Rollup(d)
                     /\ d \notin DOMAIN History => Filled[i] = NoActivity(d)
  <1>1. Loaded(HistoryKey) /\ seen = Today /\ seen \in Int /\ Window \in Nat
    BY DayConstants DEF Fresh, DayInv, ViewOK
  <1>2. cache[HistoryKey] = History
    BY DEF Fresh, Answer, HistoryKey
  <1>3. Filled = fillDays(History, seen, Window)
    BY <1>1, <1>2, FilledIs
  <1>4. DOMAIN Filled = 1..Window /\ \A i \in 1..Window : Filled[i].date = seen + i - Window /\ Filled[i] \in DayStat
    BY <1>1, FilledIs
  <1>5. ASSUME NEW i \in 1..Window
        PROVE  LET d == seen + i - Window
               IN  /\ d \in DOMAIN History => Filled[i] = Rollup(d)
                   /\ d \notin DOMAIN History => Filled[i] = NoActivity(d)
    <2> DEFINE d == seen + i - Window
    <2>1. seen + (i - Window) = d
      BY <1>1
    <2>2. Filled[i] = IF d \in DOMAIN History THEN History[d] ELSE NoActivity(d)
      BY <1>3, <2>1 DEF fillDays, shiftLocalDate
    <2>3. QED
      BY <2>2, HistoryIs
  <1>6. QED
    BY <1>1, <1>4, <1>5

\* A column summed over entries of the window is summed over the days they are
\* of and that have rows.
LEMMA WindowSum ==
    ASSUME DayInv, Fresh(HistoryKey), NEW m \in Metrics, NEW I \in SUBSET (1..Window)
    PROVE  LET D == {d \in DOMAIN History : \E i \in I : d = seen + i - Window}
           IN  /\ IsFiniteSet(D)
               /\ FilledSum(m, I) = SumOn([d \in D |-> Rollup(d)[m]], D)
  <1> DEFINE D == {d \in DOMAIN History : \E i \in I : d = seen + i - Window}
             h == [i \in DOMAIN Filled |-> Filled[i][m]]
             g == [i \in I |-> seen + i - Window]
             f == [d \in Int |-> IF d \in DOMAIN History THEN Rollup(d)[m] ELSE 0]
             k == [d \in D |-> Rollup(d)[m]]
             all == {g[i] : i \in I}
  <1>0. ClockOK /\ RowsOK
    BY DEF DayInv
  <1>1. /\ seen \in Int /\ Window \in Nat /\ DOMAIN Filled = 1..Window
        /\ \A i \in 1..Window :
              LET d == seen + i - Window
              IN  /\ d \in DOMAIN History => Filled[i] = Rollup(d)
                  /\ d \notin DOMAIN History => Filled[i] = NoActivity(d)
    BY FreshWindow
  <1>a. IsFiniteSet(1..Window)
    BY <1>1, FS_Interval
  <1>2. IsFiniteSet(I)
    BY <1>a, FS_Subset
  <1>3. \A d \in Int : f[d] \in Nat /\ (d \notin DOMAIN History => f[d] = 0)
    BY <1>0, RollupNumbers
  <1>4. ASSUME NEW i \in I
        PROVE  h[i] \in Int /\ h[i] = f[g[i]]
    <2> DEFINE d == seen + i - Window
    <2>1. i \in 1..Window /\ d \in Int /\ g[i] = d
      BY <1>1
    <2>2. h[i] = Filled[i][m]
      BY <1>1, <2>1
    <2>3. CASE d \in DOMAIN History
      <3>1. Filled[i] = Rollup(d)
        BY <1>1, <2>1, <2>3
      <3>2. f[d] = Rollup(d)[m]
        BY <2>1, <2>3
      <3>3. QED
        BY <1>3, <2>1, <2>2, <3>1, <3>2
    <2>4. CASE d \notin DOMAIN History
      <3>1. Filled[i] = NoActivity(d)
        BY <1>1, <2>1, <2>4
      <3>2. NoActivity(d)[m] = 0
        BY DEF NoActivity, Metrics
      <3>3. f[d] = 0
        BY <1>3, <2>1, <2>4
      <3>4. QED
        BY <2>1, <2>2, <3>1, <3>2, <3>3
    <2>5. QED
      BY <2>3, <2>4
  <1>5. \A i, j \in I : g[i] = g[j] => i = j
    BY <1>1
  <1>b. \A i \in I : g[i] = seen + i - Window /\ g[i] \in Int
    BY <1>1
  <1>6. all \subseteq Int /\ D \in SUBSET all /\ \A d \in all \ D : d \notin DOMAIN History
    <2> HIDE DEF g
    <2>1. all \subseteq Int
      BY <1>b
    <2>2. D \subseteq all
      BY <1>b
    <2>3. \A d \in all \ D : d \notin DOMAIN History
      BY <1>b
    <2>4. QED
      BY <2>1, <2>2, <2>3
  <1>7. IsFiniteSet(all)
    <2> HIDE DEF g
    <2>1. QED
      BY <1>2, FiniteImage
  <1>8. IsFiniteSet(D)
    BY <1>6, <1>7, FS_Subset
  <1>9. \A d \in D : f[d] \in Int /\ f[d] = k[d]
    <2>1. D \subseteq Int /\ D \subseteq DOMAIN History
      BY <1>6
    <2>2. QED
      BY <1>3, <2>1
  <1>c. g \in [I -> all]
    OBVIOUS
  <1> HIDE DEF h, f, g, k
  <1>10. SumOn(h, I) = SumOn(f, all)
    <2> DEFINE J == I
    <2>1. /\ IsFiniteSet(J) /\ g \in Bijection(J, all)
          /\ \A i \in J : h[i] \in Int /\ h[i] = f[g[i]]
      BY <1>2, <1>4, <1>5, <1>c DEF Bijection, Injection, IsInjective, Surjection
    <2> HIDE DEF J, all
    <2>2. SumOn(h, J) = SumOn(f, all)
      BY <2>1, SumRenamed
    <2>3. QED
      BY <2>2 DEF J
  <1>11. SumOn(f, D) = SumOn(f, all)
    <2>1. (\A d \in all : f[d] \in Nat) /\ \A d \in all \ D : f[d] = 0
      BY <1>3, <1>6
    <2> HIDE DEF D, all
    <2>2. QED
      BY <1>6, <1>7, <2>1, SumSubset
  <1>12. SumOn(f, D) = SumOn(k, D)
    <2> HIDE DEF D
    <2>1. QED
      BY <1>8, <1>9, SumAgree
  <1>13. FilledSum(m, I) = SumOn(h, I)
    BY DEF FilledSum, h
  <1>14. QED
    BY <1>8, <1>10, <1>11, <1>12, <1>13 DEF k

\* The days a range tab's totals are over.
Since(range) == {d \in RollupDays : d >= rangeStart(range)}

LEMMA StatsSum ==
    ASSUME NEW range, NEW m \in Metrics
    PROVE  /\ Stats(range)[m] = SumOn([d \in Since(range) |-> Rollup(d)[m]], Since(range))
           /\ Stats(range).days = Cardinality({d \in Since(range) : ~Quiet(Rollup(d))})
           /\ Stats(range).current = streak.current
           /\ Stats(range).longest = streak.longest
  <1> DEFINE sum(k) == SumOn([d \in Since(range) |-> Rollup(d)[k]], Since(range))
  <1>1. Stats(range) =
            [keys |-> sum("keys"), clicks |-> sum("clicks"), minutes |-> sum("minutes"),
             days |-> Cardinality({d \in Since(range) : ~Quiet(Rollup(d))}),
             current |-> streak.current, longest |-> streak.longest]
    BY DEF Stats, Since
  <1> HIDE DEF sum
  <1>2. m \in {"keys", "clicks", "minutes"}
    BY DEF Metrics
  <1>3. Stats(range)[m] = sum(m)
    BY <1>1, <1>2
  <1>4. QED
    BY <1>1, <1>3 DEF sum

\* The totals of a tab, when they are up to date.
LEMMA FreshTiles ==
    ASSUME NEW range, page = range, Fresh(StatsKey(range)), NEW tile \in RangeShown.tiles
    PROVE  tile = Stats(range)
  <1>1. tile = cache[StatsKey(page)]
    BY DEF RangeShown
  <1>2. cache[StatsKey(range)] = Stats(range)
    BY DEF Fresh, Answer, StatsKey
  <1>3. QED
    BY <1>1, <1>2

LEMMA WeekTotal ==
    ASSUME DayInv, Fresh(HistoryKey), page = "week", NEW m \in Metrics
    PROVE  Total(ChartDays, m) = FilledSum(m, (Window - WeekDays + 1)..Window)
  <1> DEFINE n == WeekDays
             J == 1..n
             K == (Window - n + 1)..Window
             g == [i \in J |-> Window - n + i]
             h == [i \in DOMAIN ChartDays |-> ChartDays[i][m]]
             f == [i \in DOMAIN Filled |-> Filled[i][m]]
  <1>0. n \in Nat /\ Window \in Nat /\ n <= Window /\ seen \in Int
    BY DayConstants DEF DayInv, ViewOK
  <1>1. /\ Filled \in Seq(DayStat) /\ Len(Filled) = Window /\ DOMAIN Filled = 1..Window
        /\ \A i \in 1..Window : Filled[i] \in DayStat
    BY FilledIs DEF Fresh
  <1>2. ChartDays = [i \in J |-> Filled[Window - n + i]]
    <2>1. ChartDays = LastDays(Filled, n)
      BY DEF ChartDays
    <2>2. QED
      BY <1>0, <1>1, <2>1, LastDaysAre
  <1>3. IsFiniteSet(J)
    BY <1>0, FS_Interval
  <1>4. g \in Bijection(J, K)
    <2>1. g \in [J -> K]
      BY <1>0
    <2>2. \A i, j \in J : g[i] = g[j] => i = j
      BY <1>0
    <2>3. \A k \in K : k - (Window - n) \in J /\ g[k - (Window - n)] = k
      BY <1>0
    <2> HIDE DEF g
    <2>4. g \in Injection(J, K)
      BY <2>1, <2>2 DEF Injection, IsInjective
    <2>5. g \in Surjection(J, K)
      BY <2>1, <2>3 DEF Surjection
    <2>6. QED
      BY <2>4, <2>5 DEF Bijection
  <1>5. ASSUME NEW i \in J
        PROVE  h[i] \in Int /\ h[i] = f[g[i]]
    <2>1. g[i] = Window - n + i /\ g[i] \in 1..Window
      BY <1>0
    <2>2. h[i] = Filled[g[i]][m] /\ f[g[i]] = Filled[g[i]][m]
      BY <1>1, <1>2, <2>1
    <2>3. Filled[g[i]] \in [date : Int, keys : Nat, clicks : Nat, minutes : Nat]
      BY <1>1, <2>1 DEF DayStat
    <2>4. m \in {"keys", "clicks", "minutes"}
      BY DEF Metrics
    <2> HIDE DEF g, h, f
    <2>5. Filled[g[i]][m] \in Nat
      BY <2>3, <2>4
    <2>6. QED
      BY <2>2, <2>5
  <1>6. DOMAIN h = J
    BY <1>2
  <1>7. Total(ChartDays, m) = SumOn(h, J)
    BY <1>6 DEF Total, SumOver
  <1>8. FilledSum(m, K) = SumOn(f, K)
    BY DEF FilledSum
  <1> HIDE DEF g, h, f, J, K
  <1>9. SumOn(h, J) = SumOn(f, K)
    BY <1>3, <1>4, <1>5, SumRenamed
  <1>10. QED
    BY <1>7, <1>8, <1>9 DEF K

LEMMA WeekHolds ==
    ASSUME DayInv
    PROVE  WeekAddsUp
  <1> SUFFICES ASSUME page = "week", UtcDate = Today, Fresh(HistoryKey), Fresh(StatsKey("week")),
                      NEW tile \in RangeShown.tiles, NEW m \in Metrics
               PROVE  tile[m] = Total(ChartDays, m)
    BY DEF WeekAddsUp
  <1> DEFINE I == (Window - WeekDays + 1)..Window
             D == {d \in DOMAIN History : \E i \in I : d = seen + i - Window}
  <1>1. tile[m] = SumOn([d \in Since("week") |-> Rollup(d)[m]], Since("week"))
    BY FreshTiles, StatsSum
  <1>2. Total(ChartDays, m) = FilledSum(m, I)
    BY WeekTotal
  <1>3. I \in SUBSET (1..Window)
    BY DayConstants
  <1>4. FilledSum(m, I) = SumOn([d \in D |-> Rollup(d)[m]], D)
    <2> HIDE DEF I
    <2>1. QED
      BY <1>3, WindowSum
  <1>5. D = Since("week")
    <2>1. seen = Today /\ seen \in Int /\ Window \in Nat
      BY FreshWindow
    <2>2. WeekDays \in Nat \ {0} /\ WeekDays < Window
      BY DayConstants
    <2>3. \A d \in RollupDays : d \in Int /\ d <= seen
      BY <2>1, DaysWithRows DEF DayInv
    <2>4. rangeStart("week") = seen - (WeekDays - 1)
      BY <2>1 DEF rangeStart
    <2>5. ASSUME NEW d \in Since("week") PROVE d \in D
      <3>1. d \in RollupDays /\ d \in Int /\ d <= seen /\ d >= seen - (WeekDays - 1)
        BY <2>3, <2>4 DEF Since
      <3>2. d \in DOMAIN History
        BY <2>1, <2>2, <3>1, HistoryIs
      <3> DEFINE i == d - seen + Window
      <3>3. i \in I /\ d = seen + i - Window
        BY <2>1, <2>2, <3>1
      <3>4. QED
        BY <3>2, <3>3
    <2>6. ASSUME NEW d \in D PROVE d \in Since("week")
      <3>1. d \in RollupDays /\ d \in Int
        BY <2>3, HistoryIs
      <3>2. PICK i \in I : d = seen + i - Window
        OBVIOUS
      <3>3. d >= seen - (WeekDays - 1)
        BY <2>1, <2>2, <3>2
      <3>4. QED
        BY <2>4, <3>1, <3>3 DEF Since
    <2>7. QED
      BY <2>5, <2>6
  <1>6. QED
    BY <1>1, <1>2, <1>4, <1>5

-----------------------------------------------------------------------------
\* What one column of the rows of a set of minutes and apps holds.
Column(m) == [r \in DOMAIN rows |-> rows[r][m]]

Shown == {"keys", "clicks"}

LEMMA ColumnIs ==
    ASSUME ClockOK, RowsOK, NEW m \in Shown
    PROVE  /\ \A r \in DOMAIN rows : Column(m)[r] \in Int /\ Column(m)[r] \in Nat
           /\ \A of : Counted(m, of) = SumOn(Column(m), of)
           /\ \A of \in SUBSET DOMAIN rows : Counted(m, of) \in Nat
  <1>1. \A r \in DOMAIN rows : Column(m)[r] \in Int /\ Column(m)[r] \in Nat
    BY RowIs DEF Column, Shown
  <1>2. \A of : Counted(m, of) = SumOn(Column(m), of)
    BY DEF Counted, Column
  <1>3. \A of \in SUBSET DOMAIN rows : Counted(m, of) \in Nat
    BY CountedIs DEF Shown
  <1>4. QED
    BY <1>1, <1>2, <1>3

\* A day with an active row has numbers.
LEMMA ActiveIsNotQuiet ==
    ASSUME ClockOK, RowsOK, NEW of \in SUBSET DOMAIN rows,
           NEW r \in of, HasActivity(rows[r])
    PROVE  Counted("keys", of) # 0 \/ Counted("clicks", of) # 0
  <1>1. IsFiniteSet(of) /\ "keys" \in Shown /\ "clicks" \in Shown
    BY CountedIs DEF Shown
  <1>2. ASSUME NEW m \in Shown, rows[r][m] > 0
        PROVE  Counted(m, of) # 0
    <2> DEFINE f == Column(m)
    <2>1. \A x \in of : f[x] \in Int /\ f[x] \in Nat
      BY ColumnIs
    <2>2. f[r] = rows[r][m] /\ f[r] \in Nat
      BY <2>1 DEF Column
    <2>3. Counted(m, of) = SumOn(f, of)
      BY ColumnIs
    <2> HIDE DEF f
    <2>4. SumOn(f, of) = f[r] + SumOn(f, of \ {r})
      BY <1>1, <2>1, SumTakeOut
    <2>5. IsFiniteSet(of \ {r})
      BY <1>1, FS_RemoveElement
    <2>6. SumOn(f, of \ {r}) \in Int /\ SumOn(f, of \ {r}) >= 0
      BY <2>1, <2>5, SumType
    <2>7. QED
      BY <1>2, <2>2, <2>3, <2>4, <2>6
  <1>3. QED
    BY <1>1, <1>2 DEF HasActivity

LEMMA ActiveDaysShow ==
    ASSUME ClockOK, RowsOK
    PROVE  ActiveDays \in SUBSET {d \in RollupDays : ~Quiet(Rollup(d))}
  <1> SUFFICES ASSUME NEW d \in ActiveDays PROVE d \in RollupDays /\ ~Quiet(Rollup(d))
    OBVIOUS
  <1> DEFINE mine == {r \in DOMAIN rows : toLocalISODate(r[1], offset) = d}
  <1>1. PICK r \in DOMAIN rows : HasActivity(rows[r]) /\ toLocalISODate(r[1], offset) = d
    BY DEF ActiveDays
  <1>2. Counted("keys", mine) # 0 \/ Counted("clicks", mine) # 0
    <2>1. mine \in SUBSET DOMAIN rows /\ r \in mine
      BY <1>1
    <2> HIDE DEF mine
    <2>2. QED
      BY <1>1, <2>1, ActiveIsNotQuiet
  <1>3. Rollup(d).keys = Counted("keys", mine) /\ Rollup(d).clicks = Counted("clicks", mine)
    BY DEF Rollup
  <1>4. QED
    BY <1>2, <1>3, ActiveDaySet DEF Quiet

LEMMA StreakLength ==
    ASSUME ClockOK, RowsOK, StreakOK
    PROVE  /\ streak.current <= streak.longest
           /\ streak.longest <= Cardinality(ActiveDays) /\ streak.longest \in Nat
  <1>1. /\ streak \in StreakRow(ActiveDays) /\ Happened(streak, ActiveDays)
        /\ streak.current <= streak.longest
    BY DEF StreakOK, StreakTrue
  <1>2. IsFiniteSet(ActiveDays) /\ ActiveDays \subseteq Int
    BY ActiveDaySet DEF DaySet
  <1>3. Cardinality(ActiveDays) \in Nat
    BY <1>2, FS_CardinalityType
  <1>4. CASE streak = NoStreak
    <2>1. streak.current = 0 /\ streak.longest = 0
      BY <1>4 DEF NoStreak
    <2>2. QED
      BY <1>3, <2>1
  <1>5. CASE streak # NoStreak
    <2>1. streak.longest \in Nat \ {0}
      BY <1>1, <1>5, StreakFields
    <2>2. PICK d \in ActiveDays : IsRun(ActiveDays, d, streak.longest)
      BY <1>1, <1>5 DEF Happened
    <2> DEFINE n == streak.longest
               a == d - n + 1
    <2>3. d \in Int /\ a \in Int /\ a..d \in SUBSET ActiveDays
      BY <1>2, <2>1, <2>2 DEF IsRun
    <2> HIDE DEF a
    <2>4. Cardinality(a..d) <= Cardinality(ActiveDays)
      <3> DEFINE run == a..d
      <3>1. run \in SUBSET ActiveDays
        BY <2>3
      <3> HIDE DEF run
      <3>2. Cardinality(run) <= Cardinality(ActiveDays)
        BY <1>2, <3>1, FS_Subset
      <3>3. QED
        BY <3>2 DEF run
    <2>5. Cardinality(a..d) = n
      BY <2>1, <2>3, FS_Interval DEF a
    <2>6. QED
      BY <1>1, <2>1, <2>4, <2>5
  <1>6. QED
    BY <1>4, <1>5

LEMMA ProfileHolds ==
    ASSUME DayInv
    PROVE  ProfileAddsUp
  <1> SUFFICES ASSUME page = "profile", Fresh(HistoryKey), Fresh(StatsKey("all")),
                      NEW tile \in ProfileShown.tiles
               PROVE  /\ \A m \in Metrics : Total(Filled, m) <= tile[m]
                      /\ Cardinality({i \in DOMAIN Filled : ~Quiet(Filled[i])}) <= tile.days
                      /\ tile.current <= tile.longest /\ tile.longest <= tile.days
    BY DEF ProfileAddsUp
  <1>0. ClockOK /\ RowsOK /\ StreakOK
    BY DEF DayInv
  <1>1. tile = Stats("all")
    <2>1. tile = cache[StatsKey("all")]
      BY DEF ProfileShown
    <2>2. QED
      BY <2>1 DEF Fresh, Answer, StatsKey
  <1>2. Since("all") = RollupDays
    BY <1>0, DaysWithRows DEF Since, rangeStart
  <1>3. IsFiniteSet(RollupDays)
    BY <1>0, RollupDaySet DEF DaySet
  <1>4. /\ seen \in Int /\ Window \in Nat /\ DOMAIN Filled = 1..Window
        /\ \A i \in 1..Window :
              LET d == seen + i - Window
              IN  /\ d \in DOMAIN History => Filled[i] = Rollup(d)
                  /\ d \notin DOMAIN History => Filled[i] = NoActivity(d)
    BY FreshWindow
  <1>5. ASSUME NEW m \in Metrics
        PROVE  Total(Filled, m) <= tile[m]
    <2> DEFINE J == 1..Window
               D == {d \in DOMAIN History : \E i \in J : d = seen + i - Window}
               k == [d \in D |-> Rollup(d)[m]]
               f == [d \in RollupDays |-> Rollup(d)[m]]
    <2>1. Total(Filled, m) = FilledSum(m, J)
      BY <1>4 DEF Total, FilledSum, SumOver
    <2>2. IsFiniteSet(D) /\ FilledSum(m, J) = SumOn(k, D)
      <3>1. J \in SUBSET (1..Window)
        OBVIOUS
      <3> HIDE DEF J
      <3>2. QED
        BY <3>1, WindowSum
    <2>3. D \in SUBSET RollupDays
      BY HistoryIs
    <2>4. \A d \in RollupDays : f[d] \in Nat
      BY <1>0, RollupNumbers
    <2>5. \A d \in D : k[d] \in Int /\ k[d] = f[d]
      BY <1>0, <2>3, RollupNumbers
    <2>6. tile[m] = SumOn(f, RollupDays)
      BY <1>1, <1>2, StatsSum
    <2> HIDE DEF D, k, f
    <2>7. SumOn(k, D) = SumOn(f, D)
      BY <2>2, <2>5, SumAgree
    <2>8. SumOn(f, D) <= SumOn(f, RollupDays)
      BY <1>3, <2>3, <2>4, SumSubset
    <2>9. QED
      BY <2>1, <2>2, <2>6, <2>7, <2>8
  <1>6. tile.days = Cardinality({d \in RollupDays : ~Quiet(Rollup(d))})
    <2>1. "keys" \in Metrics
      BY DEF Metrics
    <2>2. QED
      BY <1>1, <1>2, <2>1, StatsSum
  <1>7. Cardinality({i \in DOMAIN Filled : ~Quiet(Filled[i])}) <= tile.days
    <2> DEFINE A == {i \in DOMAIN Filled : ~Quiet(Filled[i])}
               g == [i \in A |-> seen + i - Window]
               T == {d \in RollupDays : ~Quiet(Rollup(d))}
    <2>1. A \in SUBSET (1..Window)
      BY <1>4
    <2>2. IsFiniteSet(T)
      BY <1>3, FS_Subset
    <2>3. g \in [A -> T]
      <3> SUFFICES ASSUME NEW i \in A PROVE seen + i - Window \in T
        OBVIOUS
      <3> DEFINE d == seen + i - Window
      <3>1. i \in 1..Window /\ ~Quiet(Filled[i])
        BY <2>1
      <3>2. d \in DOMAIN History
        BY <1>4, <3>1, QuietNumbers
      <3>3. Filled[i] = Rollup(d) /\ d \in RollupDays
        BY <1>4, <3>1, <3>2, HistoryIs
      <3>4. QED
        BY <3>1, <3>3
    <2>4. \A i, j \in A : g[i] = g[j] => i = j
      BY <1>4, <2>1
    <2> HIDE DEF A, g, T
    <2>5. g \in Injection(A, T)
      BY <2>3, <2>4 DEF Injection, IsInjective
    <2>6. Cardinality(A) <= Cardinality(T)
      BY <2>2, <2>5, FS_Injection
    <2>7. tile.days = Cardinality(T)
      BY <1>6 DEF T
    <2>8. QED
      BY <2>6, <2>7 DEF A
  <1>8. tile.current <= tile.longest /\ tile.longest <= tile.days
    <2> DEFINE T == {d \in RollupDays : ~Quiet(Rollup(d))}
    <2>1. "keys" \in Metrics
      BY DEF Metrics
    <2>2. tile.current = streak.current /\ tile.longest = streak.longest
      BY <1>1, <2>1, StatsSum
    <2>3. ActiveDays \in SUBSET T /\ IsFiniteSet(T)
      BY <1>0, <1>3, ActiveDaysShow, FS_Subset
    <2>4. tile.days = Cardinality(T)
      BY <1>6
    <2> HIDE DEF T
    <2>5. /\ IsFiniteSet(ActiveDays) /\ Cardinality(ActiveDays) <= Cardinality(T)
          /\ Cardinality(ActiveDays) \in Nat /\ Cardinality(T) \in Nat
      BY <2>3, FS_Subset, FS_CardinalityType
    <2>6. /\ streak.current <= streak.longest /\ streak.longest <= Cardinality(ActiveDays)
          /\ streak.longest \in Nat
      BY <1>0, StreakLength
    <2>7. QED
      BY <2>2, <2>4, <2>5, <2>6
  <1>9. QED
    BY <1>5, <1>7, <1>8

-----------------------------------------------------------------------------
\* The selected day's entry of the window.
LEMMA SelectedIs ==
    ASSUME DayInv, Fresh(HistoryKey), page = "today", day # {}
    PROVE  /\ selectedIndex \in 1..Window
           /\ selected = seen + selectedIndex - Window
           /\ day = {Filled[selectedIndex]}
  <1>1. DOMAIN Filled = 1..Window /\ \A i \in 1..Window : Filled[i].date = seen + i - Window
    BY FreshWindow
  <1>2. \E i \in DOMAIN Filled : Filled[i].date = selected
    <2>1. ASSUME ~ \E i \in DOMAIN Filled : Filled[i].date = selected PROVE FALSE
      <3>1. selectedIndex = 0
        BY <2>1 DEF selectedIndex
      <3>2. QED
        BY <3>1 DEF day
    <2>2. QED
      BY <2>1
  <1>3. selectedIndex \in DOMAIN Filled /\ Filled[selectedIndex].date = selected
    BY <1>2 DEF selectedIndex
  <1>4. selectedIndex # 0
    BY <1>1, <1>3
  <1>5. day = {Filled[selectedIndex]}
    BY <1>4 DEF day
  <1>6. QED
    BY <1>1, <1>3, <1>5

LEMMA TrailingHolds ==
    ASSUME DayInv
    PROVE  TrailingAddsUp
  <1> DEFINE active == {d \in RollupDays : /\ d < selected /\ d >= selected - WeekDays
                                           /\ d > seen - Window /\ d > UtcDate - Window
                                           /\ ~Quiet(Rollup(d))}
             total == SumOn([d \in active |-> Rollup(d).keys], active)
  <1> SUFFICES ASSUME page = "today", Fresh(HistoryKey), day # {}
               PROVE  trailingWeekAvg = IF active = {} THEN 0 ELSE Rounded(total, Cardinality(active))
    BY DEF TrailingAddsUp
  <1>0. ClockOK /\ RowsOK
    BY DEF DayInv
  <1>1. /\ selectedIndex \in 1..Window /\ selected = seen + selectedIndex - Window
    BY SelectedIs
  <1>2. /\ seen \in Int /\ Window \in Nat /\ DOMAIN Filled = 1..Window
        /\ \A i \in 1..Window :
              LET d == seen + i - Window
              IN  /\ d \in DOMAIN History => Filled[i] = Rollup(d)
                  /\ d \notin DOMAIN History => Filled[i] = NoActivity(d)
    BY FreshWindow
  <1>3. WeekDays \in Nat /\ UtcDate \in Int
    BY <1>0, DayConstants, UtcDateIs
  <1> DEFINE week == {i \in DOMAIN Filled : i < selectedIndex /\ i >= selectedIndex - WeekDays}
             I == {i \in week : ~Quiet(Filled[i])}
             D == {d \in DOMAIN History : \E i \in I : d = seen + i - Window}
             g == [i \in I |-> seen + i - Window]
  <1>4. trailingWeekAvg = IF I = {} THEN 0 ELSE Rounded(FilledSum("keys", I), Cardinality(I))
    BY DEF trailingWeekAvg
  <1>5. I \in SUBSET (1..Window)
    BY <1>2
  <1>6. ASSUME NEW i \in I
        PROVE  seen + i - Window \in active
    <2> DEFINE d == seen + i - Window
    <2>1. i \in 1..Window /\ i < selectedIndex /\ i >= selectedIndex - WeekDays /\ ~Quiet(Filled[i])
      BY <1>2
    <2>2. d \in DOMAIN History
      BY <1>2, <2>1, QuietNumbers
    <2>3. Filled[i] = Rollup(d) /\ d \in RollupDays /\ d >= UtcDate - (Window - 1)
      BY <1>2, <2>1, <2>2, HistoryIs
    <2>4. d \in Int /\ d < selected /\ d >= selected - WeekDays /\ d > seen - Window
      BY <1>1, <1>2, <1>3, <2>1
    <2>5. d > UtcDate - Window
      BY <1>2, <1>3, <2>3, <2>4
    <2>6. QED
      BY <2>1, <2>3, <2>4, <2>5
  <1>7. ASSUME NEW d \in active
        PROVE  /\ d \in DOMAIN History
               /\ \E i \in I : d = seen + i - Window
    <2>1. d \in RollupDays /\ d \in Int
      BY <1>0, DaysWithRows
    <2>2. /\ d < selected /\ d >= selected - WeekDays /\ d > seen - Window /\ d > UtcDate - Window
          /\ ~Quiet(Rollup(d))
      OBVIOUS
    <2>3. d \in DOMAIN History
      <3>1. d >= UtcDate - (Window - 1)
        BY <1>2, <1>3, <2>1, <2>2
      <3>2. QED
        BY <2>1, <3>1, HistoryIs
    <2> DEFINE i == d - seen + Window
    <2>4. /\ i \in 1..Window /\ d = seen + i - Window
          /\ i < selectedIndex /\ i >= selectedIndex - WeekDays
      BY <1>1, <1>2, <1>3, <2>1, <2>2
    <2>5. Filled[i] = Rollup(d)
      BY <1>2, <2>3, <2>4
    <2>6. i \in I
      BY <1>2, <2>2, <2>4, <2>5
    <2>7. QED
      BY <2>3, <2>4, <2>6
  <1>8. D = active
    <2> HIDE DEF active, I
    <2>1. QED
      BY <1>6, <1>7
  <1>9. I = {} <=> active = {}
    <2> HIDE DEF active, I
    <2>1. QED
      BY <1>6, <1>7
  <1>10. FilledSum("keys", I) = total
    <2>1. "keys" \in Metrics
      BY DEF Metrics
    <2> HIDE DEF I, active
    <2>2. FilledSum("keys", I) = SumOn([d \in D |-> Rollup(d)["keys"]], D)
      BY <1>5, <2>1, WindowSum
    <2>3. QED
      BY <1>8, <2>2
  <1>11. Cardinality(I) = Cardinality(active)
    <2>1. IsFiniteSet(I)
      <3>1. IsFiniteSet(1..Window)
        BY <1>2, FS_Interval
      <3> HIDE DEF I
      <3>2. QED
        BY <1>5, <3>1, FS_Subset
    <2>2. \A i, j \in I : g[i] = g[j] => i = j
      BY <1>2, <1>5
    <2> HIDE DEF I, active
    <2>3. g \in [I -> active]
      BY <1>6
    <2>4. \A d \in active : \E i \in I : g[i] = d
      BY <1>7
    <2> HIDE DEF g
    <2>5. g \in Bijection(I, active)
      BY <2>2, <2>3, <2>4 DEF Bijection, Injection, IsInjective, Surjection
    <2>6. ExistsBijection(I, active)
      BY <2>5 DEF ExistsBijection
    <2>7. QED
      BY <2>1, <2>6, FS_Bijection
  <1>12. QED
    BY <1>4, <1>9, <1>10, <1>11

-----------------------------------------------------------------------------
(***************************************************************************)
(* The three sections of DayView.                                          *)
(***************************************************************************)
\* The window of a local day holds the rows filed under it.
LEMMA RowsOfDayAre ==
    ASSUME ClockOK, RowsOK, NEW d \in Int
    PROVE  /\ RowsOfDay(d) = {r \in DOMAIN rows : toLocalISODate(r[1], offset) = d}
           /\ RowsOfDay(d) \in SUBSET DOMAIN rows
           /\ IsFiniteSet(RowsOfDay(d))
           /\ IsFiniteSet({r[1] : r \in RowsOfDay(d)})
           /\ IsFiniteSet({r[2] : r \in RowsOfDay(d)})
  <1> DEFINE S == RowsOfDay(d)
             g == [r \in S |-> r[1]]
             h == [r \in S |-> r[2]]
  <1>1. RowsOfDay(d) = {r \in DOMAIN rows : toLocalISODate(r[1], offset) = d}
    <2>1. \A r \in DOMAIN rows : r[1] \in Int
      BY RowIs
    <2>2. offset \in Int
      BY TodayIs
    <2>3. \A r \in DOMAIN rows : toLocalISODate(r[1], offset) = d
             <=> r[1] >= localDayBounds(d, offset).since /\ r[1] < localDayBounds(d, offset).until
      <3>1. /\ localDayBounds(d, offset).since \in Int
            /\ localDayBounds(d, offset).until \in Int
        BY <2>2, DayConstants DEF localDayBounds
      <3>2. \A r \in DOMAIN rows : toLocalISODate(r[1], offset) = d
               <=> localDayBounds(d, offset).since <= r[1] /\ r[1] < localDayBounds(d, offset).until
        BY <2>1, <2>2, WindowIsTheDay
      <3>3. QED
        BY <2>1, <3>1, <3>2
    <2>4. QED
      BY <2>3 DEF RowsOfDay
  <1>2. S \in SUBSET DOMAIN rows
    BY <1>1
  <1>3. IsFiniteSet(S)
    BY <1>2, FS_Subset DEF RowsOK
  <1>4. {g[r] : r \in S} = {r[1] : r \in S} /\ {h[r] : r \in S} = {r[2] : r \in S}
    OBVIOUS
  <1> HIDE DEF g, h, S
  <1>5. IsFiniteSet({g[r] : r \in S}) /\ IsFiniteSet({h[r] : r \in S})
    BY <1>3, FiniteImage
  <1>6. QED
    BY <1>1, <1>2, <1>3, <1>4, <1>5 DEF S

\* The numbers of a day's rows are those of its minutes and of its apps.
LEMMA MinutesAddUp ==
    ASSUME ClockOK, RowsOK, NEW d \in Int, NEW m \in Shown, NEW P,
           \A t \in {r[1] : r \in RowsOfDay(d)} : P[t] = Counted(m, {r \in RowsOfDay(d) : r[1] = t})
    PROVE  SumOn(P, {r[1] : r \in RowsOfDay(d)}) = Counted(m, RowsOfDay(d))
  <1> DEFINE S == RowsOfDay(d)
             T == {r[1] : r \in S}
             g == [r \in S |-> r[1]]
             f == Column(m)
  <1>1. /\ S \in SUBSET DOMAIN rows /\ IsFiniteSet(S) /\ IsFiniteSet(T)
    BY RowsOfDayAre
  <1>2. \A r \in S : f[r] \in Int
    BY <1>1, ColumnIs
  <1>3. g \in [S -> T]
    OBVIOUS
  <1>4. \A t \in T : P[t] = SumOn(f, Fibre(g, S, t))
    <2> SUFFICES ASSUME NEW t \in T PROVE P[t] = SumOn(f, Fibre(g, S, t))
      OBVIOUS
    <2>1. Fibre(g, S, t) = {r \in S : r[1] = t}
      BY DEF Fibre
    <2>2. P[t] = Counted(m, {r \in S : r[1] = t})
      OBVIOUS
    <2> HIDE DEF f, g
    <2>3. QED
      BY <2>1, <2>2, ColumnIs DEF f
  <1> HIDE DEF f, g, T, S
  <1>5. SumOn(P, T) = SumOn(f, S)
    BY <1>1, <1>2, <1>3, <1>4, SumFibres
  <1>6. Counted(m, S) = SumOn(f, S)
    BY ColumnIs DEF f
  <1>7. QED
    BY <1>5, <1>6 DEF S, T

LEMMA AppsAddUp ==
    ASSUME ClockOK, RowsOK, NEW d \in Int, NEW m \in Shown, NEW K,
           \A a \in {r[2] : r \in RowsOfDay(d)} : K[a] = Counted(m, {r \in RowsOfDay(d) : r[2] = a})
    PROVE  SumOn(K, {r[2] : r \in RowsOfDay(d)}) = Counted(m, RowsOfDay(d))
  <1> DEFINE S == RowsOfDay(d)
             T == {r[2] : r \in S}
             g == [r \in S |-> r[2]]
             f == Column(m)
  <1>1. /\ S \in SUBSET DOMAIN rows /\ IsFiniteSet(S) /\ IsFiniteSet(T)
    BY RowsOfDayAre
  <1>2. \A r \in S : f[r] \in Int
    BY <1>1, ColumnIs
  <1>3. g \in [S -> T]
    OBVIOUS
  <1>4. \A a \in T : K[a] = SumOn(f, Fibre(g, S, a))
    <2> SUFFICES ASSUME NEW a \in T PROVE K[a] = SumOn(f, Fibre(g, S, a))
      OBVIOUS
    <2>1. Fibre(g, S, a) = {r \in S : r[2] = a}
      BY DEF Fibre
    <2>2. K[a] = Counted(m, {r \in S : r[2] = a})
      OBVIOUS
    <2> HIDE DEF f, g
    <2>3. QED
      BY <2>1, <2>2, ColumnIs DEF f
  <1> HIDE DEF f, g, T, S
  <1>5. SumOn(K, T) = SumOn(f, S)
    BY <1>1, <1>2, <1>3, <1>4, SumFibres
  <1>6. Counted(m, S) = SumOn(f, S)
    BY ColumnIs DEF f
  <1>7. QED
    BY <1>5, <1>6 DEF S, T

\* The day's numbers, when its entry is up to date and in the history's range.
LEMMA TileIs ==
    ASSUME DayInv, Fresh(HistoryKey), page = "today", selected >= UtcDate - (Window - 1),
           NEW tile \in day
    PROVE  /\ day = {tile}
           /\ tile.keys = Counted("keys", RowsOfDay(selected))
           /\ tile.clicks = Counted("clicks", RowsOfDay(selected))
           /\ Quiet(tile) <=> tile.keys = 0 /\ tile.clicks = 0
  <1> DEFINE S == RowsOfDay(selected)
             L == {r \in S : HasActivity(rows[r])}
             T == {r[1] : r \in L}
  <1>0. ClockOK /\ RowsOK /\ selected \in Int
    BY DEF DayInv, ViewOK
  <1>1. /\ selectedIndex \in 1..Window /\ selected = seen + selectedIndex - Window
        /\ day = {Filled[selectedIndex]}
    BY SelectedIs
  <1>2. /\ day = {tile} /\ tile = Filled[selectedIndex]
        /\ selected \in DOMAIN History => tile = Rollup(selected)
        /\ selected \notin DOMAIN History => tile = NoActivity(selected)
    BY <1>1, FreshWindow
  <1>3. /\ S = {r \in DOMAIN rows : toLocalISODate(r[1], offset) = selected}
        /\ S \in SUBSET DOMAIN rows
    BY <1>0, RowsOfDayAre
  <1>4. CASE S = {}
    <2>1. selected \notin RollupDays
      BY <1>3, <1>4 DEF RollupDays
    <2>2. tile = NoActivity(selected)
      BY <1>2, <2>1, HistoryIs
    <2>3. Counted("keys", {}) = 0 /\ Counted("clicks", {}) = 0
      BY SumEmpty DEF Counted
    <2>4. tile.keys = 0 /\ tile.clicks = 0 /\ Quiet(tile)
      BY <2>2 DEF NoActivity, Quiet
    <2>5. QED
      BY <1>2, <1>4, <2>3, <2>4
  <1>5. CASE S # {}
    <2>1. selected \in RollupDays
      BY <1>3, <1>5 DEF RollupDays
    <2>2. tile = Rollup(selected)
      BY <1>2, <2>1, HistoryIs
    <2>3. tile = [date |-> selected, keys |-> Counted("keys", S), clicks |-> Counted("clicks", S),
                  minutes |-> Cardinality(T)]
      BY <1>3, <2>2 DEF Rollup
    <2>4. tile.keys = 0 /\ tile.clicks = 0 => L = {}
      <3> HIDE DEF S
      <3>1. QED
        BY <1>0, <1>3, <2>3, ActiveIsNotQuiet
    <2>5. L = {} => Cardinality(T) = 0
      <3>1. L = {} => T = {}
        OBVIOUS
      <3>2. QED
        BY <3>1, FS_EmptySet
    <2> HIDE DEF T, L, S
    <2>6. Quiet(tile) <=> tile.keys = 0 /\ tile.clicks = 0
      BY <2>3, <2>4, <2>5 DEF Quiet
    <2>7. QED
      BY <1>2, <2>3, <2>6 DEF S
  <1>6. QED
    BY <1>4, <1>5

\* The hours of the timeline.
LEMMA HoursAddUp ==
    ASSUME ClockOK, RowsOK, NEW d \in Int, NEW m \in Shown
    PROVE  LET hours == bucketByLocalHour(DayBuckets(d), offset)
           IN  /\ DOMAIN hours = 0..(HoursPerDay - 1)
               /\ \A h \in DOMAIN hours : hours[h][m] \in Nat
               /\ Total(hours, m) = Counted(m, RowsOfDay(d))
  <1> DEFINE S == RowsOfDay(d)
             T == {r[1] : r \in S}
             points == DayBuckets(d)
             hours == bucketByLocalHour(points, offset)
             P == [t \in DOMAIN points |-> points[t][m]]
             H == 0..(HoursPerDay - 1)
             g == [t \in T |-> getHours(t, offset)]
             F == [h \in DOMAIN hours |-> hours[h][m]]
  <1>1. S \in SUBSET DOMAIN rows /\ IsFiniteSet(S) /\ IsFiniteSet(T)
    BY RowsOfDayAre
  <1>2. DOMAIN points = T
    BY DEF DayBuckets
  <1>3. ASSUME NEW t \in T
        PROVE  P[t] = Counted(m, {r \in S : r[1] = t}) /\ P[t] \in Nat
    <2> DEFINE minute == {r \in S : r[1] = t}
    <2>1. points[t] = [keys |-> Counted("keys", minute), clicks |-> Counted("clicks", minute)]
      BY DEF DayBuckets
    <2>2. minute \in SUBSET DOMAIN rows
      BY <1>1
    <2>3. P[t] = points[t][m]
      BY <1>2
    <2> HIDE DEF minute, points, P
    <2>4. P[t] = Counted(m, minute)
      BY <2>1, <2>3 DEF Shown
    <2>5. Counted(m, minute) \in Nat
      BY <2>2, ColumnIs
    <2>6. QED
      BY <2>4, <2>5 DEF minute
  <1>a. \A t \in T : P[t] \in Nat
    BY <1>3
  <1>b. \A t \in T : P[t] \in Int /\ P[t] >= 0
    <2> HIDE DEF P, T
    <2>1. QED
      BY <1>a
  <1>4. DOMAIN hours = H
    BY DEF bucketByLocalHour
  <1>5. ASSUME NEW h \in H
        PROVE  /\ F[h] = SumOn(P, Fibre(g, T, h))
               /\ F[h] \in Nat /\ hours[h][m] = F[h]
    <2> DEFINE here == {t \in T : getHours(t, offset) = h}
               sum(k) == SumOn([t \in DOMAIN points |-> points[t][k]], here)
    <2>1. hours[h] = [keys |-> sum("keys"), clicks |-> sum("clicks")]
      BY <1>2 DEF bucketByLocalHour
    <2>2. hours[h][m] = sum(m)
      <3> HIDE DEF sum, hours
      <3>1. QED
        BY <2>1 DEF Shown
    <2>3. F[h] = hours[h][m]
      BY <1>4
    <2>4. here = Fibre(g, T, h)
      BY DEF Fibre
    <2>5. IsFiniteSet(here) /\ \A t \in here : P[t] \in Int /\ P[t] >= 0
      <3>1. here \in SUBSET T
        OBVIOUS
      <3> HIDE DEF here, T, P
      <3>2. \A t \in T : P[t] \in Int /\ P[t] >= 0
        BY <1>b
      <3>3. IsFiniteSet(here)
        BY <1>1, <3>1, FS_Subset
      <3>4. QED
        BY <3>1, <3>2, <3>3
    <2>6. sum(m) = SumOn(P, here)
      OBVIOUS
    <2> HIDE DEF here, P, F, hours, sum
    <2>7. SumOn(P, here) \in Int /\ SumOn(P, here) >= 0
      BY <2>5, SumType
    <2>8. QED
      BY <2>2, <2>3, <2>4, <2>6, <2>7
  <1>6. g \in [T -> H]
    <2> SUFFICES ASSUME NEW t \in T PROVE getHours(t, offset) \in H
      OBVIOUS
    <2>1. t \in Int
      BY <1>1, RowIs
    <2>2. offset \in Int /\ HoursPerDay \in Nat \ {0}
      BY TodayIs, DayConstants
    <2>3. t + offset \in Int
      BY <2>1, <2>2
    <2>4. (t + offset) % HoursPerDay \in 0..(HoursPerDay - 1)
      BY <2>2, <2>3, Remainder
    <2>5. QED
      BY <2>4 DEF getHours
  <1>7. IsFiniteSet(H)
    BY DayConstants, FS_Interval
  <1>8. SumOn(F, H) = SumOn(P, T)
    <2> HIDE DEF F, P, H, T, g
    <2>1. \A t \in T : P[t] \in Int
      BY <1>b
    <2>2. \A h \in H : F[h] = SumOn(P, Fibre(g, T, h))
      BY <1>5
    <2>3. QED
      BY <1>1, <1>6, <1>7, <2>1, <2>2, SumFibres
  <1>9. SumOn(P, T) = Counted(m, S)
    <2>1. \A t \in {r[1] : r \in RowsOfDay(d)} :
             P[t] = Counted(m, {r \in RowsOfDay(d) : r[1] = t})
      BY <1>3
    <2> HIDE DEF P
    <2>2. QED
      BY <2>1, MinutesAddUp
  <1>10. Total(hours, m) = SumOn(F, H)
    <2>1. DOMAIN F = H
      BY <1>4
    <2>2. QED
      BY <2>1 DEF Total, SumOver
  <1>11. \A h \in DOMAIN hours : hours[h][m] \in Nat
    BY <1>4, <1>5
  <1>12. QED
    BY <1>4, <1>8, <1>9, <1>10, <1>11

\* The list of apps.
LEMMA ListAddsUp ==
    ASSUME ClockOK, RowsOK, NEW d \in Int
    PROVE  LET list == AppsBreakdown(DayApps(d))
           IN  /\ Total(list, "keys") = Counted("keys", RowsOfDay(d))
               /\ list = <<>> <=> RowsOfDay(d) = {}
  <1> DEFINE S == RowsOfDay(d)
             T == {r[2] : r \in S}
             K == [a \in T |-> Counted("keys", {r \in S : r[2] = a})]
             n == Cardinality(T)
             J == 1..n
             order == Ranking(K)
             apps == DayApps(d)
             list == AppsBreakdown(apps)
             h == [i \in DOMAIN list |-> list[i]["keys"]]
  <1>0. "keys" \in Shown
    BY DEF Shown
  <1>1. S \in SUBSET DOMAIN rows /\ IsFiniteSet(S) /\ IsFiniteSet(T)
    BY RowsOfDayAre
  <1>2. K \in [T -> Int] /\ \A a \in T : K[a] \in Int
    <2> SUFFICES ASSUME NEW a \in T PROVE Counted("keys", {r \in S : r[2] = a}) \in Int
      OBVIOUS
    <2> DEFINE mine == {r \in S : r[2] = a}
    <2>1. mine \in SUBSET DOMAIN rows
      BY <1>1
    <2> HIDE DEF mine
    <2>2. Counted("keys", mine) \in Nat
      BY <1>0, <2>1, ColumnIs
    <2>3. QED
      BY <2>2 DEF mine
  <1>3. /\ n \in Nat /\ order \in [J -> T]
        /\ \A i, j \in J : order[i] = order[j] => i = j
        /\ \A a \in T : \E i \in J : order[i] = a
    <2> HIDE DEF K, T
    <2>1. QED
      BY <1>1, <1>2, RankingIs
  <1>4. apps = [i \in J |-> [name |-> order[i], keys |-> K[order[i]]]]
    <2>1. DOMAIN order = J /\ \A i \in J : order[i] \in T
      BY <1>3
    <2>2. apps = [i \in J |-> [name |-> order[i], keys |-> Counted("keys", {r \in S : r[2] = order[i]})]]
      BY <2>1 DEF DayApps
    <2>3. \A a \in T : K[a] = Counted("keys", {r \in S : r[2] = a})
      OBVIOUS
    <2> HIDE DEF order, apps, K, T
    <2>4. QED
      BY <2>1, <2>2, <2>3
  <1>5. DOMAIN list = J /\ \A i \in J : list[i].keys = K[order[i]]
    <2> HIDE DEF apps, J, order, K
    <2>1. DOMAIN apps = J /\ \A i \in J : apps[i].keys = K[order[i]]
      BY <1>4
    <2>2. DOMAIN list = DOMAIN apps /\ \A i \in DOMAIN apps : list[i].keys = apps[i].keys
      BY DEF AppsBreakdown
    <2>3. QED
      BY <2>1, <2>2
  <1>6. order \in Bijection(J, T)
    <2> HIDE DEF order, J, T
    <2>1. QED
      BY <1>3 DEF Bijection, Injection, IsInjective, Surjection
  <1>7. Total(list, "keys") = SumOn(h, J)
    <2>1. DOMAIN h = J
      BY <1>5
    <2>2. QED
      BY <2>1 DEF Total, SumOver
  <1>8. SumOn(h, J) = SumOn(K, T)
    <2>1. \A i \in J : h[i] \in Int /\ h[i] = K[order[i]]
      <3> SUFFICES ASSUME NEW i \in J PROVE h[i] \in Int /\ h[i] = K[order[i]]
        OBVIOUS
      <3>1. h[i] = K[order[i]] /\ order[i] \in T
        BY <1>3, <1>5
      <3> HIDE DEF h, K, order, T
      <3>2. QED
        BY <1>2, <3>1
    <2>2. IsFiniteSet(J)
      BY <1>3, FS_Interval
    <2> HIDE DEF h, K, order, T, J
    <2>3. QED
      BY <1>6, <2>1, <2>2, SumRenamed
  <1>9. SumOn(K, T) = Counted("keys", S)
    <2>1. \A a \in {r[2] : r \in RowsOfDay(d)} : K[a] = Counted("keys", {r \in RowsOfDay(d) : r[2] = a})
      OBVIOUS
    <2> HIDE DEF K
    <2>2. QED
      BY <1>0, <2>1, AppsAddUp
  <1>10. list = <<>> <=> S = {}
    <2>1. S = {} <=> T = {}
      OBVIOUS
    <2>2. T = {} <=> n = 0
      BY <1>1, FS_EmptySet
    <2>3. n = 0 <=> J = {}
      <3>1. n \in Nat
        BY <1>3
      <3> HIDE DEF n
      <3>2. QED
        BY <3>1
    <2>4. J = {} => list = <<>>
      <3> SUFFICES ASSUME J = {} PROVE list = <<>>
        OBVIOUS
      <3>1. DOMAIN list = {}
        BY <1>5
      <3>2. list = [i \in DOMAIN apps |-> list[i]]
        BY DEF AppsBreakdown
      <3>3. DOMAIN apps = {}
        BY <1>4
      <3> HIDE DEF list, apps
      <3>4. QED
        BY <3>1, <3>2, <3>3
    <2>5. list = <<>> => J = {}
      BY <1>5
    <2>6. QED
      BY <2>1, <2>2, <2>3, <2>4, <2>5
  <1>11. QED
    BY <1>7, <1>8, <1>9, <1>10

LEMMA DayHolds ==
    ASSUME DayInv
    PROVE  DayAddsUp
  <1> SUFFICES ASSUME page = "today", Fresh(HistoryKey), Fresh(BucketsKey(selected)),
                      Fresh(AppsKey(selected)), selected >= UtcDate - (Window - 1),
                      NEW tile \in DayShown.tiles.day, NEW bars \in DayShown.timeline,
                      NEW list \in DayShown.apps
               PROVE  /\ tile.keys   = Total(hourly, "keys")
                      /\ tile.clicks = Total(hourly, "clicks")
                      /\ tile.keys   = Total(list, "keys")
                      /\ \A h \in DOMAIN bars : bars[h].height > 3 <=> hourly[h].keys > 0
                      /\ DayShown.tiles.quiet
                            <=> Total(hourly, "keys") = 0 /\ Total(hourly, "clicks") = 0
                      /\ list = <<>> => DayShown.tiles.quiet
    BY DEF DayAddsUp
  <1>0. ClockOK /\ RowsOK /\ selected \in Int /\ "keys" \in Shown /\ "clicks" \in Shown
    BY DEF DayInv, ViewOK, Shown
  <1>1. tile \in day /\ (DayShown.tiles.quiet <=> \E e \in day : Quiet(e))
    BY DEF DayShown, Tiles
  <1>2. /\ day = {tile}
        /\ tile.keys = Counted("keys", RowsOfDay(selected))
        /\ tile.clicks = Counted("clicks", RowsOfDay(selected))
        /\ Quiet(tile) <=> tile.keys = 0 /\ tile.clicks = 0
    BY <1>1, TileIs
  <1>3. /\ cache[BucketsKey(selected)] = DayBuckets(selected)
        /\ cache[AppsKey(selected)] = DayApps(selected)
    BY DEF Fresh, Answer, BucketsKey, AppsKey
  <1>4. hourly = bucketByLocalHour(DayBuckets(selected), offset)
    BY <1>3 DEF hourly
  <1>5. list = AppsBreakdown(DayApps(selected))
    <2>1. list \in ByApp
      BY DEF DayShown
    <2>2. QED
      BY <1>3, <2>1 DEF ByApp
  <1>6. bars = DayTimeline(hourly)
    <2>1. bars \in Timeline
      BY DEF DayShown
    <2>2. QED
      BY <2>1 DEF Timeline
  <1>7. /\ DOMAIN hourly = 0..(HoursPerDay - 1)
        /\ \A h \in DOMAIN hourly : hourly[h]["keys"] \in Nat
        /\ Total(hourly, "keys") = Counted("keys", RowsOfDay(selected))
        /\ Total(hourly, "clicks") = Counted("clicks", RowsOfDay(selected))
    BY <1>0, <1>4, HoursAddUp
  <1>8. /\ Total(list, "keys") = Counted("keys", RowsOfDay(selected))
        /\ list = <<>> <=> RowsOfDay(selected) = {}
    BY <1>0, <1>5, ListAddsUp
  <1>9. \A h \in DOMAIN bars : bars[h].height > 3 <=> hourly[h].keys > 0
    <2>1. IsFiniteSet(DOMAIN hourly) /\ \A h \in DOMAIN hourly : hourly[h].keys \in Nat
      BY <1>7, DayConstants, FS_Interval
    <2>2. QED
      BY <1>6, <2>1, BarsTell
  <1>10. DayShown.tiles.quiet <=> Total(hourly, "keys") = 0 /\ Total(hourly, "clicks") = 0
    <2>1. DayShown.tiles.quiet <=> Quiet(tile)
      BY <1>1, <1>2
    <2>2. QED
      BY <1>2, <1>7, <2>1
  <1>11. ASSUME list = <<>>
         PROVE  DayShown.tiles.quiet
    <2>1. Counted("keys", RowsOfDay(selected)) = 0 /\ Counted("clicks", RowsOfDay(selected)) = 0
      BY <1>8, <1>11, SumEmpty DEF Counted
    <2>2. QED
      BY <1>7, <1>10, <2>1
  <1>12. QED
    BY <1>2, <1>7, <1>8, <1>9, <1>10, <1>11

\* A day is selected exactly while the Today tab is open, is one that the window or
\* the clicks can reach, and is never after the day the last render took for today;
\* and the streaks row is of days with activity (DayView.tsx:110-127, 181-195).
THEOREM DayPageTypeCorrect == DayPageSpec => []DayPageTypeOK
  BY DayInvHolds, InvImpliesType, PTL

\* The numbers that one page shows of different queries agree whenever each of them
\* is up to date, for all rows and whatever is delivered, fetched and clicked
\* (DayView.tsx:180-228, TodayView.tsx:73-83, MyProfileView.tsx:105-139).
THEOREM PagesAddUp == DayPageSpec => []PageAddsUp
  <1>1. DayInv => PageAddsUp
    BY DayHolds, WeekHolds, TrailingHolds, ProfileHolds DEF PageAddsUp
  <1>2. QED
    BY <1>1, DayInvHolds, PTL

\* The calendar has one cell for each day of the window, under its weekday, with its
\* number, and its colours follow the numbers (Heatmap.tsx:51-170).
THEOREM CalendarIsRight == DayPageSpec => []CalendarAgrees
  BY DayInvHolds, CalendarHolds, PTL
=============================================================================
