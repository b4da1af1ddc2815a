---------------------------- MODULE KeysPage_proofs ----------------------------
(***************************************************************************)
(* The Keys tab: its types, and that what it shows is of what it is set    *)
(* to, for every number of programs, apps and keys and every layout; and   *)
(* "No new sync yet" is said only to somebody who asked, however clicks,   *)
(* answers, other tabs and reopened pages are interleaved.                 *)
(***************************************************************************)
EXTENDS KeysPage, Numbers_proofs, TLAPS

\* A readout as its component keeps it.
Readouts(s) ==
    /\ s = [synced |-> s.synced, notice |-> s.notice, prev |-> s.prev, pending |-> s.pending]
    /\ s.notice \in BOOLEAN /\ s.pending \in BOOLEAN

Asked(s) == IF s.pending THEN 1 ELSE 0

\* NoticesAsked is not inductive: a click that still waits may yet be answered by a
\* notice, so it counts as one.
NoticesInv ==
    /\ Readouts(status)
    /\ notices \in Nat /\ checks \in Nat
    /\ notices + Asked(status) <= checks

-----------------------------------------------------------------------------
\* The effect puts the notice on only for a click, which it then forgets.
LEMMA SettledFacts ==
    ASSUME NEW s, Readouts(s), NEW data, NEW at
    PROVE  /\ Readouts(Settled(s, data, at))
           /\ ~Settled(s, data, at).pending
           /\ Settled(s, data, at).notice => s.notice \/ s.pending
  <1> DEFINE t == Settled(s, data, at)
             Kept(notice) == [synced |-> s.synced, notice |-> notice, prev |-> s.prev,
                              pending |-> FALSE]
             new == [synced |-> at, notice |-> FALSE, prev |-> {data}, pending |-> FALSE]
  <1>1. CASE at = 0
    <2>1. t = Kept(s.notice)
      BY <1>1 DEF Settled, Readouts
    <2>2. QED
      BY <2>1 DEF Readouts
  <1>2. CASE at # 0 /\ s.prev # {data}
    <2>1. t = new
      BY <1>2 DEF Settled
    <2>2. QED
      BY <2>1 DEF Readouts
  <1>3. CASE at # 0 /\ s.prev = {data}
    <2>1. t = [s EXCEPT !.notice = s.notice \/ s.pending, !.pending = FALSE]
      BY <1>3 DEF Settled
    <2>2. t = Kept(s.notice \/ s.pending)
      BY <2>1 DEF Readouts
    <2>3. (s.notice \/ s.pending) \in BOOLEAN
      OBVIOUS
    <2>4. /\ t.synced = s.synced /\ t.prev = s.prev /\ ~t.pending
          /\ t.notice = (s.notice \/ s.pending)
      BY <2>2
    <2>5. Readouts(t)
      BY <2>2, <2>3, <2>4 DEF Readouts
    <2>6. QED
      BY <2>4, <2>5
  <1>4. QED
    BY <1>1, <1>2, <1>3

LEMMA MountedFacts == Readouts(Mounted) /\ ~Mounted.notice /\ ~Mounted.pending
  BY DEF Mounted, Readouts

LEMMA ClickedFacts ==
    ASSUME NEW s, Readouts(s)
    PROVE  /\ handleClick(s) = [synced |-> s.synced, notice |-> FALSE, prev |-> s.prev,
                                pending |-> TRUE]
           /\ NoticeOver(s)  = [synced |-> s.synced, notice |-> FALSE, prev |-> s.prev,
                                pending |-> s.pending]
  <1>1. handleClick(s) = [s EXCEPT !.pending = TRUE, !.notice = FALSE]
    BY DEF handleClick
  <1>2. handleClick(s) = [synced |-> s.synced, notice |-> FALSE, prev |-> s.prev,
                          pending |-> TRUE]
    BY <1>1 DEF Readouts
  <1>3. NoticeOver(s) = [synced |-> s.synced, notice |-> FALSE, prev |-> s.prev,
                         pending |-> s.pending]
    <2>1. NoticeOver(s) = [s EXCEPT !.notice = FALSE]
      BY DEF NoticeOver
    <2>2. QED
      BY <2>1 DEF Readouts
  <1>4. QED
    BY <1>2, <1>3

\* A readout that follows on the present one, or on a newly mounted one, puts the
\* notice on only at the expense of a click that waits.
LEMMA ReadoutStep ==
    ASSUME NoticesInv, NEW s, Readouts(s), Readout(s), UNCHANGED checks,
           s.notice => status.notice \/ (status.pending /\ ~s.pending),
           s.pending => status.pending
    PROVE  NoticesInv'
  <1>1. status' = s
    BY DEF Readout
  <1>2. /\ s.notice \in BOOLEAN /\ s.pending \in BOOLEAN
        /\ status.notice \in BOOLEAN /\ status.pending \in BOOLEAN
    BY DEF NoticesInv, Readouts
  <1>3. notices \in Nat /\ checks \in Nat /\ notices + Asked(status) <= checks
    BY DEF NoticesInv
  <1>4. Asked(s) \in {0, 1} /\ Asked(status) \in {0, 1} /\ Asked(s) <= Asked(status)
    BY <1>2 DEF Asked
  <1>5. CASE s.notice /\ ~status.notice
    <2>1. Asked(status) = 1 /\ Asked(s) = 0
      BY <1>5 DEF Asked
    <2>2. notices' = notices + 1
      BY <1>5 DEF Readout
    <2>3. QED
      BY <1>1, <1>3, <2>1, <2>2 DEF NoticesInv, Asked
  <1>6. CASE ~(s.notice /\ ~status.notice)
    <2>1. ~(s.notice /\ ~status.notice)
      BY <1>2, <1>6
    <2>2. notices' = notices
      BY <2>1 DEF Readout
    <2>3. Asked(status') = Asked(s)
      BY <1>1
    <2>4. notices' + Asked(status') <= checks
      BY <1>3, <1>4, <2>2, <2>3
    <2>5. QED
      BY <1>1, <1>3, <2>2, <2>4 DEF NoticesInv, Asked
  <1>7. QED
    BY <1>5, <1>6

\* The effect runs, or does not.
LEMMA RenderedStep ==
    ASSUME NoticesInv, NEW entry, Rendered(entry), UNCHANGED checks
    PROVE  NoticesInv'
  <1>1. Readouts(status)
    BY DEF NoticesInv
  <1>2. CASE entry.at = Entry.at
    <2>1. Readout(status)
      BY <1>2 DEF Rendered
    <2>2. QED
      BY <1>1, <2>1, ReadoutStep
  <1>3. CASE entry.at # Entry.at
    <2> DEFINE t == Settled(status, entry.data, entry.at)
    <2>1. Readout(t)
      BY <1>3 DEF Rendered
    <2>2. /\ Readouts(t) /\ ~t.pending
          /\ t.notice => status.notice \/ status.pending
      BY <1>1, SettledFacts
    <2> HIDE DEF t
    <2>3. QED
      BY <2>1, <2>2, ReadoutStep
  <1>4. QED
    BY <1>2, <1>3

\* A page that mounts says nothing.
LEMMA MountStep ==
    ASSUME NoticesInv, NEW s, Readout(s), UNCHANGED checks,
           s = Mounted \/ \E data, at : s = Settled(Mounted, data, at)
    PROVE  NoticesInv'
  <1>1. Readouts(s) /\ ~s.notice /\ ~s.pending
    BY MountedFacts, SettledFacts
  <1>2. QED
    BY <1>1, ReadoutStep

LEMMA CheckStep ==
    ASSUME NoticesInv, CheckForUpdates
    PROVE  NoticesInv'
  <1> DEFINE clicked == [synced |-> status.synced, notice |-> FALSE, prev |-> status.prev,
                         pending |-> TRUE]
  <1>1. Readout(handleClick(status)) /\ checks' = checks + 1
    BY DEF CheckForUpdates
  <1>2. handleClick(status) = clicked
    BY ClickedFacts DEF NoticesInv
  <1>3. Readouts(clicked) /\ ~clicked.notice /\ clicked.pending
    BY DEF Readouts
  <1> HIDE DEF clicked
  <1>4. status' = clicked /\ notices' = notices
    BY <1>1, <1>2, <1>3 DEF Readout
  <1>5. notices \in Nat /\ checks \in Nat /\ notices <= checks
    BY DEF NoticesInv, Asked
  <1>6. QED
    BY <1>1, <1>3, <1>4, <1>5 DEF NoticesInv, Asked

LEMMA TimerStep ==
    ASSUME NoticesInv, NoticeTimer
    PROVE  NoticesInv'
  <1> DEFINE over == [synced |-> status.synced, notice |-> FALSE, prev |-> status.prev,
                      pending |-> status.pending]
  <1>1. Readout(NoticeOver(status)) /\ UNCHANGED checks
    BY DEF NoticeTimer
  <1>2. NoticeOver(status) = over
    BY ClickedFacts DEF NoticesInv
  <1>3. Readouts(over) /\ ~over.notice /\ over.pending = status.pending
    BY DEF NoticesInv, Readouts
  <1> HIDE DEF over
  <1>4. QED
    BY <1>1, <1>2, <1>3, ReadoutStep

LEMMA UserStep ==
    ASSUME NoticesInv, User
    PROVE  NoticesInv'
  <1>1. CASE CheckForUpdates
    BY <1>1, CheckStep
  <1>2. ASSUME Click
        PROVE  NoticesInv'
    BY <1>2, RenderedStep DEF Click
  <1>3. CASE PrevDay \/ NextDay \/ AllTime
    BY <1>2, <1>3 DEF PrevDay, NextDay, AllTime
  <1>4. ASSUME NEW mode \in Modes, SelectMode(mode)
        PROVE  NoticesInv'
    BY <1>2, <1>4 DEF SelectMode
  <1>5. ASSUME NEW app \in Apps \cup {None}, SelectApp(app)
        PROVE  NoticesInv'
    BY <1>2, <1>5 DEF SelectApp
  <1>6. CASE Forget
    BY <1>6, MountStep DEF Forget
  <1>7. CASE Reopen
    <2>1. PICK entry : Readout(IF saved = None THEN Mounted
                               ELSE Settled(Mounted, entry.data, entry.at))
      BY <1>7 DEF Reopen
    <2>2. UNCHANGED checks
      BY <1>7 DEF Reopen
    <2>3. QED
      BY <2>1, <2>2, MountStep
  <1>8. ASSUME NEW code \in Tokens, Connect(code)
        PROVE  NoticesInv'
    <2>1. PICK entry : Readout(Settled(Mounted, entry.data, entry.at))
      BY <1>8 DEF Connect
    <2>2. UNCHANGED checks
      BY <1>8 DEF Connect
    <2>3. QED
      BY <2>1, <2>2, MountStep
  <1>9. QED
    BY <1>1, <1>3, <1>4, <1>5, <1>6, <1>7, <1>8 DEF User

LEMMA NoticesStep == NoticesInv /\ [Next]_vars => NoticesInv'
  <1> SUFFICES ASSUME NoticesInv, [Next]_vars PROVE NoticesInv'
    OBVIOUS
  <1>1. ASSUME UNCHANGED <<statusVars, checks>>
        PROVE  NoticesInv'
    BY <1>1 DEF statusVars, NoticesInv
  <1>2. CASE Fetch
    BY <1>1, <1>2 DEF Fetch
  <1>3. ASSUME NEW q \in DOMAIN fetching, NEW lost \in SUBSET {"apps", "items"}, Answer(q, lost)
        PROVE  NoticesInv'
    <2>1. UNCHANGED checks
      BY <1>3 DEF Answer
    <2>2. UNCHANGED statusVars \/ \E entry : Rendered(entry)
      BY <1>3 DEF Answer
    <2>3. QED
      BY <1>1, <2>1, <2>2, RenderedStep
  <1>4. CASE NoticeTimer
    BY <1>4, TimerStep
  <1>5. CASE User
    BY <1>5, UserStep
  <1>6. ASSUME NEW key \in Keys, NEW app \in Apps, Press(key, app)
        PROVE  NoticesInv'
    BY <1>1, <1>6 DEF Press
  <1>7. CASE Elsewhere
    BY <1>1, <1>7 DEF Elsewhere
  <1>8. CASE UNCHANGED vars
    BY <1>1, <1>8 DEF vars
  <1>9. QED
    BY <1>2, <1>3, <1>4, <1>5, <1>6, <1>7, <1>8 DEF Next

\* The notice never comes on more often than "Check for updates" was clicked, so the
\* silent fetches alone never bring it about (RefreshStatus.tsx:35-41).
THEOREM NoticesAreAskedFor == Spec => []NoticesAsked
  <1>1. Init => NoticesInv
    BY MountedFacts DEF Init, NoticesInv, Asked
  <1>2. NoticesInv => NoticesAsked
    BY DEF NoticesInv, NoticesAsked, Asked
  <1>3. QED
    BY <1>1, <1>2, NoticesStep, PTL DEF Spec

-----------------------------------------------------------------------------
(***************************************************************************)
(* The page tells the truth.  First what a program answers, whatever it    *)
(* has stored.                                                             *)
(***************************************************************************)
StoreOK ==
    /\ IsFiniteSet(DOMAIN counts) /\ DOMAIN counts \subseteq Codes \X Keys \X Apps \X Int
    /\ \A r \in DOMAIN counts : counts[r] \in Nat \ {0}

LEMMA RowFields ==
    ASSUME StoreOK, NEW r \in DOMAIN counts
    PROVE  r = <<r[1], r[2], r[3], r[4]>> /\ r[1] \in Codes /\ r[2] \in Keys /\ r[3] \in Apps
  BY DEF StoreOK

LEMMA RowsFinite ==
    ASSUME StoreOK, NEW R \in SUBSET DOMAIN counts
    PROVE  /\ IsFiniteSet(R) /\ TotalOf(R) \in Nat
           /\ R # {} => TotalOf(R) > 0
  <1>1. IsFiniteSet(R)
    BY FS_Subset DEF StoreOK
  <1>2. \A r \in R : counts[r] \in Int /\ counts[r] >= 0
    BY DEF StoreOK
  <1>3. TotalOf(R) \in Int /\ TotalOf(R) >= 0
    BY <1>1, <1>2, SumType DEF TotalOf
  <1>4. ASSUME NEW r \in R
        PROVE  TotalOf(R) > 0
    <2>1. TotalOf(R) = counts[r] + SumOn(counts, R \ {r})
      BY <1>1, <1>2, SumTakeOut DEF TotalOf
    <2>2. IsFiniteSet(R \ {r})
      BY <1>1, FS_Subset
    <2>3. SumOn(counts, R \ {r}) \in Int /\ SumOn(counts, R \ {r}) >= 0
      BY <1>2, <2>2, SumType
    <2>4. counts[r] \in Nat \ {0}
      BY DEF StoreOK
    <2>5. QED
      BY <2>1, <2>3, <2>4
  <1>5. QED
    BY <1>1, <1>3, <1>4

\* The names of some rows, by key or by app, are finitely many.
LEMMA NamesFinite ==
    ASSUME StoreOK, NEW R \in SUBSET DOMAIN counts
    PROVE  IsFiniteSet({r[2] : r \in R}) /\ IsFiniteSet({r[3] : r \in R})
  <1>1. IsFiniteSet(R)
    BY RowsFinite
  <1>2. ASSUME NEW N, NEW f \in [R -> N], \A n \in N : \E r \in R : f[r] = n
        PROVE  IsFiniteSet(N)
    <2>1. f \in Surjection(R, N)
      BY <1>2 DEF Surjection
    <2>2. QED
      BY <1>1, <2>1, FS_Surjection
  <1>3. IsFiniteSet({r[2] : r \in R})
    <2>1. [r \in R |-> r[2]] \in [R -> {r[2] : r \in R}]
      OBVIOUS
    <2>2. \A n \in {r[2] : r \in R} : \E r \in R : [q \in R |-> q[2]][r] = n
      OBVIOUS
    <2>3. QED
      BY <1>2, <2>1, <2>2
  <1>4. IsFiniteSet({r[3] : r \in R})
    <2>1. [r \in R |-> r[3]] \in [R -> {r[3] : r \in R}]
      OBVIOUS
    <2>2. \A n \in {r[3] : r \in R} : \E r \in R : [q \in R |-> q[3]][r] = n
      OBVIOUS
    <2>3. QED
      BY <1>2, <2>1, <2>2
  <1>5. QED
    BY <1>3, <1>4

\* A list of the names f counts, with their counts and without repetitions.
ListOf(items, f) ==
    /\ items \in Seq([name : DOMAIN f, keys : Nat])
    /\ \A i \in DOMAIN items : items[i].keys = f[items[i].name]
    /\ \A i, j \in DOMAIN items : items[i].name = items[j].name => i = j

Complete(items, names) == \A n \in names : \E i \in DOMAIN items : items[i].name = n

\* A ranked list, and what a limit leaves of it.
LEMMA RankedList ==
    ASSUME NEW N, IsFiniteSet(N), NEW f \in [N -> Nat], NEW k \in Nat, NEW all,
           all = [i \in DOMAIN Ranking(f) |-> [name |-> Ranking(f)[i], keys |-> f[Ranking(f)[i]]]]
    PROVE  /\ ListOf(all, f) /\ Complete(all, N) /\ Len(all) = Cardinality(N)
           /\ ListOf(SubSeq(all, 1, Min({k, Len(all)})), f)
           /\ Cardinality(N) <= k => Complete(SubSeq(all, 1, Min({k, Len(all)})), N)
  <1> DEFINE n == Cardinality(N)
             s == Ranking(f)
             m == IF k <= n THEN k ELSE n
             head == SubSeq(all, 1, m)
  <1>0. f \in [N -> Int]
    OBVIOUS
  <1>1. /\ n \in Nat /\ s \in [1..n -> N]
        /\ \A i, j \in 1..n : s[i] = s[j] => i = j
        /\ \A x \in N : \E i \in 1..n : s[i] = x
    BY <1>0, RankingIs
  <1>2. all = [i \in DOMAIN s |-> [name |-> s[i], keys |-> f[s[i]]]]
    OBVIOUS
  <1> HIDE DEF n, s
  <1>3. all = [i \in 1..n |-> [name |-> s[i], keys |-> f[s[i]]]]
    BY <1>1, <1>2
  <1>4. \A i \in 1..n : all[i] \in [name : N, keys : Nat] /\ all[i].name = s[i] /\ all[i].keys = f[s[i]]
    BY <1>1, <1>3
  <1>5. all \in Seq([name : N, keys : Nat]) /\ Len(all) = n /\ DOMAIN all = 1..n
    <2>1. all \in [1..n -> [name : N, keys : Nat]]
      BY <1>3, <1>4
    <2>2. QED
      BY <1>1, <2>1
  <1>6. DOMAIN f = N
    OBVIOUS
  <1>7. ListOf(all, f) /\ Complete(all, N)
    <2>1. Complete(all, N)
      BY <1>1, <1>4, <1>5 DEF Complete
    <2>2. \A i \in DOMAIN all : all[i].keys = f[all[i].name]
      BY <1>4, <1>5
    <2>3. \A i, j \in DOMAIN all : all[i].name = all[j].name => i = j
      BY <1>1, <1>4, <1>5
    <2>4. QED
      BY <1>5, <1>6, <2>1, <2>2, <2>3 DEF ListOf
  <1>8. Min({k, Len(all)}) = m
    <2>1. Min({k, n}) = m
      BY <1>1, MinOfTwo
    <2>2. QED
      BY <1>5, <2>1, Zenon
  <1>9. m \in 0..n /\ (n <= k => m = n)
    BY <1>1
  <1> HIDE DEF m
  <1>10. /\ head \in Seq([name : N, keys : Nat]) /\ DOMAIN head = 1..m
         /\ \A i \in 1..m : head[i] = all[i]
    BY <1>1, <1>5, <1>9, SMTT(30)
  <1> HIDE DEF head
  <1>11. ListOf(head, f)
    <2>1. \A i \in 1..m : i \in 1..n
      BY <1>1, <1>9
    <2>2. \A i \in DOMAIN head : /\ i \in DOMAIN all /\ head[i] = all[i]
                                /\ head[i].name = all[i].name /\ head[i].keys = all[i].keys
      BY <1>5, <1>10, <2>1, Zenon
    <2>3. ASSUME NEW i \in DOMAIN head
          PROVE  head[i].keys = f[head[i].name]
      <3>1. all[i].keys = f[all[i].name]
        BY <1>7, <2>2, Zenon DEF ListOf
      <3>2. QED
        BY <2>2, <3>1, Zenon
    <2>4. ASSUME NEW i \in DOMAIN head, NEW j \in DOMAIN head, head[i].name = head[j].name
          PROVE  i = j
      <3>1. i \in DOMAIN all /\ j \in DOMAIN all /\ all[i].name = all[j].name
        BY <2>2, <2>4, Zenon
      <3>2. QED
        BY <1>7, <3>1, Zenon DEF ListOf
    <2>5. QED
      BY <1>6, <1>10, <2>3, <2>4 DEF ListOf
  <1>12. n <= k => Complete(head, N)
    <2> SUFFICES ASSUME n <= k, NEW x \in N PROVE \E i \in DOMAIN head : head[i].name = x
      BY DEF Complete
    <2>1. PICK i \in DOMAIN all : all[i].name = x
      BY <1>7 DEF Complete
    <2>2. i \in 1..m /\ head[i] = all[i]
      BY <1>5, <1>9, <1>10, <2>1
    <2>3. QED
      BY <1>10, <2>1, <2>2, Zenon
  <1>13. QED
    BY <1>5, <1>7, <1>8, <1>11, <1>12 DEF head, n

\* What some rows add up to by key, and by app.
KeyTotals(R) == [k \in {r[2] : r \in R} |-> TotalOf({r \in R : r[2] = k})]
AppTotals(R) == [a \in {r[3] : r \in R} |-> TotalOf({r \in R : r[3] = a})]

LEMMA TotalTypes ==
    ASSUME StoreOK, NEW R \in SUBSET DOMAIN counts
    PROVE  /\ KeyTotals(R) \in [{r[2] : r \in R} -> Nat \ {0}]
           /\ AppTotals(R) \in [{r[3] : r \in R} -> Nat \ {0}]
  <1>1. \A k \in {r[2] : r \in R} : TotalOf({r \in R : r[2] = k}) \in Nat \ {0}
    <2> SUFFICES ASSUME NEW q \in R PROVE TotalOf({r \in R : r[2] = q[2]}) \in Nat \ {0}
      OBVIOUS
    <2> DEFINE P == {r \in R : r[2] = q[2]}
    <2>1. P \in SUBSET DOMAIN counts /\ P # {}
      OBVIOUS
    <2> HIDE DEF P
    <2>2. TotalOf(P) \in Nat /\ TotalOf(P) > 0
      BY <2>1, RowsFinite
    <2>3. QED
      BY <2>2 DEF P
  <1>2. \A a \in {r[3] : r \in R} : TotalOf({r \in R : r[3] = a}) \in Nat \ {0}
    <2> SUFFICES ASSUME NEW q \in R PROVE TotalOf({r \in R : r[3] = q[3]}) \in Nat \ {0}
      OBVIOUS
    <2> DEFINE P == {r \in R : r[3] = q[3]}
    <2>1. P \in SUBSET DOMAIN counts /\ P # {}
      OBVIOUS
    <2> HIDE DEF P
    <2>2. TotalOf(P) \in Nat /\ TotalOf(P) > 0
      BY <2>1, RowsFinite
    <2>3. QED
      BY <2>2 DEF P
  <1>3. QED
    BY <1>1, <1>2 DEF KeyTotals, AppTotals

LEMMA KeysAnswer ==
    ASSUME StoreOK, NEW c, NEW app, NEW date
    PROVE  LET R == Rows(c, app, date) IN
           /\ ListOf(top_keys(c, TopKeys, app, date), KeyTotals(R))
           /\ Cardinality({r[2] : r \in R}) <= TopKeys
              => Complete(top_keys(c, TopKeys, app, date), {r[2] : r \in R})
  <1> DEFINE R == Rows(c, app, date)
             N == {r[2] : r \in R}
             f == KeyTotals(R)
             all == [i \in DOMAIN Ranking(f) |-> [name |-> Ranking(f)[i], keys |-> f[Ranking(f)[i]]]]
  <1>1. R \in SUBSET DOMAIN counts
    BY DEF Rows
  <1>2. IsFiniteSet(N) /\ f \in [N -> Nat]
    BY <1>1, NamesFinite, TotalTypes
  <1>3. \A i \in DOMAIN Ranking(f) : Ranking(f)[i] \in N
    BY <1>2, RankingIs
  <1>4. \A i \in DOMAIN Ranking(f) :
            f[Ranking(f)[i]] = TotalOf({r \in R : r[2] = Ranking(f)[i]})
    BY <1>3 DEF KeyTotals
  <1>5. all = [i \in DOMAIN Ranking(f) |->
                  [name |-> Ranking(f)[i], keys |-> TotalOf({r \in R : r[2] = Ranking(f)[i]})]]
    BY <1>4
  <1>6. top_keys(c, TopKeys, app, date) = SubSeq(all, 1, Min({TopKeys, Len(all)}))
    <2>1. top_keys(c, TopKeys, app, date) =
            LET al == [i \in DOMAIN Ranking(KeyTotals(R)) |->
                        [name |-> Ranking(KeyTotals(R))[i],
                         keys |-> TotalOf({r \in R : r[2] = Ranking(KeyTotals(R))[i]})]]
            IN  SubSeq(al, 1, Min({TopKeys, Len(al)}))
      BY DEF top_keys, Ranked, KeyTotals
    <2>2. QED
      BY <1>5, <2>1, Zenon
  <1>7. TopKeys \in Nat
    BY KeysPageAssumption
  <1>8. all = [i \in DOMAIN Ranking(f) |-> [name |-> Ranking(f)[i], keys |-> f[Ranking(f)[i]]]]
    OBVIOUS
  <1> HIDE DEF all, f, N
  <1>9. /\ ListOf(SubSeq(all, 1, Min({TopKeys, Len(all)})), f)
        /\ Cardinality(N) <= TopKeys => Complete(SubSeq(all, 1, Min({TopKeys, Len(all)})), N)
    BY <1>2, <1>7, <1>8, RankedList
  <1>10. QED
    BY <1>6, <1>9, Zenon DEF f, N

LEMMA AppsAnswer ==
    ASSUME StoreOK, NEW c, NEW date
    PROVE  LET R == Rows(c, None, date) IN
           /\ ListOf(app_totals(c, date), AppTotals(R))
           /\ Complete(app_totals(c, date), {r[3] : r \in R})
           /\ Len(app_totals(c, date)) = Cardinality({r[3] : r \in R})
  <1> DEFINE R == Rows(c, None, date)
             N == {r[3] : r \in R}
             f == AppTotals(R)
             all == [i \in DOMAIN Ranking(f) |-> [name |-> Ranking(f)[i], keys |-> f[Ranking(f)[i]]]]
  <1>1. R \in SUBSET DOMAIN counts
    BY DEF Rows
  <1>2. IsFiniteSet(N) /\ f \in [N -> Nat]
    BY <1>1, NamesFinite, TotalTypes
  <1>3. \A i \in DOMAIN Ranking(f) : Ranking(f)[i] \in N
    BY <1>2, RankingIs
  <1>4. \A i \in DOMAIN Ranking(f) :
            f[Ranking(f)[i]] = TotalOf({r \in R : r[3] = Ranking(f)[i]})
    BY <1>3 DEF AppTotals
  <1>5. all = [i \in DOMAIN Ranking(f) |->
                  [name |-> Ranking(f)[i], keys |-> TotalOf({r \in R : r[3] = Ranking(f)[i]})]]
    BY <1>4
  <1>6. app_totals(c, date) = all
    <2>1. app_totals(c, date) =
            [i \in DOMAIN Ranking(AppTotals(R)) |->
                        [name |-> Ranking(AppTotals(R))[i],
                         keys |-> TotalOf({r \in R : r[3] = Ranking(AppTotals(R))[i]})]]
      BY DEF app_totals, Ranked, AppTotals
    <2>2. QED
      BY <1>5, <2>1, Zenon
  <1>7. 0 \in Nat
    OBVIOUS
  <1>8. all = [i \in DOMAIN Ranking(f) |-> [name |-> Ranking(f)[i], keys |-> f[Ranking(f)[i]]]]
    OBVIOUS
  <1> HIDE DEF all, f, N
  <1>9. ListOf(all, f) /\ Complete(all, N) /\ Len(all) = Cardinality(N)
    BY <1>2, <1>7, <1>8, RankedList
  <1>10. QED
    BY <1>6, <1>9, Zenon DEF f, N

LEMMA SeqParts ==
    ASSUME NEW S, NEW s \in Seq(S)
    PROVE  Len(s) \in Nat /\ DOMAIN s = 1..Len(s) /\ \A i \in DOMAIN s : s[i] \in S
  OBVIOUS

\* The list for the app filter names every app of the program once.
LEMMA KnownApps ==
    ASSUME StoreOK, NEW c, NEW date
    PROVE  LET N == {r[3] : r \in Rows(c, None, None)} IN
           /\ known_apps(c, date) \in Seq(Apps) /\ IsInjective(known_apps(c, date))
           /\ ToSet(known_apps(c, date)) = N
           /\ Len(known_apps(c, date)) = Cardinality(N)
  <1> DEFINE R == Rows(c, None, None)
             N == {r[3] : r \in R}
             list == app_totals(c, None)
             apps == [i \in DOMAIN list |-> list[i].name]
  <1>1. ListOf(list, AppTotals(R)) /\ Complete(list, N) /\ Len(list) = Cardinality(N)
    BY AppsAnswer
  <1>2. DOMAIN AppTotals(R) = N
    BY DEF AppTotals
  <1>3. N \in SUBSET Apps
    BY RowFields DEF Rows
  <1>4. known_apps(c, date) = apps
    BY DEF known_apps
  <1> HIDE DEF N, list
  <1>5. list \in Seq([name : N, keys : Nat])
    BY <1>1, <1>2, Zenon DEF ListOf
  <1>6. Len(list) \in Nat /\ DOMAIN list = 1..Len(list) /\ \A i \in DOMAIN list : list[i].name \in N
    <2>1. /\ Len(list) \in Nat /\ DOMAIN list = 1..Len(list)
          /\ \A i \in DOMAIN list : list[i] \in [name : N, keys : Nat]
      BY <1>5, SeqParts, Zenon
    <2>2. QED
      BY <2>1
  <1>7. apps \in Seq(N) /\ apps \in Seq(Apps) /\ Len(apps) = Len(list) /\ DOMAIN apps = DOMAIN list
    BY <1>3, <1>6
  <1>8. \A i \in DOMAIN apps : apps[i] = list[i].name /\ apps[i] \in N
    BY <1>6
  <1> HIDE DEF apps
  <1>9. IsInjective(apps)
    BY <1>1, <1>7, <1>8 DEF ListOf, IsInjective
  <1>10. ToSet(apps) = N
    <2>1. \A n \in N : \E i \in DOMAIN apps : apps[i] = n
      BY <1>1, <1>7, <1>8 DEF Complete
    <2>2. QED
      BY <1>8, <2>1 DEF ToSet
  <1>11. QED
    BY <1>1, <1>4, <1>7, <1>9, <1>10, Zenon DEF N, list

-----------------------------------------------------------------------------
(***************************************************************************)
(* Types.                                                                  *)
(***************************************************************************)
Errors == {None, "unreachable", "unauthorized"}

Queried(q) ==
    /\ q.kind \in {"local-keys", "local-apps"} /\ q.token \in Tokens
    /\ q.app \in Apps \cup {None}
    /\ q.kind = "local-apps" => q.app = None

EntryOK(e, n) == e \in [data : [apps : Seq(Apps), items : Listed], at : 0..n, error : Errors]

CacheOK(c, n) == \A q \in DOMAIN c : Queried(q) /\ EntryOK(c[q], n)

RequestsOK(f) == \A q \in DOMAIN f : Queried(q) /\ f[q] \in Tokens \cup {None}

\* A readout has a time if and only if it has seen a payload.
StatusOK(s, n) == Readouts(s) /\ s.synced \in 0..n /\ (s.synced = 0 <=> s.prev = {})

ViewOK ==
    /\ saved \in Tokens \cup {None} /\ token \in Tokens \cup {None}
    /\ viewMode \in Modes /\ appFilter \in Apps \cup {None}
    /\ clicks \in 0..MaxClicks
    /\ selectedDate = None \/ selectedDate \in (today - clicks)..today
    /\ appFilter # None => filterOf \in Tokens

PageTypes ==
    /\ StoreOK /\ running \in Codes \cup {None}
    /\ ViewOK
    /\ answers \in Nat
    /\ CacheOK(cache, answers) /\ RequestsOK(fetching)
    /\ StatusOK(status, answers)

LEMMA WithOne ==
    ASSUME NEW f, NEW key, NEW value
    PROVE  /\ DOMAIN With(f, key, value) = DOMAIN f \cup {key}
           /\ With(f, key, value)[key] = value
           /\ \A k \in DOMAIN f \ {key} : With(f, key, value)[k] = f[k]
  BY DEF With

LEMMA NoEntryOK == \A n \in Nat : EntryOK(NoEntry, n)
  <1>1. <<>> \in Seq(Apps) /\ <<>> \in Listed
    BY DEF Listed
  <1>2. QED
    BY <1>1 DEF EntryOK, NoEntry, Errors

LEMMA EntryInOK ==
    ASSUME NEW c, NEW n \in Nat, CacheOK(c, n), NEW q
    PROVE  EntryOK(EntryIn(c, q), n)
  BY NoEntryOK DEF EntryIn, CacheOK

LEMMA EntryGrows ==
    ASSUME NEW e, NEW n \in Nat, EntryOK(e, n)
    PROVE  EntryOK(e, n + 1)
  <1>1. 0..n \in SUBSET (0..(n + 1))
    OBVIOUS
  <1>2. QED
    BY <1>1 DEF EntryOK

\* What the 200 carries is well formed.
LEMMA BodyOK ==
    ASSUME StoreOK, NEW c, NEW mode \in Modes, NEW app, NEW date
    PROVE  /\ Body(c, mode, app, date).apps \in Seq(Apps)
           /\ Body(c, mode, app, date).items \in Listed
           /\ Body(c, mode, app, date) = [apps  |-> Body(c, mode, app, date).apps,
                                          items |-> Body(c, mode, app, date).items]
  <1>1. ASSUME NEW s, NEW f, ListOf(s, f), DOMAIN f \in SUBSET (Keys \cup Apps)
        PROVE  s \in Listed
    <2>1. [name : DOMAIN f, keys : Nat] \in SUBSET [name : Keys \cup Apps, keys : Nat]
      BY <1>1
    <2>2. s \in Seq([name : DOMAIN f, keys : Nat])
      BY <1>1 DEF ListOf
    <2> DEFINE A == [name : DOMAIN f, keys : Nat]
               B == [name : Keys \cup Apps, keys : Nat]
    <2>3. s \in Seq(A) /\ A \in SUBSET B
      BY <2>1, <2>2
    <2> HIDE DEF A, B
    <2>4. s \in Seq(B)
      BY <2>3
    <2>5. QED
      BY <2>4 DEF Listed, B
  <1>2. top_keys(c, TopKeys, app, date) \in Listed
    <2> DEFINE R == Rows(c, app, date)
    <2>1. DOMAIN KeyTotals(R) \in SUBSET (Keys \cup Apps)
      BY RowFields DEF KeyTotals, Rows
    <2>2. ListOf(top_keys(c, TopKeys, app, date), KeyTotals(R))
      BY KeysAnswer
    <2>3. QED
      BY <1>1, <2>1, <2>2
  <1>3. app_totals(c, date) \in Listed
    <2> DEFINE R == Rows(c, None, date)
    <2>1. DOMAIN AppTotals(R) \in SUBSET (Keys \cup Apps)
      BY RowFields DEF AppTotals, Rows
    <2>2. ListOf(app_totals(c, date), AppTotals(R))
      BY AppsAnswer
    <2>3. QED
      BY <1>1, <2>1, <2>2
  <1>4. known_apps(c, date) \in Seq(Apps)
    BY KnownApps
  <1>5. <<>> \in Seq(Apps)
    OBVIOUS
  <1>6. QED
    BY <1>2, <1>3, <1>4, <1>5 DEF Body

\* A read that fails leaves its list empty, and only that.
LEMMA ReadParts ==
    ASSUME NEW body, body = [apps |-> body.apps, items |-> body.items], NEW lost
    PROVE  Read(body, lost) = [apps  |-> IF "apps" \in lost THEN <<>> ELSE body.apps,
                               items |-> IF "items" \in lost THEN <<>> ELSE body.items]
  <1>1. DOMAIN body = {"apps", "items"}
    OBVIOUS
  <1>2. QED
    BY <1>1 DEF Read

LEMMA OutcomeOK ==
    ASSUME StoreOK, NEW n \in Nat, n = answers, CacheOK(cache, n), NEW q, NEW code, NEW lost
    PROVE  EntryOK(Outcome(q, code, lost), n + 1)
  <1> DEFINE old == EntryIn(cache, q)
             mode == IF q.kind = "local-apps" THEN "apps" ELSE "list"
             body == Body(running, mode, q.app, q.date)
             read == Read(body, lost)
             new == [data |-> read, at |-> n + 1, error |-> None]
  <1>1. EntryOK(old, n + 1)
    BY EntryInOK, EntryGrows
  <1> HIDE DEF old
  <1>2. EntryOK([old EXCEPT !.error = "unauthorized"], n + 1)
    BY <1>1 DEF EntryOK, Errors
  <1>3. EntryOK([old EXCEPT !.error = "unreachable"], n + 1)
    BY <1>1 DEF EntryOK, Errors
  <1>4. mode \in Modes
    BY DEF Modes
  <1>5. EntryOK(new, n + 1)
    <2>1. read \in [apps : Seq(Apps), items : Listed]
      <3> HIDE DEF mode
      <3>1. /\ body.apps \in Seq(Apps) /\ body.items \in Listed
            /\ body = [apps |-> body.apps, items |-> body.items]
        BY <1>4, BodyOK
      <3> HIDE DEF body
      <3>2. <<>> \in Seq(Apps) /\ <<>> \in Listed
        BY DEF Listed
      <3>3. read = [apps  |-> IF "apps" \in lost THEN <<>> ELSE body.apps,
                    items |-> IF "items" \in lost THEN <<>> ELSE body.items]
        BY <3>1, ReadParts
      <3> HIDE DEF read
      <3>4. QED
        BY <3>1, <3>2, <3>3
    <2>2. n + 1 \in 0..(n + 1)
      OBVIOUS
    <2> HIDE DEF read
    <2>3. QED
      BY <2>1, <2>2 DEF EntryOK, Errors
  <1>6. \/ Outcome(q, code, lost) = [old EXCEPT !.error = "unauthorized"]
        \/ Outcome(q, code, lost) = [old EXCEPT !.error = "unreachable"]
        \/ Outcome(q, code, lost) = new
    BY DEF Outcome, old
  <1>7. QED
    BY <1>2, <1>3, <1>5, <1>6, Zenon

LEMMA StatusGrows ==
    ASSUME NEW s, NEW n \in Nat, StatusOK(s, n)
    PROVE  StatusOK(s, n + 1)
  BY DEF StatusOK

LEMMA MountedOK == \A n \in Nat : StatusOK(Mounted, n)
  BY MountedFacts DEF StatusOK, Mounted

\* The effect keeps a readout well formed.
LEMMA SettledOK ==
    ASSUME NEW s, NEW n \in Nat, StatusOK(s, n), NEW data, NEW at \in 0..n
    PROVE  StatusOK(Settled(s, data, at), n)
  <1>1. Readouts(Settled(s, data, at))
    BY SettledFacts DEF StatusOK
  <1>2. s.synced \in 0..n /\ (s.synced = 0 <=> s.prev = {})
    BY DEF StatusOK
  <1>3. CASE at = 0
    <2>1. Settled(s, data, at) = [s EXCEPT !.pending = FALSE]
      BY <1>3 DEF Settled
    <2>2. [s EXCEPT !.pending = FALSE].synced = s.synced /\ [s EXCEPT !.pending = FALSE].prev = s.prev
      BY DEF StatusOK, Readouts
    <2>3. QED
      BY <1>1, <1>2, <2>1, <2>2 DEF StatusOK
  <1>4. CASE at # 0 /\ s.prev # {data}
    <2>1. Settled(s, data, at) = [synced |-> at, notice |-> FALSE, prev |-> {data}, pending |-> FALSE]
      BY <1>4 DEF Settled
    <2>2. Settled(s, data, at).synced = at /\ Settled(s, data, at).prev = {data}
      BY <2>1
    <2>3. QED
      BY <1>1, <1>4, <2>2 DEF StatusOK
  <1>5. CASE at # 0 /\ s.prev = {data}
    <2> DEFINE t == [s EXCEPT !.notice = s.notice \/ s.pending, !.pending = FALSE]
    <2>1. Settled(s, data, at) = t
      BY <1>5 DEF Settled
    <2>2. t.synced = s.synced /\ t.prev = s.prev
      BY DEF StatusOK, Readouts
    <2>3. QED
      BY <1>1, <1>2, <2>1, <2>2 DEF StatusOK
  <1>6. QED
    BY <1>3, <1>4, <1>5

LEMMA ClickedOK ==
    ASSUME NEW s, NEW n \in Nat, StatusOK(s, n)
    PROVE  StatusOK(handleClick(s), n) /\ StatusOK(NoticeOver(s), n)
  <1>1. Readouts(s) /\ s.pending \in BOOLEAN
    BY DEF StatusOK, Readouts
  <1>2. /\ handleClick(s) = [synced |-> s.synced, notice |-> FALSE, prev |-> s.prev, pending |-> TRUE]
        /\ NoticeOver(s) = [synced |-> s.synced, notice |-> FALSE, prev |-> s.prev,
                            pending |-> s.pending]
    BY <1>1, ClickedFacts
  <1>3. /\ Readouts(handleClick(s)) /\ Readouts(NoticeOver(s))
        /\ handleClick(s).synced = s.synced /\ NoticeOver(s).synced = s.synced
        /\ handleClick(s).prev = s.prev /\ NoticeOver(s).prev = s.prev
    BY <1>1, <1>2 DEF Readouts
  <1>4. QED
    BY <1>3 DEF StatusOK

\* The readout after a render, and after the page has mounted.
LEMMA RenderedOK ==
    ASSUME NEW n \in Nat, StatusOK(status, n), NEW e, EntryOK(e, n), Rendered(e)
    PROVE  StatusOK(status', n)
  <1>1. e.at \in 0..n
    BY DEF EntryOK
  <1>2. StatusOK(Settled(status, e.data, e.at), n)
    BY <1>1, SettledOK
  <1>3. status' = status \/ status' = Settled(status, e.data, e.at)
    BY DEF Rendered, Readout
  <1>4. QED
    BY <1>2, <1>3, Zenon

LEMMA RemountedOK ==
    ASSUME NEW n \in Nat, NEW e, EntryOK(e, n)
    PROVE  StatusOK(Settled(Mounted, e.data, e.at), n)
  <1>1. e.at \in 0..n
    BY DEF EntryOK
  <1>2. QED
    BY <1>1, MountedOK, SettledOK

\* What the page asks for next.
LEMMA AskedFor ==
    ASSUME NEW t \in Tokens, NEW mode \in Modes, NEW app \in Apps \cup {None}, NEW date
    PROVE  LET q == QueryOf(t, mode, app, date) IN
           /\ Queried(q) /\ q.token = t /\ q.date = date
           /\ q.kind = IF mode = "apps" THEN "local-apps" ELSE "local-keys"
           /\ q.app = IF mode = "apps" THEN None ELSE app
  BY DEF QueryOf, appsKey, keysKey, Queried

LEMMA SendOK ==
    ASSUME PageTypes, Send
    PROVE  RequestsOK(fetching') /\ CacheOK(cache', answers)
  <1>1. Queried(activeQuery)
    BY AskedFor DEF PageTypes, ViewOK, Send, activeQuery
  <1>2. RequestsOK(fetching')
    <2> DEFINE aq == activeQuery
    <2>1. fetching' = With(fetching, aq, saved)
      BY DEF Send
    <2> HIDE DEF aq
    <2>2. saved \in Tokens \cup {None} /\ RequestsOK(fetching)
      BY DEF PageTypes, ViewOK
    <2>3. Queried(aq)
      BY <1>1 DEF aq
    <2> DEFINE g == fetching'
    <2>4. /\ DOMAIN g = DOMAIN fetching \cup {aq} /\ g[aq] = saved
          /\ \A q \in DOMAIN fetching \ {aq} : g[q] = fetching[q]
      BY <2>1 DEF With
    <2> HIDE DEF g
    <2>5. RequestsOK(g)
      BY <2>2, <2>3, <2>4 DEF RequestsOK
    <2>6. QED
      BY <2>5 DEF g
  <1>3. CacheOK(cache', answers)
    <2>1. cache' = cache \/ \E S \in SUBSET DOMAIN cache : cache' = [q \in S |-> cache[q]]
      BY DEF Send
    <2>2. CacheOK(cache, answers)
      BY DEF PageTypes
    <2>3. QED
      BY <2>1, <2>2 DEF CacheOK
  <1>4. QED
    BY <1>2, <1>3

LEMMA AnswerOK ==
    ASSUME PageTypes, NEW q \in DOMAIN fetching, NEW lost, Answer(q, lost)
    PROVE  /\ RequestsOK(fetching') /\ answers' = answers + 1
           /\ CacheOK(cache', answers') /\ StatusOK(status', answers')
  <1> DEFINE e == Outcome(q, fetching[q], lost)
             n == answers + 1
  <1>1. answers \in Nat /\ n \in Nat /\ CacheOK(cache, answers) /\ StoreOK /\ StatusOK(status, answers)
    BY DEF PageTypes
  <1>2. EntryOK(e, n)
    BY <1>1, OutcomeOK
  <1>3. /\ cache' = With(cache, q, e) /\ answers' = n
        /\ UNCHANGED statusVars \/ Rendered(e)
        /\ fetching' = [k \in DOMAIN fetching \ {q} |-> fetching[k]]
    BY DEF Answer
  <1> HIDE DEF e
  <1>4. Queried(q)
    BY DEF PageTypes, RequestsOK
  <1>5. CacheOK(cache', n)
    <2> DEFINE g == cache'
    <2>1. DOMAIN g = DOMAIN cache \cup {q} /\ g[q] = e /\ \A k \in DOMAIN cache \ {q} : g[k] = cache[k]
      BY <1>3 DEF With
    <2>2. \A k \in DOMAIN cache : Queried(k) /\ EntryOK(cache[k], n)
      BY <1>1, EntryGrows DEF CacheOK
    <2> HIDE DEF g, n
    <2>3. CacheOK(g, n)
      BY <1>2, <1>4, <2>1, <2>2 DEF CacheOK
    <2>4. QED
      BY <2>3 DEF g
  <1>6. RequestsOK(fetching')
    <2>1. RequestsOK(fetching)
      BY DEF PageTypes
    <2>2. QED
      BY <1>3, <2>1 DEF RequestsOK
  <1>7. StatusOK(status', n)
    <2>1. StatusOK(status, n)
      BY <1>1, StatusGrows
    <2> HIDE DEF n
    <2>2. CASE Rendered(e)
      BY <1>1, <1>2, <2>1, <2>2, RenderedOK DEF n
    <2>3. CASE UNCHANGED statusVars
      BY <2>1, <2>3 DEF statusVars
    <2>4. QED
      BY <1>3, <2>2, <2>3
  <1>8. QED
    BY <1>3, <1>5, <1>6, <1>7

\* A click on the controls, with what they are set to from then on.
ClickSets ==
    /\ viewMode' \in Modes /\ appFilter' \in Apps \cup {None}
    /\ selectedDate' = None \/ selectedDate' \in (today - clicks - 1)..today
    /\ appFilter' # None => filterOf' \in Tokens

LEMMA ClickOK ==
    ASSUME PageTypes, Click, ClickSets
    PROVE  PageTypes'
  <1> DEFINE e == EntryIn(cache, QueryOf(token, viewMode', appFilter', selectedDate'))
  <1>1. /\ token # None /\ clicks < MaxClicks /\ clicks' = clicks + 1
        /\ UNCHANGED <<agentVars, saved, token, cache, fetching, answers>> /\ Rendered(e)
    BY DEF Click
  <1>2. EntryOK(e, answers)
    BY EntryInOK DEF PageTypes
  <1> HIDE DEF e
  <1>3. StatusOK(status', answers)
    BY <1>1, <1>2, RenderedOK DEF PageTypes
  <1>4. ViewOK'
    <2>1. clicks \in 0..MaxClicks /\ MaxClicks \in Nat /\ today \in Nat
      BY KeysPageAssumption DEF PageTypes, ViewOK
    <2>2. clicks' \in 0..MaxClicks
      BY <1>1, <2>1
    <2>3. selectedDate' = None \/ selectedDate' \in (today - clicks')..today
      BY <1>1, <2>1 DEF ClickSets
    <2>4. QED
      BY <1>1, <2>2, <2>3 DEF ClickSets, PageTypes, ViewOK
  <1>5. UNCHANGED <<counts, running, cache, fetching, answers>>
    BY <1>1 DEF agentVars
  <1>6. QED
    BY <1>3, <1>4, <1>5 DEF PageTypes, StoreOK, CacheOK, RequestsOK

LEMMA ControlsOK ==
    ASSUME PageTypes,
           \/ \E mode \in Modes : SelectMode(mode)
           \/ PrevDay \/ NextDay \/ AllTime
           \/ \E app \in Apps \cup {None} : SelectApp(app)
    PROVE  PageTypes'
  <1>1. /\ ViewOK /\ today \in Nat /\ clicks \in Nat
    BY KeysPageAssumption DEF PageTypes, ViewOK
  <1>2. selectedDate = None \/ selectedDate \in (today - clicks)..today
    BY <1>1 DEF ViewOK
  <1>3. selectedDate = None \/ selectedDate \in (today - clicks - 1)..today
    BY <1>1, <1>2
  <1>4. ASSUME NEW mode \in Modes, SelectMode(mode)
        PROVE  PageTypes'
    <2>1. ClickSets
      BY <1>1, <1>3, <1>4 DEF SelectMode, ClickSets, ViewOK
    <2>2. QED
      BY <1>4, <2>1, ClickOK DEF SelectMode
  <1>5. CASE PrevDay
    <2>1. selectedDate' = IF selectedDate = None THEN today ELSE selectedDate - 1
      BY <1>1, <1>2, <1>5 DEF PrevDay, shiftLocalDate
    <2>2. selectedDate' \in (today - clicks - 1)..today
      BY <1>1, <1>2, <2>1
    <2>3. ClickSets
      BY <1>1, <1>5, <2>2 DEF PrevDay, ClickSets, ViewOK
    <2>4. QED
      BY <1>5, <2>3, ClickOK DEF PrevDay
  <1>6. CASE NextDay
    <2>1. selectedDate # None /\ selectedDate < today /\ selectedDate' = selectedDate + 1
      BY <1>6 DEF NextDay, shiftLocalDate
    <2>2. selectedDate' \in (today - clicks - 1)..today
      BY <1>1, <1>2, <2>1
    <2>3. ClickSets
      BY <1>1, <1>6, <2>2 DEF NextDay, ClickSets, ViewOK
    <2>4. QED
      BY <1>6, <2>3, ClickOK DEF NextDay
  <1>7. CASE AllTime
    <2>1. ClickSets
      BY <1>1, <1>7 DEF AllTime, ClickSets, ViewOK
    <2>2. QED
      BY <1>7, <2>1, ClickOK DEF AllTime
  <1>8. ASSUME NEW app \in Apps \cup {None}, SelectApp(app)
        PROVE  PageTypes'
    <2>1. token # None
      BY <1>8 DEF SelectApp, Click
    <2>2. ClickSets
      BY <1>1, <1>3, <1>8, <2>1 DEF SelectApp, ClickSets, ViewOK
    <2>3. QED
      BY <1>8, <2>2, ClickOK DEF SelectApp
  <1>9. QED
    BY <1>4, <1>5, <1>6, <1>7, <1>8

LEMMA DoorsOK ==
    ASSUME PageTypes, Forget \/ Reopen \/ \E code \in Tokens : Connect(code)
    PROVE  PageTypes'
  <1>1. ViewOK /\ answers \in Nat /\ StatusOK(status, answers)
    BY DEF PageTypes
  <1>2. clicks \in 0..MaxClicks /\ clicks < MaxClicks /\ clicks' = clicks + 1
    BY DEF PageTypes, ViewOK, Forget, Reopen, Connect
  <1>3. MaxClicks \in Nat /\ today \in Nat /\ clicks' \in 0..MaxClicks
    BY <1>2, KeysPageAssumption
  <1>4. selectedDate = None \/ selectedDate \in (today - clicks')..today
    BY <1>1, <1>2, <1>3 DEF ViewOK
  <1>5. UNCHANGED <<counts, running, cache, fetching, answers>>
    BY DEF agentVars, Forget, Reopen, Connect
  <1>6. ASSUME ViewOK', StatusOK(status', answers)
        PROVE  PageTypes'
    BY <1>5, <1>6 DEF PageTypes, StoreOK, CacheOK, RequestsOK
  <1>7. CASE Forget
    <2>1. status' = Mounted
      BY <1>7 DEF Forget, Readout
    <2>2. StatusOK(status', answers)
      BY <1>1, <2>1, MountedOK
    <2>3. ViewOK'
      BY <1>1, <1>3, <1>4, <1>7 DEF Forget, ViewOK
    <2>4. QED
      BY <1>6, <2>2, <2>3
  <1>8. CASE Reopen
    <2> DEFINE e == EntryIn(cache, keysKey(saved, None, None))
    <2>1. EntryOK(e, answers)
      BY EntryInOK DEF PageTypes
    <2>2. status' = Mounted \/ status' = Settled(Mounted, e.data, e.at)
      BY <1>8 DEF Reopen, Readout
    <2> HIDE DEF e
    <2>3. StatusOK(status', answers)
      BY <1>1, <2>1, <2>2, MountedOK, RemountedOK, Zenon
    <2>4. ViewOK'
      BY <1>1, <1>3, <1>8 DEF Reopen, ViewOK, Modes
    <2>5. QED
      BY <1>6, <2>3, <2>4
  <1>9. ASSUME NEW code \in Tokens, Connect(code)
        PROVE  PageTypes'
    <2> DEFINE e == EntryIn(cache, QueryOf(code, viewMode, appFilter, selectedDate))
    <2>1. EntryOK(e, answers)
      BY EntryInOK DEF PageTypes
    <2>2. status' = Settled(Mounted, e.data, e.at)
      BY <1>9 DEF Connect, Readout
    <2> HIDE DEF e
    <2>3. StatusOK(status', answers)
      BY <1>1, <2>1, <2>2, RemountedOK, Zenon
    <2>4. ViewOK'
      BY <1>1, <1>3, <1>4, <1>9 DEF Connect, ViewOK
    <2>5. QED
      BY <1>6, <2>3, <2>4
  <1>10. QED
    BY <1>7, <1>8, <1>9

\* A press makes one count larger by one, or a new one.
LEMMA PressEffect ==
    ASSUME PageTypes, NEW key \in Keys, NEW app \in Apps, Press(key, app)
    PROVE  \E row \in Codes \X Keys \X Apps \X Int :
               /\ DOMAIN counts' = DOMAIN counts \cup {row}
               /\ \A r \in DOMAIN counts \ {row} : counts'[r] = counts[r]
               /\ counts'[row] \in Nat \ {0}
               /\ row \in DOMAIN counts => counts'[row] = counts[row] + 1
  <1> DEFINE row == <<running, key, app, today>>
             g == counts'
  <1>1. row \in Codes \X Keys \X Apps \X Int
    BY KeysPageAssumption DEF PageTypes, Press
  <1>2. g = With(counts, row, IF row \in DOMAIN counts THEN counts[row] + 1 ELSE 1)
    BY DEF Press
  <1>3. row \in DOMAIN counts => counts[row] \in Nat \ {0}
    BY DEF PageTypes, StoreOK
  <1> HIDE DEF row
  <1>4. /\ DOMAIN g = DOMAIN counts \cup {row} /\ \A r \in DOMAIN counts \ {row} : g[r] = counts[r]
        /\ g[row] = IF row \in DOMAIN counts THEN counts[row] + 1 ELSE 1
    BY <1>2 DEF With
  <1> HIDE DEF g
  <1>5. g[row] \in Nat \ {0} /\ (row \in DOMAIN counts => g[row] = counts[row] + 1)
    BY <1>3, <1>4
  <1>6. QED
    BY <1>1, <1>4, <1>5 DEF g

LEMMA PressOK ==
    ASSUME PageTypes, NEW key \in Keys, NEW app \in Apps, Press(key, app)
    PROVE  PageTypes'
  <1>1. PICK row \in Codes \X Keys \X Apps \X Int :
               /\ DOMAIN counts' = DOMAIN counts \cup {row}
               /\ \A r \in DOMAIN counts \ {row} : counts'[r] = counts[r]
               /\ counts'[row] \in Nat \ {0}
    BY PressEffect, Zenon
  <1>2. IsFiniteSet(DOMAIN counts \cup {row})
    BY FS_AddElement DEF PageTypes, StoreOK
  <1>3. StoreOK'
    BY <1>1, <1>2 DEF PageTypes, StoreOK
  <1>4. UNCHANGED <<running, saved, viewVars, cache, fetching, status, answers, clicks, filterOf>>
    BY DEF Press, statusVars
  <1>5. QED
    BY <1>3, <1>4 DEF PageTypes, ViewOK, viewVars, CacheOK, RequestsOK

LEMMA ElsewhereOK ==
    ASSUME PageTypes, Elsewhere
    PROVE  PageTypes'
  <1>1. /\ UNCHANGED <<counts, viewVars, cache, fetching, status, answers, clicks, filterOf>>
        /\ running' \in Codes \cup {None} /\ saved' \in Tokens \cup {None}
    BY DEF Elsewhere, ProgramRuns, OtherTab, statusVars, PageTypes, ViewOK, Tokens
  <1>2. QED
    BY <1>1 DEF PageTypes, ViewOK, viewVars, StoreOK, CacheOK, RequestsOK

LEMMA TypesStep == PageTypes /\ [Next]_vars => PageTypes'
  <1> SUFFICES ASSUME PageTypes, [Next]_vars PROVE PageTypes'
    OBVIOUS
  <1>1. CASE Fetch
    <2>1. RequestsOK(fetching') /\ CacheOK(cache', answers)
      BY <1>1, SendOK DEF Fetch
    <2>2. UNCHANGED <<running, counts, saved, viewVars, status, answers, clicks, filterOf>>
      BY <1>1 DEF Fetch, agentVars, statusVars
    <2>3. QED
      BY <2>1, <2>2 DEF PageTypes, ViewOK, viewVars, StoreOK
  <1>2. CASE CheckForUpdates
    <2>1. RequestsOK(fetching') /\ CacheOK(cache', answers)
      BY <1>2, SendOK DEF CheckForUpdates
    <2>2. /\ UNCHANGED <<running, counts, saved, viewVars, answers, filterOf>>
          /\ status' = handleClick(status) /\ clicks < MaxClicks /\ clicks' = clicks + 1
      BY <1>2 DEF CheckForUpdates, agentVars, Readout
    <2>3. StatusOK(status', answers)
      BY <2>2, ClickedOK DEF PageTypes
    <2>4. /\ clicks' \in 0..MaxClicks
          /\ selectedDate = None \/ selectedDate \in (today - clicks')..today
      BY <2>2, KeysPageAssumption DEF PageTypes, ViewOK
    <2>5. QED
      BY <2>1, <2>2, <2>3, <2>4 DEF PageTypes, ViewOK, viewVars, StoreOK
  <1>3. ASSUME NEW q \in DOMAIN fetching, NEW lost \in SUBSET {"apps", "items"}, Answer(q, lost)
        PROVE  PageTypes'
    <2>1. /\ RequestsOK(fetching') /\ answers' = answers + 1
          /\ CacheOK(cache', answers') /\ StatusOK(status', answers')
      BY <1>3, AnswerOK
    <2>2. UNCHANGED <<running, counts, saved, viewVars, clicks, filterOf>>
      BY <1>3 DEF Answer, agentVars
    <2>3. answers' \in Nat
      BY <2>1 DEF PageTypes
    <2>4. QED
      BY <2>1, <2>2, <2>3 DEF PageTypes, ViewOK, viewVars, StoreOK
  <1>4. CASE NoticeTimer
    <2>1. status' = NoticeOver(status)
      BY <1>4 DEF NoticeTimer, Readout
    <2>2. UNCHANGED <<running, counts, saved, viewVars, cache, fetching, answers, clicks, filterOf>>
      BY <1>4 DEF NoticeTimer, agentVars
    <2>3. StatusOK(status', answers)
      BY <2>1, ClickedOK DEF PageTypes
    <2>4. QED
      BY <2>2, <2>3 DEF PageTypes, ViewOK, viewVars, StoreOK, CacheOK, RequestsOK
  <1>5. CASE User
    BY <1>2, <1>5, ControlsOK, DoorsOK DEF User
  <1>6. ASSUME NEW key \in Keys, NEW app \in Apps, Press(key, app)
        PROVE  PageTypes'
    BY <1>6, PressOK
  <1>7. CASE Elsewhere
    BY <1>7, ElsewhereOK
  <1>8. CASE UNCHANGED vars
    BY <1>8 DEF vars, agentVars, viewVars, statusVars, PageTypes, ViewOK, StoreOK, CacheOK, RequestsOK
  <1>9. QED
    BY <1>1, <1>3, <1>4, <1>5, <1>6, <1>7, <1>8 DEF Next

LEMMA InitTypes == Init => PageTypes
  <1> SUFFICES ASSUME Init PROVE PageTypes
    OBVIOUS
  <1>1. StoreOK
    BY KeysPageAssumption DEF Init, StoreOK
  <1>2. ViewOK
    BY KeysPageAssumption DEF Init, ViewOK, Modes, Tokens
  <1>3. StatusOK(status, answers)
    BY MountedOK DEF Init
  <1>4. CacheOK(cache, answers) /\ RequestsOK(fetching)
    BY DEF Init, CacheOK, RequestsOK
  <1>5. QED
    BY <1>1, <1>2, <1>3, <1>4 DEF Init, PageTypes

\* The page asks only with codes it was given and keeps only well-formed answers, the
\* day it is set to is no further from today than its arrows were clicked, and its
\* readout has a time if and only if it has seen an answer, for any programs, apps and
\* keys (KeysView.tsx:48-96, 208-239, RefreshStatus.tsx:44-73).
THEOREM KeysTypeCorrect == Spec => []TypeOK
  <1>1. PageTypes => TypeOK
    <2> SUFFICES ASSUME PageTypes PROVE TypeOK
      OBVIOUS
    <2>1. ASSUME NEW q \in DOMAIN cache
          PROVE  /\ q.kind \in {"local-keys", "local-apps"} /\ q.token \in Tokens
                 /\ cache[q].data.apps \in Seq(Apps) /\ cache[q].data.items \in Listed
                 /\ cache[q].at \in 0..answers
                 /\ cache[q].error \in {None, "unreachable", "unauthorized"}
      <3>1. Queried(q) /\ EntryOK(cache[q], answers)
        BY DEF PageTypes, CacheOK
      <3>2. QED
        BY <3>1 DEF Queried, EntryOK, Errors
    <2>2. \A q \in DOMAIN fetching : q.token \in Tokens /\ fetching[q] \in Tokens \cup {None}
      BY DEF PageTypes, RequestsOK, Queried
    <2>3. selectedDate \in Dates \cup {None}
      BY KeysPageAssumption DEF PageTypes, ViewOK, Dates
    <2>4. appFilter # None => filterOf # None
      BY KeysPageAssumption DEF PageTypes, ViewOK, Tokens
    <2>5. QED
      BY <2>1, <2>2, <2>3, <2>4 DEF PageTypes, ViewOK, StoreOK, StatusOK, Readouts, TypeOK
  <1>2. QED
    BY <1>1, InitTypes, TypesStep, PTL DEF Spec

-----------------------------------------------------------------------------
(***************************************************************************)
(* What is cached of a query, and what is asked, is of that query.  None   *)
(* of the parts of PageTrue is inductive: the numbers on the page after a  *)
(* click are those of an answer that came before it, and the filter of a   *)
(* request in flight was picked from a list that is no longer shown.       *)
(***************************************************************************)
PartOf(q, name) ==
    {r \in Rows(q.token, q.app, q.date) :
        name = IF q.kind = "local-apps" THEN r[3] ELSE r[2]}

\* Program c has presses in this app, and in another.
KnownTo(c, app) == \E r, s \in Rows(c, None, None) : r[3] = app /\ s[3] # app

ListsTrue(q, e) ==
    /\ \A i \in DOMAIN e.data.items : e.data.items[i].keys <= TotalOf(PartOf(q, e.data.items[i].name))
    /\ \A app \in ToSet(e.data.apps) : \E r \in Rows(q.token, None, None) : r[3] = app
    /\ IsInjective(e.data.apps)

FilterTrue(q, e) ==
    e.at # 0 /\ q.app # None => \/ <<q.token, q.app>> \in unlisted
                                \/ (q.app \in ToSet(e.data.apps) /\ Len(e.data.apps) > 1)

EntryTrue(q, e) == ListsTrue(q, e) /\ FilterTrue(q, e)

RequestTrue(q, code) ==
    /\ code = q.token
    /\ q.app # None => <<q.token, q.app>> \in unlisted \/ KnownTo(q.token, q.app)

CacheTrue    == \A q \in DOMAIN cache : \A e : e = cache[q] => EntryTrue(q, e)
RequestsTrue == \A q \in DOMAIN fetching : \A code : code = fetching[q] => RequestTrue(q, code)
FilterKnown  == appFilter # None => \A c, app : c = filterOf /\ app = appFilter => KnownTo(c, app)
FilterOwn    == token # None /\ appFilter # None
                => filterOf = token \/ <<token, appFilter>> \in unlisted

Truth ==
    /\ FilterOwn
    /\ ~moved => token = saved /\ CacheTrue /\ RequestsTrue /\ FilterKnown

PageInv == PageTypes /\ Truth

LEMMA NoEntryTrue == \A q : EntryTrue(q, NoEntry)
  BY DEF EntryTrue, ListsTrue, FilterTrue, NoEntry, ToSet, IsInjective

\* Counts only grow.
CountsGrow == counts' = counts \/ \E key \in Keys, app \in Apps : Press(key, app)

LEMMA PartTotal == StoreOK => \A p, m : TotalOf(PartOf(p, m)) \in Nat
  BY RowsFinite DEF PartOf, Rows

LEMMA RowsGrow ==
    ASSUME PageTypes, CountsGrow, NEW c, NEW app, NEW date
    PROVE  Rows(c, app, date) \subseteq Rows(c, app, date)'
  <1>1. DOMAIN counts \subseteq DOMAIN counts'
    BY PressEffect DEF CountsGrow
  <1>2. QED
    BY <1>1 DEF Rows

LEMMA PartGrows ==
    ASSUME PageTypes, CountsGrow, NEW q, NEW name
    PROVE  TotalOf(PartOf(q, name)) \in Nat /\ TotalOf(PartOf(q, name)) <= TotalOf(PartOf(q, name))'
  <1> DEFINE P == PartOf(q, name)
             Q == P'
             g == counts'
  <1>1. P \in SUBSET DOMAIN counts
    BY DEF PartOf, Rows
  <1>2. StoreOK
    BY DEF PageTypes
  <1>3. IsFiniteSet(P) /\ TotalOf(P) \in Nat /\ TotalOf(P) = SumOn(counts, P)
    BY <1>1, <1>2, RowsFinite DEF TotalOf
  <1>4. TotalOf(P)' = SumOn(g, Q)
    BY DEF TotalOf
  <1>5. CASE counts' = counts
    <2>1. Q = P
      BY <1>5 DEF PartOf, Rows
    <2>2. SumOn(g, Q) = SumOn(counts, P)
      BY <1>5, <2>1, Zenon
    <2>3. QED
      BY <1>3, <1>4, <2>2
  <1>6. CASE counts' # counts
    <2>1. PICK row : /\ DOMAIN g = DOMAIN counts \cup {row}
                     /\ \A r \in DOMAIN counts \ {row} : g[r] = counts[r]
                     /\ g[row] \in Nat \ {0}
                     /\ row \in DOMAIN counts => g[row] = counts[row] + 1
      BY <1>6, PressEffect DEF CountsGrow
    <2>2. Q = P \/ (row \notin DOMAIN counts /\ Q = P \cup {row})
      <3>1. Q = {r \in DOMAIN g : r \in Q} /\ \A r \in DOMAIN counts : r \in Q <=> r \in P
        BY <2>1 DEF PartOf, Rows
      <3>2. Q \subseteq P \cup {row} /\ P \subseteq Q
        BY <1>1, <2>1, <3>1
      <3> HIDE DEF P, Q
      <3>3. QED
        BY <3>1, <3>2, <2>1
    <2> HIDE DEF P, Q, g
    <2>3. \A r \in P : counts[r] \in Int /\ counts[r] >= 0
      BY <1>1, <1>2 DEF StoreOK
    <2>4. \A r \in P : g[r] \in Int
      BY <1>1, <2>1, <2>3
    <2>5. \A r \in P : counts[r] <= g[r]
      BY <1>1, <2>1, <2>3
    <2>6. SumOn(counts, P) <= SumOn(g, P)
      BY <1>3, <2>3, <2>4, <2>5, SumMono
    <2>7. CASE Q = P
      BY <1>3, <1>4, <2>6, <2>7 DEF P, Q, g
    <2>8. CASE row \notin DOMAIN counts /\ Q = P \cup {row}
      <3>1. row \notin P /\ \A r \in P : g[r] = counts[r]
        BY <1>1, <2>1, <2>8
      <3>2. SumOn(g, P \cup {row}) = SumOn(counts, P) + g[row]
        BY <1>3, <2>1, <2>3, <3>1, SumGrows
      <3>3. SumOn(g, Q) = SumOn(counts, P) + g[row]
        BY <2>8, <3>2, Zenon
      <3>4. QED
        BY <1>3, <1>4, <2>1, <3>3 DEF P, Q, g
    <2>9. QED
      BY <2>2, <2>7, <2>8
  <1>7. QED
    BY <1>5, <1>6

\* What was true of an answer, of a request and of a filter stays true.
LEMMA TrueStays ==
    ASSUME PageTypes, CountsGrow, unlisted \subseteq unlisted', NEW q, NEW e, NEW n, NEW code,
           NEW c, NEW app
    PROVE  /\ EntryOK(e, n) /\ ListsTrue(q, e) => ListsTrue(q, e)'
           /\ EntryOK(e, n) /\ EntryTrue(q, e) => EntryTrue(q, e)'
           /\ RequestTrue(q, code) => RequestTrue(q, code)'
           /\ KnownTo(c, app) => KnownTo(c, app)'
  <1>1. ASSUME NEW d, NEW a, KnownTo(d, a)
        PROVE  KnownTo(d, a)'
    <2>1. Rows(d, None, None) \subseteq Rows(d, None, None)'
      BY RowsGrow
    <2>2. QED
      BY <1>1, <2>1 DEF KnownTo
  <1>2. RequestTrue(q, code) => RequestTrue(q, code)'
    BY <1>1 DEF RequestTrue
  <1>3. ASSUME EntryOK(e, n), ListsTrue(q, e)
        PROVE  ListsTrue(q, e)'
    <2>1. ASSUME NEW i \in DOMAIN e.data.items
          PROVE  e.data.items[i].keys <= TotalOf(PartOf(q, e.data.items[i].name))'
      <3> DEFINE item == e.data.items[i]
      <3>1. e.data.items \in Seq([name : Keys \cup Apps, keys : Nat])
        BY <1>3 DEF EntryOK, Listed
      <3>2. item \in [name : Keys \cup Apps, keys : Nat]
        BY <3>1, SeqParts, Zenon
      <3>3. item.keys \in Nat /\ item.keys <= TotalOf(PartOf(q, item.name))
        BY <1>3, <3>2 DEF ListsTrue
      <3>4. PICK name, keys : name = item.name /\ keys = item.keys
        OBVIOUS
      <3>5. TotalOf(PartOf(q, name)) \in Nat /\ TotalOf(PartOf(q, name)) <= TotalOf(PartOf(q, name))'
        BY PartGrows
      <3>6. keys \in Nat /\ keys <= TotalOf(PartOf(q, name))
        BY <3>3, <3>4, Zenon
      <3>7. TotalOf(PartOf(q, name))' \in Nat
        <4>1. StoreOK'
          BY PressOK DEF CountsGrow, PageTypes, StoreOK
        <4>2. (\A p, m : TotalOf(PartOf(p, m)) \in Nat)'
          BY <4>1, PartTotal, PTL
        <4>3. QED
          BY <4>2
      <3>8. keys <= TotalOf(PartOf(q, name))'
        BY <3>5, <3>6, <3>7
      <3>9. QED
        BY <3>4, <3>8, Zenon
    <2>2. Rows(q.token, None, None) \subseteq Rows(q.token, None, None)'
      BY RowsGrow
    <2>3. \A a \in ToSet(e.data.apps) : \E r \in Rows(q.token, None, None)' : r[3] = a
      BY <1>3, <2>2 DEF ListsTrue
    <2>4. IsInjective(e.data.apps)
      BY <1>3 DEF ListsTrue
    <2>5. QED
      BY <2>1, <2>3, <2>4 DEF ListsTrue
  <1>4. FilterTrue(q, e) => FilterTrue(q, e)'
    BY DEF FilterTrue
  <1>5. QED
    BY <1>1, <1>2, <1>3, <1>4 DEF EntryTrue

LEMMA TwoApps ==
    ASSUME StoreOK, NEW c, NEW a, KnownTo(c, a)
    PROVE  LET N == {r[3] : r \in Rows(c, None, None)} IN a \in N /\ Cardinality(N) > 1
  <1> DEFINE N == {r[3] : r \in Rows(c, None, None)}
  <1>1. PICK b \in N : a \in N /\ b # a
    BY DEF KnownTo
  <1>2. IsFiniteSet(N)
    BY NamesFinite DEF Rows
  <1> HIDE DEF N
  <1>3. Cardinality(N) \in Nat
    BY <1>2, FS_CardinalityType
  <1>4. Cardinality(N) # 0
    BY <1>1, <1>2, FS_EmptySet
  <1>5. Cardinality(N) # 1
    BY <1>1, <1>2, FS_Singleton
  <1>6. QED
    BY <1>1, <1>3, <1>4, <1>5 DEF N

\* The program's numbers are those of the query.
LEMMA KeysAreParts ==
    ASSUME StoreOK, NEW q, q.kind = "local-keys",
           NEW i \in DOMAIN top_keys(q.token, TopKeys, q.app, q.date)
    PROVE  LET item == top_keys(q.token, TopKeys, q.app, q.date)[i]
           IN  item.keys = TotalOf(PartOf(q, item.name))
  <1> DEFINE R == Rows(q.token, q.app, q.date)
             list == top_keys(q.token, TopKeys, q.app, q.date)
             name == list[i].name
  <1>1. ListOf(list, KeyTotals(R))
    BY KeysAnswer
  <1> HIDE DEF list
  <1>2. list[i].keys = KeyTotals(R)[name] /\ name \in DOMAIN KeyTotals(R)
    <2>1. list[i] \in [name : DOMAIN KeyTotals(R), keys : Nat]
      BY <1>1, SeqParts, Zenon DEF ListOf, list
    <2>2. list[i].keys = KeyTotals(R)[name]
      BY <1>1, Zenon DEF ListOf, list
    <2>3. QED
      BY <2>1, <2>2
  <1> HIDE DEF name
  <1>3. PartOf(q, name) = {r \in R : r[2] = name}
    BY DEF PartOf
  <1>4. KeyTotals(R)[name] = TotalOf({r \in R : r[2] = name})
    BY <1>2 DEF KeyTotals
  <1>5. list[i].keys = TotalOf(PartOf(q, name))
    BY <1>2, <1>3, <1>4, Zenon
  <1>6. QED
    BY <1>5 DEF name, list

LEMMA AppsAreParts ==
    ASSUME StoreOK, NEW q, q.kind = "local-apps", q.app = None,
           NEW i \in DOMAIN app_totals(q.token, q.date)
    PROVE  LET item == app_totals(q.token, q.date)[i]
           IN  item.keys = TotalOf(PartOf(q, item.name))
  <1> DEFINE R == Rows(q.token, None, q.date)
             list == app_totals(q.token, q.date)
             name == list[i].name
  <1>1. ListOf(list, AppTotals(R))
    BY AppsAnswer
  <1> HIDE DEF list
  <1>2. list[i].keys = AppTotals(R)[name] /\ name \in DOMAIN AppTotals(R)
    <2>1. list[i] \in [name : DOMAIN AppTotals(R), keys : Nat]
      BY <1>1, SeqParts, Zenon DEF ListOf, list
    <2>2. list[i].keys = AppTotals(R)[name]
      BY <1>1, Zenon DEF ListOf, list
    <2>3. QED
      BY <2>1, <2>2
  <1> HIDE DEF name
  <1>3. PartOf(q, name) = {r \in R : r[3] = name}
    BY DEF PartOf
  <1>4. AppTotals(R)[name] = TotalOf({r \in R : r[3] = name})
    BY <1>2 DEF AppTotals
  <1>5. list[i].keys = TotalOf(PartOf(q, name))
    BY <1>2, <1>3, <1>4, Zenon
  <1>6. QED
    BY <1>5 DEF name, list

\* An answer is of its query, if the request unlisted the query's code.
LEMMA OutcomeTrue ==
    ASSUME PageTypes, NEW q, Queried(q), NEW code, RequestTrue(q, code), NEW lost,
           EntryTrue(q, EntryIn(cache, q))
    PROVE  /\ ListsTrue(q, Outcome(q, code, lost))
           /\ FilterTrue(q, Outcome(q, code, lost)) \/ ("apps" \in lost /\ q.app # None)
  <1> DEFINE old == EntryIn(cache, q)
             mode == IF q.kind = "local-apps" THEN "apps" ELSE "list"
             body == Body(running, mode, q.app, q.date)
             new == [data |-> body, at |-> answers + 1, error |-> None]
             part == [data |-> Read(body, lost), at |-> answers + 1, error |-> None]
             refused == [old EXCEPT !.error = "unauthorized"]
             absent == [old EXCEPT !.error = "unreachable"]
  <1>1. \/ Outcome(q, code, lost) = refused \/ Outcome(q, code, lost) = absent
        \/ Outcome(q, code, lost) = part /\ code = running
    BY DEF Outcome
  <1>2. EntryOK(old, answers)
    BY EntryInOK DEF PageTypes
  <1>3. /\ refused.data = old.data /\ refused.at = old.at
        /\ absent.data = old.data /\ absent.at = old.at
    <2> HIDE DEF old
    <2>1. QED
      BY <1>2 DEF EntryOK
  <1>4. ASSUME NEW e, e.data = old.data, e.at = old.at
        PROVE  EntryTrue(q, e)
    <2> HIDE DEF old
    <2>1. EntryTrue(q, old)
      BY DEF old
    <2>2. QED
      BY <1>4, <2>1, Zenon DEF EntryTrue, ListsTrue, FilterTrue
  <1>5. EntryTrue(q, refused) /\ EntryTrue(q, absent)
    BY <1>3, <1>4, Zenon
  <1>6. ASSUME code = running
        PROVE  EntryTrue(q, new)
    <2>1. running = q.token /\ StoreOK
      BY <1>6 DEF RequestTrue, PageTypes
    <2>2. new.data = body /\ new.at = answers + 1
      OBVIOUS
    <2>3. CASE q.kind = "local-apps"
      <3>1. body = [apps |-> <<>>, items |-> app_totals(q.token, q.date)] /\ q.app = None
        BY <2>1, <2>3 DEF Body, Queried
      <3> HIDE DEF body
      <3>2. new.data.apps = <<>> /\ new.data.items = app_totals(q.token, q.date)
        BY <3>1
      <3> HIDE DEF new
      <3>3. ASSUME NEW i \in DOMAIN new.data.items
            PROVE  new.data.items[i].keys <= TotalOf(PartOf(q, new.data.items[i].name))
        <4>1. new.data.items[i].keys = TotalOf(PartOf(q, new.data.items[i].name))
          BY <2>1, <2>3, <3>1, <3>2, AppsAreParts, Zenon
        <4>2. TotalOf(PartOf(q, new.data.items[i].name)) \in Nat
          BY <2>1, PartTotal, Zenon
        <4>3. QED
          BY <4>1, <4>2
      <3>4. QED
        BY <3>1, <3>2, <3>3 DEF EntryTrue, ListsTrue, FilterTrue, ToSet, IsInjective
    <2>4. CASE q.kind = "local-keys"
      <3>1. body = [apps  |-> known_apps(q.token, q.date),
                    items |-> top_keys(q.token, TopKeys, q.app, q.date)]
        BY <2>1, <2>4 DEF Body
      <3> HIDE DEF body
      <3>2. /\ new.data.apps = known_apps(q.token, q.date)
            /\ new.data.items = top_keys(q.token, TopKeys, q.app, q.date)
        BY <3>1
      <3> HIDE DEF new
      <3>3. ASSUME NEW i \in DOMAIN new.data.items
            PROVE  new.data.items[i].keys <= TotalOf(PartOf(q, new.data.items[i].name))
        <4>1. new.data.items[i].keys = TotalOf(PartOf(q, new.data.items[i].name))
          BY <2>1, <2>4, <3>1, <3>2, KeysAreParts, Zenon
        <4>2. TotalOf(PartOf(q, new.data.items[i].name)) \in Nat
          BY <2>1, PartTotal, Zenon
        <4>3. QED
          BY <4>1, <4>2
      <3> DEFINE N == {r[3] : r \in Rows(q.token, None, None)}
      <3>4. /\ IsInjective(new.data.apps) /\ ToSet(new.data.apps) = N
            /\ Len(new.data.apps) = Cardinality(N)
        BY <2>1, <3>2, KnownApps, Zenon
      <3>5. \A app \in ToSet(new.data.apps) : \E r \in Rows(q.token, None, None) : r[3] = app
        BY <3>4
      <3>6. KnownTo(q.token, q.app) => q.app \in N /\ Cardinality(N) > 1
        BY <2>1, TwoApps
      <3> HIDE DEF N
      <3>7. q.app # None => \/ <<q.token, q.app>> \in unlisted
                            \/ (q.app \in ToSet(new.data.apps) /\ Len(new.data.apps) > 1)
        BY <3>4, <3>6 DEF RequestTrue
      <3>8. QED
        BY <3>3, <3>4, <3>5, <3>7 DEF EntryTrue, ListsTrue, FilterTrue
    <2>5. QED
      BY <2>3, <2>4 DEF Queried
  <1>7. ASSUME code = running
        PROVE  /\ ListsTrue(q, part)
               /\ FilterTrue(q, part) \/ ("apps" \in lost /\ q.app # None)
    <2>1. body = [apps |-> body.apps, items |-> body.items]
      BY DEF Body
    <2>2. ListsTrue(q, new) /\ FilterTrue(q, new)
      BY <1>6, <1>7 DEF EntryTrue
    <2> HIDE DEF body
    <2>3. /\ new.data = body /\ new.at = answers + 1
          /\ part.data = Read(body, lost) /\ part.at = answers + 1
      OBVIOUS
    <2>4. /\ part.data.apps = IF "apps" \in lost THEN <<>> ELSE body.apps
          /\ part.data.items = IF "items" \in lost THEN <<>> ELSE body.items
      BY <2>1, <2>3, ReadParts
    <2> HIDE DEF new, part
    <2>5. DOMAIN <<>> = {} /\ ToSet(<<>>) = {} /\ IsInjective(<<>>)
      BY DEF ToSet, IsInjective
    <2>6. \A i \in DOMAIN part.data.items :
             part.data.items[i].keys <= TotalOf(PartOf(q, part.data.items[i].name))
      <3>1. CASE "items" \in lost
        BY <2>4, <2>5, <3>1
      <3>2. CASE "items" \notin lost
        <4>1. part.data.items = new.data.items
          BY <2>3, <2>4, <3>2
        <4>2. QED
          BY <2>2, <4>1, Zenon DEF ListsTrue
      <3>3. QED
        BY <3>1, <3>2
    <2>7. /\ \A app \in ToSet(part.data.apps) : \E r \in Rows(q.token, None, None) : r[3] = app
          /\ IsInjective(part.data.apps)
      <3>1. CASE "apps" \in lost
        BY <2>4, <2>5, <3>1
      <3>2. CASE "apps" \notin lost
        BY <2>2, <2>3, <2>4, <3>2 DEF ListsTrue
      <3>3. QED
        BY <3>1, <3>2
    <2>8. "apps" \notin lost => FilterTrue(q, part)
      BY <2>2, <2>3, <2>4 DEF FilterTrue
    <2>9. "apps" \in lost /\ q.app = None => FilterTrue(q, part)
      BY DEF FilterTrue
    <2>10. QED
      BY <2>6, <2>7, <2>8, <2>9 DEF ListsTrue
  <1>8. QED
    BY <1>1, <1>5, <1>7, Zenon DEF EntryTrue

LEMMA SameTruth ==
    ASSUME PageTypes, CountsGrow, unlisted \subseteq unlisted'
    PROVE  /\ CacheTrue /\ cache' = cache => CacheTrue'
           /\ RequestsTrue /\ fetching' = fetching => RequestsTrue'
           /\ FilterKnown /\ UNCHANGED <<appFilter, filterOf>> => FilterKnown'
  <1>1. ASSUME CacheTrue, cache' = cache
        PROVE  CacheTrue'
    <2> SUFFICES ASSUME NEW q \in DOMAIN cache', NEW e, e = cache'[q] PROVE EntryTrue(q, e)'
      BY DEF CacheTrue
    <2>1. EntryTrue(q, e) /\ EntryOK(e, answers)
      BY <1>1 DEF CacheTrue, PageTypes, CacheOK
    <2>2. PICK n : n = answers
      OBVIOUS
    <2>3. EntryOK(e, n)
      BY <2>1, <2>2
    <2>4. QED
      BY <2>1, <2>3, TrueStays
  <1>2. ASSUME RequestsTrue, fetching' = fetching
        PROVE  RequestsTrue'
    <2> SUFFICES ASSUME NEW q \in DOMAIN fetching', NEW code, code = fetching'[q]
                 PROVE  RequestTrue(q, code)'
      BY DEF RequestsTrue
    <2>1. RequestTrue(q, code)
      BY <1>2 DEF RequestsTrue
    <2>2. QED
      BY <2>1, TrueStays
  <1>3. ASSUME FilterKnown, UNCHANGED <<appFilter, filterOf>>
        PROVE  FilterKnown'
    <2> SUFFICES ASSUME appFilter' # None, NEW c, NEW app, c = filterOf', app = appFilter'
                 PROVE  KnownTo(c, app)'
      BY DEF FilterKnown
    <2>1. KnownTo(c, app)
      BY <1>3 DEF FilterKnown
    <2>2. QED
      BY <2>1, TrueStays
  <1>4. QED
    BY <1>1, <1>2, <1>3

LEMMA SendTrue ==
    ASSUME PageInv, Send, UNCHANGED <<counts, unlisted, token, saved, appFilter, filterOf, moved>>
    PROVE  Truth'
  <1>1. PageTypes /\ Truth /\ CountsGrow /\ unlisted \subseteq unlisted'
    BY DEF PageInv, CountsGrow
  <1>2. FilterOwn'
    BY <1>1 DEF Truth, FilterOwn
  <1>3. ASSUME ~moved
        PROVE  token' = saved' /\ CacheTrue' /\ RequestsTrue' /\ FilterKnown'
    <2>1. token = saved /\ CacheTrue /\ RequestsTrue /\ FilterKnown /\ FilterOwn
      BY <1>1, <1>3 DEF Truth
    <2>2. CacheTrue'
      <3>1. DOMAIN cache' \subseteq DOMAIN cache /\ \A q \in DOMAIN cache' : cache'[q] = cache[q]
        <4>1. cache' = cache \/ \E S \in SUBSET DOMAIN cache : cache' = [q \in S |-> cache[q]]
          BY DEF Send
        <4>2. QED
          BY <4>1
      <3> SUFFICES ASSUME NEW q \in DOMAIN cache', NEW e, e = cache'[q] PROVE EntryTrue(q, e)'
        BY DEF CacheTrue
      <3>2. EntryTrue(q, e) /\ EntryOK(e, answers)
        BY <2>1, <3>1 DEF CacheTrue, PageTypes, CacheOK, PageInv
      <3>3. PICK n : n = answers
        OBVIOUS
      <3>4. EntryOK(e, n)
        BY <3>2, <3>3
      <3>5. QED
        BY <1>1, <3>2, <3>4, TrueStays
    <2>3. RequestsTrue'
      <3> SUFFICES ASSUME NEW q \in DOMAIN fetching', NEW code, code = fetching'[q]
                   PROVE  RequestTrue(q, code)'
        BY DEF RequestsTrue
      <3>1. \/ q \in DOMAIN fetching /\ code = fetching[q]
            \/ q = activeQuery /\ code = saved
        BY DEF Send, With
      <3>2. CASE q \in DOMAIN fetching /\ code = fetching[q]
        BY <1>1, <2>1, <3>2, TrueStays DEF RequestsTrue
      <3>3. CASE q = activeQuery /\ code = saved
        <4>1. token \in Tokens /\ viewMode \in Modes /\ appFilter \in Apps \cup {None}
          BY DEF PageInv, PageTypes, ViewOK, Send
        <4>2. q.token = token /\ q.app = IF viewMode = "apps" THEN None ELSE appFilter
          BY <3>3, <4>1, AskedFor DEF activeQuery
        <4>3. ASSUME q.app # None
              PROVE  <<q.token, q.app>> \in unlisted \/ KnownTo(q.token, q.app)
          <5>1. q.app = appFilter /\ appFilter # None /\ token # None
            BY <4>2, <4>3 DEF Send
          <5>2. PICK c, app : c = token /\ app = appFilter
            OBVIOUS
          <5>3. filterOf = c => KnownTo(c, app)
            BY <2>1, <5>1, <5>2 DEF FilterKnown
          <5>4. filterOf = c \/ <<c, app>> \in unlisted
            BY <2>1, <5>1, <5>2 DEF FilterOwn
          <5>5. <<c, app>> \in unlisted \/ KnownTo(c, app)
            BY <5>3, <5>4
          <5>6. q.token = c /\ q.app = app
            BY <4>2, <5>1, <5>2
          <5>7. QED
            BY <5>5, <5>6, Zenon
        <4>4. RequestTrue(q, code)
          BY <2>1, <3>3, <4>2, <4>3 DEF RequestTrue
        <4>5. QED
          BY <1>1, <4>4, TrueStays
      <3>4. QED
        BY <3>1, <3>2, <3>3
    <2>4. FilterKnown'
      BY <1>1, <2>1, SameTruth
    <2>5. QED
      BY <2>1, <2>2, <2>3, <2>4
  <1>4. QED
    BY <1>2, <1>3 DEF Truth

LEMMA AnswerTrue ==
    ASSUME PageInv, NEW q \in DOMAIN fetching, NEW lost, Answer(q, lost)
    PROVE  Truth'
  <1>1. PageTypes /\ Truth /\ UNCHANGED <<counts, token, saved, appFilter, filterOf, moved>>
    BY DEF PageInv, Answer, agentVars, viewVars
  <1>2. CountsGrow /\ unlisted \subseteq unlisted'
    BY <1>1 DEF CountsGrow, Answer
  <1>3. FilterOwn'
    BY <1>1, <1>2 DEF Truth, FilterOwn
  <1>4. ASSUME ~moved
        PROVE  token' = saved' /\ CacheTrue' /\ RequestsTrue' /\ FilterKnown'
    <2>1. token = saved /\ CacheTrue /\ RequestsTrue /\ FilterKnown
      BY <1>1, <1>4 DEF Truth
    <2>2. PICK o, n : o = Outcome(q, fetching[q], lost) /\ n = answers + 1
      OBVIOUS
    <2>3. cache' = With(cache, q, o) /\ fetching' = [k \in DOMAIN fetching \ {q} |-> fetching[k]]
      BY <2>2 DEF Answer
    <2>4. /\ Queried(q) /\ EntryOK(o, n) /\ ListsTrue(q, o)
          /\ FilterTrue(q, o) \/ ("apps" \in lost /\ q.app # None)
      <3>1. Queried(q)
        BY <1>1 DEF PageTypes, RequestsOK
      <3>2. EntryOK(Outcome(q, fetching[q], lost), answers + 1)
        BY <1>1, OutcomeOK DEF PageTypes
      <3>3. EntryTrue(q, EntryIn(cache, q))
        BY <2>1, NoEntryTrue DEF CacheTrue, EntryIn
      <3>4. RequestTrue(q, fetching[q])
        BY <2>1 DEF RequestsTrue
      <3>5. /\ ListsTrue(q, Outcome(q, fetching[q], lost))
            /\ FilterTrue(q, Outcome(q, fetching[q], lost)) \/ ("apps" \in lost /\ q.app # None)
        BY <1>1, <3>1, <3>3, <3>4, OutcomeTrue
      <3>6. QED
        BY <2>2, <3>1, <3>2, <3>5, Zenon
    <2>5. CacheTrue'
      <3> SUFFICES ASSUME NEW k \in DOMAIN cache', NEW e, e = cache'[k] PROVE EntryTrue(k, e)'
        BY DEF CacheTrue
      <3>1. (k \in DOMAIN cache /\ e = cache[k]) \/ (k = q /\ e = o)
        BY <2>3 DEF With
      <3>2. CASE k \in DOMAIN cache /\ e = cache[k]
        <4>1. PICK m : m = answers
          OBVIOUS
        <4>2. EntryTrue(k, e) /\ EntryOK(e, m)
          BY <1>1, <2>1, <3>2, <4>1 DEF CacheTrue, PageTypes, CacheOK
        <4>3. QED
          BY <1>1, <1>2, <4>2, TrueStays
      <3>3. CASE k = q /\ e = o
        <4>1. ListsTrue(q, o)'
          BY <1>1, <1>2, <2>4, TrueStays
        <4>2. FilterTrue(q, o)'
          <5>1. CASE FilterTrue(q, o)
            BY <1>2, <5>1 DEF FilterTrue
          <5>2. CASE "apps" \in lost /\ q.app # None
            <6>1. <<q.token, q.app>> \in unlisted'
              BY <5>2 DEF Answer
            <6>2. QED
              BY <6>1 DEF FilterTrue
          <5>3. QED
            BY <2>4, <5>1, <5>2
        <4>3. EntryTrue(q, o)'
          BY <4>1, <4>2 DEF EntryTrue
        <4>4. QED
          BY <3>3, <4>3, Zenon
      <3>4. QED
        BY <3>1, <3>2, <3>3
    <2>6. RequestsTrue'
      <3> SUFFICES ASSUME NEW k \in DOMAIN fetching', NEW code, code = fetching'[k]
                   PROVE  RequestTrue(k, code)'
        BY DEF RequestsTrue
      <3>1. k \in DOMAIN fetching /\ code = fetching[k]
        BY <2>3
      <3>2. QED
        BY <1>1, <1>2, <2>1, <3>1, TrueStays DEF RequestsTrue
    <2>7. FilterKnown'
      BY <1>1, <1>2, <2>1, SameTruth
    <2>8. QED
      BY <1>1, <2>1, <2>5, <2>6, <2>7
  <1>5. QED
    BY <1>1, <1>3, <1>4 DEF Truth

\* A step that leaves what is cached, asked and filtered alone.
LEMMA RestTrue ==
    ASSUME PageInv, CountsGrow, unlisted \subseteq unlisted', UNCHANGED <<cache, fetching>>,
           ~moved' => ~moved /\ token' = saved',
           FilterOwn', ~moved => FilterKnown'
    PROVE  Truth'
  <1>1. PageTypes /\ Truth
    BY DEF PageInv
  <1>2. ASSUME ~moved'
        PROVE  token' = saved' /\ CacheTrue' /\ RequestsTrue' /\ FilterKnown'
    <2>1. CacheTrue /\ RequestsTrue
      BY <1>1, <1>2 DEF Truth
    <2>2. CacheTrue' /\ RequestsTrue'
      BY <1>1, <2>1, SameTruth
    <2>3. QED
      BY <1>2, <2>2
  <1>3. QED
    BY <1>2 DEF Truth

\* An app that the filter offers is known to the program, and so is another.
LEMMA PickedIsKnown ==
    ASSUME PageInv, ~moved, token # None, NEW app \in picker
    PROVE  KnownTo(token, app)
  <1> DEFINE apps == Entry.data.apps
  <1>1. viewMode # "apps" /\ Len(apps) > 1 /\ app \in ToSet(apps)
    BY DEF picker
  <1>2. EntryTrue(activeQuery, Entry)
    BY NoEntryTrue DEF PageInv, Truth, CacheTrue, Entry, EntryIn
  <1>3. activeQuery.token = token
    BY AskedFor DEF PageInv, PageTypes, ViewOK, activeQuery
  <1>4. apps \in Seq(Apps)
    <2>1. EntryOK(Entry, answers)
      BY EntryInOK DEF PageInv, PageTypes, Entry
    <2>2. QED
      BY <2>1 DEF EntryOK
  <1>5. IsInjective(apps) /\ \A a \in ToSet(apps) : \E r \in Rows(token, None, None) : r[3] = a
    BY <1>2, <1>3 DEF EntryTrue, ListsTrue, FilterTrue
  <1> HIDE DEF apps
  <1>6. Len(apps) \in Nat /\ DOMAIN apps = 1..Len(apps)
    BY <1>4, SeqParts, Zenon
  <1>7. 1 \in DOMAIN apps /\ 2 \in DOMAIN apps
    BY <1>1, <1>6
  <1>8. apps[1] # apps[2]
    BY <1>5, <1>7 DEF IsInjective
  <1>9. PICK b \in ToSet(apps) : b # app
    <2>1. apps[1] \in ToSet(apps) /\ apps[2] \in ToSet(apps)
      BY <1>7 DEF ToSet
    <2>2. QED
      BY <1>8, <2>1
  <1>10. QED
    BY <1>1, <1>5, <1>9 DEF KnownTo

LEMMA ControlsTrue ==
    ASSUME PageInv,
           \/ \E mode \in Modes : SelectMode(mode)
           \/ PrevDay \/ NextDay \/ AllTime
           \/ \E app \in Apps \cup {None} : SelectApp(app)
    PROVE  Truth'
  <1>1. PageTypes /\ Truth
    BY DEF PageInv
  <1>2. Click
    BY DEF SelectMode, PrevDay, NextDay, AllTime, SelectApp
  <1>3. /\ UNCHANGED <<counts, saved, token, cache, fetching, unlisted, moved>> /\ token # None
        /\ CountsGrow /\ unlisted \subseteq unlisted'
    BY <1>2 DEF Click, agentVars, CountsGrow
  <1>4. ~moved' => ~moved /\ token' = saved'
    BY <1>1, <1>3 DEF Truth
  <1>5. CASE UNCHANGED <<appFilter, filterOf>>
    <2>1. FilterOwn'
      BY <1>1, <1>3, <1>5 DEF Truth, FilterOwn
    <2>2. ~moved => FilterKnown'
      BY <1>1, <1>3, <1>5, SameTruth DEF Truth
    <2>3. QED
      BY <1>3, <1>4, <2>1, <2>2, RestTrue
  <1>6. ASSUME NEW app \in Apps \cup {None}, SelectApp(app)
        PROVE  Truth'
    <2>1. app \in picker \cup {None} /\ appFilter' = app /\ filterOf' = token
      BY <1>6 DEF SelectApp
    <2>2. FilterOwn'
      BY <1>3, <2>1 DEF FilterOwn
    <2>3. ASSUME ~moved
          PROVE  FilterKnown'
      <3> SUFFICES ASSUME appFilter' # None, NEW c, NEW a, c = filterOf', a = appFilter'
                   PROVE  KnownTo(c, a)'
        BY DEF FilterKnown
      <3>1. a \in picker /\ c = token
        BY <2>1
      <3>2. KnownTo(token, a)
        BY <1>3, <2>3, <3>1, PickedIsKnown
      <3>3. KnownTo(c, a)
        BY <3>1, <3>2
      <3>4. QED
        BY <1>1, <1>3, <3>3, TrueStays
    <2>4. QED
      BY <1>3, <1>4, <2>2, <2>3, RestTrue
  <1>7. QED
    BY <1>5, <1>6 DEF SelectMode, PrevDay, NextDay, AllTime

LEMMA DoorsTrue ==
    ASSUME PageInv, Forget \/ Reopen \/ \E code \in Tokens : Connect(code)
    PROVE  Truth'
  <1>1. PageTypes /\ Truth
    BY DEF PageInv
  <1>2. UNCHANGED <<counts, cache, fetching, filterOf, moved>> /\ unlisted \subseteq unlisted' /\ CountsGrow
    BY DEF Forget, Reopen, Connect, agentVars, CountsGrow
  <1>3. ~moved' => ~moved /\ token' = saved'
    BY <1>2 DEF Forget, Reopen, Connect
  <1>4. FilterOwn'
    <2>1. CASE Forget \/ Reopen
      BY <2>1 DEF Forget, Reopen, FilterOwn
    <2>2. ASSUME NEW code \in Tokens, Connect(code)
          PROVE  FilterOwn'
      BY <2>2 DEF Connect, FilterOwn
    <2>3. QED
      BY <2>1, <2>2
  <1>5. ~moved => FilterKnown'
    <2>1. appFilter' = None \/ appFilter' = appFilter
      BY DEF Forget, Reopen, Connect
    <2>2. CASE appFilter' = None
      BY <2>2 DEF FilterKnown
    <2>3. CASE appFilter' = appFilter
      BY <1>1, <1>2, <2>3, SameTruth DEF Truth
    <2>4. QED
      BY <2>1, <2>2, <2>3
  <1>6. QED
    BY <1>2, <1>3, <1>4, <1>5, RestTrue

\* A step that leaves the page and its code alone.
LEMMA AsideTrue ==
    ASSUME PageInv, CountsGrow,
           UNCHANGED <<token, cache, fetching, appFilter, filterOf, unlisted>>,
           ~moved' => ~moved /\ saved' = saved
    PROVE  Truth'
  <1>1. PageTypes /\ Truth /\ unlisted \subseteq unlisted'
    BY DEF PageInv
  <1>2. FilterOwn'
    BY <1>1 DEF Truth, FilterOwn
  <1>3. ~moved => FilterKnown'
    BY <1>1, SameTruth DEF Truth
  <1>4. ~moved' => ~moved /\ token' = saved'
    BY <1>1 DEF Truth
  <1>5. QED
    BY <1>1, <1>2, <1>3, <1>4, RestTrue

LEMMA PageStep == PageInv /\ [Next]_vars => PageInv'
  <1> SUFFICES ASSUME PageInv, [Next]_vars PROVE PageInv'
    OBVIOUS
  <1>1. PageTypes'
    BY TypesStep DEF PageInv
  <1>2. ASSUME Fetch
        PROVE  Truth'
    BY <1>2, SendTrue DEF Fetch, agentVars, viewVars
  <1>3. ASSUME CheckForUpdates
        PROVE  Truth'
    BY <1>3, SendTrue DEF CheckForUpdates, agentVars, viewVars
  <1>4. ASSUME NoticeTimer
        PROVE  Truth'
    BY <1>4, AsideTrue DEF NoticeTimer, agentVars, viewVars, CountsGrow
  <1>5. ASSUME User
        PROVE  Truth'
    BY <1>3, <1>5, ControlsTrue, DoorsTrue DEF User
  <1>6. ASSUME NEW key \in Keys, NEW app \in Apps, Press(key, app)
        PROVE  Truth'
    <2>1. CountsGrow
      BY <1>6 DEF CountsGrow
    <2>2. QED
      BY <1>6, <2>1, AsideTrue DEF Press, viewVars
  <1>7. ASSUME Elsewhere
        PROVE  Truth'
    <2>1. CountsGrow /\ UNCHANGED <<token, cache, fetching, appFilter, filterOf, unlisted>>
      BY <1>7 DEF Elsewhere, CountsGrow, viewVars
    <2>2. ~moved' => ~moved /\ saved' = saved
      BY <1>7 DEF Elsewhere, ProgramRuns, OtherTab
    <2>3. QED
      BY <2>1, <2>2, AsideTrue
  <1>8. ASSUME UNCHANGED vars
        PROVE  Truth'
    BY <1>8, AsideTrue DEF vars, agentVars, viewVars, CountsGrow
  <1>9. ASSUME NEW q \in DOMAIN fetching, NEW lost \in SUBSET {"apps", "items"}, Answer(q, lost)
        PROVE  Truth'
    BY <1>9, AnswerTrue
  <1>10. Truth'
    BY <1>2, <1>4, <1>5, <1>6, <1>7, <1>8, <1>9 DEF Next
  <1>11. QED
    BY <1>1, <1>10 DEF PageInv

LEMMA InitPage == Init => PageInv
  <1>1. Init => Truth
    BY DEF Init, Truth, FilterOwn, CacheTrue, RequestsTrue, FilterKnown
  <1>2. QED
    BY <1>1, InitTypes DEF PageInv

LEMMA AskedIsShown == PageInv => ShownIsAsked
  <1> SUFFICES ASSUME PageInv, token # None, ~moved
               PROVE  LET rows == Rows(token, IF viewMode = "apps" THEN None ELSE appFilter, selectedDate)
                          part(name) == {r \in rows : name = IF viewMode = "apps" THEN r[3] ELSE r[2]}
                      IN  \A i \in DOMAIN Entry.data.items :
                             Entry.data.items[i].keys <= TotalOf(part(Entry.data.items[i].name))
    BY DEF ShownIsAsked
  <1> DEFINE rows == Rows(token, IF viewMode = "apps" THEN None ELSE appFilter, selectedDate)
             part(name) == {r \in rows : name = IF viewMode = "apps" THEN r[3] ELSE r[2]}
             q == activeQuery
  <1>1. EntryTrue(q, Entry)
    BY NoEntryTrue DEF PageInv, Truth, CacheTrue, Entry, EntryIn
  <1>2. /\ q.token = token /\ q.date = selectedDate
        /\ q.kind = IF viewMode = "apps" THEN "local-apps" ELSE "local-keys"
        /\ q.app = IF viewMode = "apps" THEN None ELSE appFilter
    BY AskedFor DEF PageInv, PageTypes, ViewOK, activeQuery
  <1> HIDE DEF q
  <1>3. ASSUME NEW name
        PROVE  PartOf(q, name) = part(name)
    <2>1. Rows(q.token, q.app, q.date) = rows
      BY <1>2, Zenon
    <2> HIDE DEF rows
    <2>2. (q.kind = "local-apps") <=> (viewMode = "apps")
      BY <1>2
    <2>3. QED
      BY <2>1, <2>2 DEF PartOf
  <1> HIDE DEF part
  <1>4. \A i \in DOMAIN Entry.data.items :
            Entry.data.items[i].keys <= TotalOf(PartOf(q, Entry.data.items[i].name))
    BY <1>1 DEF EntryTrue, ListsTrue, FilterTrue
  <1>5. \A i \in DOMAIN Entry.data.items :
            Entry.data.items[i].keys <= TotalOf(part(Entry.data.items[i].name))
    BY <1>3, <1>4, Zenon
  <1>6. QED
    BY <1>5 DEF part

LEMMA PickedIsListed == PageInv => FilterListed
  <1> SUFFICES ASSUME PageInv, token # None, ~moved, appFilter # None,
                      <<token, appFilter>> \notin unlisted, viewMode # "apps", Entry.at # 0
               PROVE  appFilter \in picker
    BY DEF FilterListed
  <1>1. EntryTrue(activeQuery, Entry)
    BY NoEntryTrue DEF PageInv, Truth, CacheTrue, Entry, EntryIn
  <1>2. activeQuery.token = token /\ activeQuery.app = appFilter
    BY AskedFor DEF PageInv, PageTypes, ViewOK, activeQuery
  <1>3. <<activeQuery.token, activeQuery.app>> \notin unlisted
    BY <1>2, Zenon
  <1>4. appFilter \in ToSet(Entry.data.apps) /\ Len(Entry.data.apps) > 1
    BY <1>1, <1>2, <1>3 DEF EntryTrue, ListsTrue, FilterTrue
  <1>5. QED
    BY <1>4 DEF picker

LEMMA KeyboardIsComplete == PageInv => KeyboardComplete
  <1> DEFINE R == Rows(token, appFilter, selectedDate)
             N == {r[2] : r \in R}
             items == Entry.data.items
             keys == [i \in DOMAIN items |-> items[i].keys]
             max == Largest({items[i].keys : i \in DOMAIN items})
             here(k) == {i \in DOMAIN items : items[i].name = k}
  <1> SUFFICES ASSUME PageInv, items = top_keys(token, TopKeys, appFilter, selectedDate),
                      Cardinality(N) <= TopKeys, NEW k \in Layout
               PROVE  KeyboardHeatmap(items)[k].step > 0 <=> k \in N
    BY DEF KeyboardComplete
  <1>1. StoreOK /\ R \in SUBSET DOMAIN counts
    BY DEF PageInv, PageTypes, Rows
  <1>2. ListOf(items, KeyTotals(R)) /\ Complete(items, N)
    <2>1. /\ ListOf(top_keys(token, TopKeys, appFilter, selectedDate), KeyTotals(R))
          /\ Cardinality(N) <= TopKeys
             => Complete(top_keys(token, TopKeys, appFilter, selectedDate), N)
      BY <1>1, KeysAnswer
    <2> HIDE DEF N, items, R
    <2>2. QED
      BY <2>1, Zenon
  <1>3. KeyTotals(R) \in [N -> Nat \ {0}]
    BY <1>1, TotalTypes
  <1>4. KeyboardHeatmap(items)[k].step = stepFor(SumOn(keys, here(k)), max)
    BY DEF KeyboardHeatmap
  <1> HIDE DEF items, N, R
  <1>5. /\ Len(items) \in Nat /\ DOMAIN items = 1..Len(items)
        /\ \A i \in DOMAIN items : items[i].name \in N /\ items[i].keys \in Nat \ {0}
    <2>1. DOMAIN KeyTotals(R) = N
      BY <1>3
    <2>2. items \in Seq([name : N, keys : Nat])
      BY <1>2, <2>1, Zenon DEF ListOf
    <2>3. /\ Len(items) \in Nat /\ DOMAIN items = 1..Len(items)
          /\ \A i \in DOMAIN items : items[i] \in [name : N, keys : Nat]
      BY <2>2, SeqParts, Zenon
    <2>4. ASSUME NEW i \in DOMAIN items
          PROVE  items[i].name \in N /\ items[i].keys \in Nat \ {0}
      <3>1. items[i].name \in N
        BY <2>3
      <3>2. items[i].keys = KeyTotals(R)[items[i].name]
        BY <1>2, Zenon DEF ListOf
      <3>3. QED
        BY <1>3, <3>1, <3>2
    <2>5. QED
      BY <2>3, <2>4
  <1>6. IsFiniteSet(DOMAIN items)
    BY <1>5, FS_Interval
  <1>7. max \in Nat \ {0} /\ \A i \in DOMAIN items : items[i].keys <= max
    <2> DEFINE V == {items[i].keys : i \in DOMAIN items}
    <2>1. keys \in Surjection(DOMAIN items, V)
      BY DEF Surjection
    <2>2. IsFiniteSet(V)
      <3> HIDE DEF keys, V
      <3>1. QED
        BY <1>6, <2>1, FS_Surjection
    <2>3. V \subseteq Nat
      BY <1>5
    <2>4. \A i \in DOMAIN items : items[i].keys \in V
      OBVIOUS
    <2> HIDE DEF V
    <2>5. Largest(V) \in Nat \ {0} /\ \A v \in V : v <= Largest(V)
      BY <2>2, <2>3, LargestIs
    <2>6. max = Largest(V)
      BY DEF V
    <2>7. QED
      BY <2>4, <2>5, <2>6
  <1> HIDE DEF max
  <1>8. CASE k \in N
    <2>1. PICK j \in DOMAIN items : items[j].name = k
      BY <1>2, <1>8 DEF Complete
    <2>2. here(k) = {j}
      BY <1>2, <2>1 DEF ListOf
    <2>3. IsFiniteSet({j}) /\ keys[j] = items[j].keys /\ keys[j] \in Int
      <3>1. IsFiniteSet({j})
        BY FS_Singleton, Zenon
      <3>2. keys[j] = items[j].keys
        OBVIOUS
      <3>3. items[j].keys \in Int
        BY <1>5
      <3>4. QED
        BY <3>1, <3>2, <3>3, Zenon
    <2> HIDE DEF keys
    <2>4. SumOn(keys, {j}) = keys[j]
      BY <2>3, SumSingle
    <2>5. SumOn(keys, here(k)) = items[j].keys
      BY <2>2, <2>3, <2>4, Zenon
    <2>6. items[j].keys \in 0..max /\ items[j].keys # 0
      BY <1>5, <1>7
    <2>7. PICK v : v = items[j].keys
      OBVIOUS
    <2>8. v \in 0..max /\ v \in v..max /\ v # 0
      BY <1>7, <2>6, <2>7
    <2>9. stepFor(v, max) \in 0..5 /\ (stepFor(v, max) = 0 <=> v = 0)
      BY <1>7, <2>8, ColoursFollowCounts
    <2>10. KeyboardHeatmap(items)[k].step = stepFor(v, max)
      BY <1>4, <2>5, <2>7, Zenon
    <2>11. QED
      BY <1>8, <2>8, <2>9, <2>10
  <1>9. CASE k \notin N
    <2>1. here(k) = {}
      BY <1>5, <1>9
    <2>2. SumOn(keys, here(k)) = 0
      BY <2>1, SumEmpty, Zenon
    <2>3. KeyboardHeatmap(items)[k].step = 0
      <3>1. stepFor(0, max) = 0
        BY DEF stepFor
      <3>2. QED
        BY <1>4, <2>2, <3>1, Zenon
    <2>4. QED
      BY <1>9, <2>3
  <1>10. QED
    BY <1>8, <1>9

\* The Keys tab tells the truth, for any programs, apps, keys, layout and limit, and
\* however answers, clicks, presses and exchanged codes are interleaved: its numbers
\* are of the program, app and day it is set to, a picked filter can be taken off
\* again, and the drawn keyboard misses no key (KeysView.tsx:65-96, 257-282).
THEOREM PageTellsTheTruth == Spec => []PageTrue
  <1>1. PageInv => PageTrue
    BY AskedIsShown, PickedIsListed, KeyboardIsComplete DEF PageTrue
  <1>2. QED
    BY <1>1, InitPage, PageStep, PTL DEF Spec
=============================================================================
