------------------------------ MODULE DeskProofs ------------------------------
(***************************************************************************)
(* Proofs about the machines of MCDesk that RequestProofs leaves: the      *)
(* search, the sheets over a page and the form of a listing.  What the     *)
(* eight machines do side by side implements each of them (TheDesk,        *)
(* below), so what is proved of one holds of the whole.                    *)
(***************************************************************************)
EXTENDS RequestProofs, WellFoundedInduction

---------------------------------------------------------------------------
(* The search, its address and the home of an account.                    *)

\* The addresses there are, and what an effect ran with.
Entry == {u \in B!Url : B!Written(u)} \cup {B!Other}
EffectRun == [search: B!Search, at: B!Url]

\* Where the browser is.
AtAddress == hist[pos]
OnExplore == AtAddress.page = "explore"
WhereBrowser == hist \in Seq(Entry) /\ pos \in 1 .. Len(hist)

\* Two searches with the same address, whatever their district.
SameWords(s, q) == s.text = q.text /\ s.cat = q.cat /\ s.filter = q.filter
\* A search that shows what u asks for: of a filter only when u names one.
Fits(s, u) == s.text = u.text /\ s.cat = u.cat /\ (u.filter # 0 => s.filter = u.filter)

\* Nothing has run yet: the address is what was asked for.
Arriving == ran = {} /\ written = {} /\ (OnExplore => goal = AtAddress)
\* Another address than the effects know has been asked for, and the search has not changed since.
Leading ==
    \E r \in EffectRun :
      /\ ran = {r} /\ written = {r.at} /\ r.at = B!UrlOf(r.search, r.at)
      /\ SameWords(search, r.search) /\ AtAddress # r.at /\ goal = AtAddress
\* The address is the last one the effects wrote, and the search is what was asked for.
Following ==
    \E r \in EffectRun :
      /\ ran = {r} /\ written = {AtAddress} /\ AtAddress = B!UrlOf(r.search, r.at)
      /\ r.at.sort = AtAddress.sort /\ goal.sort = AtAddress.sort /\ Fits(search, goal)

Settling ==
    /\ ~B!Here => Arriving
    /\ B!Here => Arriving \/ Leading \/ Following

\* What the rest of the state may be.
BrowseRest ==
    /\ browseStored \subseteq Places /\ shown \subseteq [cat: Cats, filter: 1 .. 2, sort: B!Sorts]
    /\ who \in People \cup {B!Nobody} /\ home \in [People -> Places \cup {B!None}] /\ loaded \in BOOLEAN
    /\ acts \in 0 .. MaxAct

BrowseInv == WhereBrowser /\ search \in B!Search /\ goal \in B!Url /\ B!Written(goal) /\ BrowseRest /\ Settling /\ B!HomeStaysTheirs

---------------------------------------------------------------------------
(* Addresses.                                                              *)

\* The address of a search.
LEMMA Addresses ==
  ASSUME NEW s \in B!Search, NEW at \in B!Url
  PROVE  B!UrlOf(s, at) \in B!Url /\ B!Written(B!UrlOf(s, at)) /\ B!UrlOf(s, at).page = "explore"
         /\ B!UrlOf(s, at).sort = at.sort /\ B!UrlOf(s, at).text = s.text /\ B!UrlOf(s, at).cat = s.cat
         /\ (s.cat # B!None => B!UrlOf(s, at).filter = s.filter) /\ (s.cat = B!None => B!UrlOf(s, at).filter = 0)
BY DEF B!UrlOf, B!Url, B!Search, B!Written

\* It has no more of the search than its words, and no more of the address than how it sorts.
LEMMA SameAddress ==
  ASSUME NEW s, NEW q, SameWords(s, q), NEW u, NEW v, u.sort = v.sort
  PROVE  B!UrlOf(s, u) = B!UrlOf(q, v)
BY DEF B!UrlOf, SameWords

\* A search changed as an address says fits it.
LEMMA Patching ==
  ASSUME NEW s \in B!Search, NEW x \in B!Text, NEW c \in Cats \cup {B!None}, NEW f \in 0 .. 2
  PROVE  /\ B!Patched(s, x, c, f) \in B!Search
         /\ B!Patched(s, x, c, f).text = x /\ B!Patched(s, x, c, f).cat = c
         /\ (f # 0 => B!Patched(s, x, c, f).filter = f)
         /\ B!Patched(s, x, c, f).district = s.district
         /\ B!Patched(s, x, c, f).chosen = s.chosen
<1> DEFINE g == IF f # 0 THEN f ELSE IF c \notin {s.cat, B!None} THEN 1 ELSE s.filter
           t == [s EXCEPT !.text = x, !.cat = c, !.filter = g]
<1>1. s.filter \in 1 .. 2
  BY DEF B!Search
<1>2. g \in 1 .. 2 /\ (f # 0 => g = f)
  BY <1>1
<1>3. B!Patched(s, x, c, f) = t
  BY DEF B!Patched
<1> HIDE DEF g
<1>4. t \in B!Search
  BY <1>2 DEF B!Search
<1>5. t.text = x /\ t.cat = c /\ t.filter = g /\ t.district = s.district
  BY DEF B!Search
<1>6. t.chosen = s.chosen
  BY Zenon DEF B!Search
<1> QED
  BY <1>2, <1>3, <1>4, <1>5, <1>6

\* Where the history is kept.
LEMMA BrowserEntries ==
  ASSUME WhereBrowser
  PROVE  AtAddress \in Entry /\ (OnExplore => AtAddress \in B!Url /\ B!Written(AtAddress))
<1>1. AtAddress \in Entry
  BY DEF AtAddress, WhereBrowser
<1>2. B!Other.page = "other"
  BY DEF B!Other, B!Blank
<1> QED
  BY <1>1, <1>2 DEF OnExplore, Entry

LEMMA AddressesAreEntries ==
  ASSUME NEW u, u \in B!Url /\ B!Written(u)
  PROVE  u \in Entry /\ u.page = "explore"
BY DEF Entry, B!Url

\* The history after a step of the browser.
LEMMA Pushing ==
  ASSUME WhereBrowser, NEW u \in Entry, B!Push(u)
  PROVE  WhereBrowser' /\ AtAddress' = u
<1>1. /\ SubSeq(hist, 1, pos) \in Seq(Entry) /\ Len(SubSeq(hist, 1, pos)) = pos /\ pos \in Nat
  BY SubSeqProperties DEF WhereBrowser
<1> DEFINE h == SubSeq(hist, 1, pos)
<1>2. h \in Seq(Entry) /\ Len(h) = pos /\ hist' = Append(h, u) /\ pos' = pos + 1
  BY <1>1 DEF B!Push
<1> HIDE DEF h
<1>3. Append(h, u) \in Seq(Entry) /\ Len(Append(h, u)) = pos + 1 /\ Append(h, u)[pos + 1] = u
  BY <1>2, AppendProperties
<1> QED
  BY <1>1, <1>2, <1>3 DEF AtAddress, WhereBrowser

LEMMA Replacing ==
  ASSUME WhereBrowser, NEW u \in Entry, B!Replace(u)
  PROVE  WhereBrowser' /\ AtAddress' = u
<1>1. [hist EXCEPT ![pos] = u] \in Seq(Entry) /\ Len([hist EXCEPT ![pos] = u]) = Len(hist)
      /\ [hist EXCEPT ![pos] = u][pos] = u
  BY ExceptSeq DEF WhereBrowser
<1> QED
  BY <1>1 DEF AtAddress, WhereBrowser, B!Replace

\* The browser stays where it is.
LEMMA Standing ==
  ASSUME WhereBrowser, UNCHANGED B!browser
  PROVE  WhereBrowser' /\ AtAddress' = AtAddress /\ (OnExplore' <=> OnExplore)
BY DEF WhereBrowser, AtAddress, OnExplore, B!browser

\* An address the effects just wrote, for a search that is what was asked for.
LEMMA Followed ==
  ASSUME NEW s \in B!Search, NEW at \in B!Url, ran' = {[search |-> s, at |-> at]}, written' = {B!UrlOf(s, at)},
         AtAddress' = B!UrlOf(s, at), goal' = goal, goal.sort = at.sort, Fits(search', goal)
  PROVE  Following'
<1> DEFINE r == [search |-> s, at |-> at]
<1>1. r \in EffectRun /\ r.search = s /\ r.at = at
  BY DEF EffectRun
<1>2. B!UrlOf(s, at).sort = at.sort
  BY DEF B!UrlOf
<1> HIDE DEF r
<1>3. ran' = {r} /\ written' = {AtAddress'} /\ AtAddress' = B!UrlOf(r.search, r.at) /\ r.at.sort = AtAddress'.sort /\ goal'.sort = AtAddress'.sort
  BY <1>1, <1>2 DEF r
<1> QED
  BY <1>1, <1>3 DEF Following

\* The page at rest.
LEMMA Resting ==
  ASSUME BrowseInv, B!Here, B!AtRest
  PROVE  /\ ran = {[search |-> search, at |-> AtAddress]} /\ written = {AtAddress} /\ AtAddress = B!UrlOf(search, AtAddress)
         /\ goal.sort = AtAddress.sort /\ Fits(search, goal)
<1> DEFINE q == [search |-> search, at |-> AtAddress]
<1>1. ran = {q} /\ q.search = search /\ q.at = AtAddress
  BY DEF B!AtRest, AtAddress
<1> HIDE DEF q
<1>2. Arriving \/ Leading \/ Following
  BY DEF BrowseInv, Settling
<1>3. ~Arriving
  BY <1>1 DEF Arriving
<1>4. ~Leading
  BY <1>1 DEF Leading
<1>5. PICK r \in EffectRun : /\ ran = {r} /\ written = {AtAddress} /\ AtAddress = B!UrlOf(r.search, r.at)
                       /\ r.at.sort = AtAddress.sort /\ goal.sort = AtAddress.sort /\ Fits(search, goal)
  BY <1>2, <1>3, <1>4 DEF Following
<1>6. r = q
  BY <1>1, <1>5
<1> QED
  BY <1>1, <1>5, <1>6 DEF q

\* Asking for another address, or for the same one.
LEMMA SearchAsked ==
  ASSUME BrowseInv, B!AtRest, WhereBrowser', UNCHANGED <<search, B!effects>>, goal' = AtAddress', OnExplore', who' = who, who # B!Nobody
  PROVE  Settling'
<1>1. B!Here' /\ (B!Here <=> OnExplore)
  BY DEF B!Here, OnExplore, AtAddress
<1>2. CASE ~B!Here
  <2>1. Arriving
    BY <1>2 DEF BrowseInv, Settling
  <2>2. Arriving'
    BY <2>1 DEF Arriving, B!effects
  <2> QED
    BY <1>1, <2>2 DEF Settling
<1>3. CASE B!Here
  <2> DEFINE r == [search |-> search, at |-> AtAddress]
  <2>1. /\ ran = {r} /\ written = {AtAddress} /\ AtAddress = B!UrlOf(search, AtAddress)
        /\ goal.sort = AtAddress.sort /\ Fits(search, goal)
    BY <1>3, Resting
  <2>2. search \in B!Search /\ AtAddress \in B!Url
    BY <1>1, <1>3, BrowserEntries DEF BrowseInv
  <2>3. r \in EffectRun /\ r.search = search /\ r.at = AtAddress
    BY <2>2 DEF EffectRun
  <2> HIDE DEF r
  <2>4. CASE AtAddress' = AtAddress
    <3>1. Fits(search, AtAddress)
      <4>1. B!UrlOf(search, AtAddress).text = search.text /\ B!UrlOf(search, AtAddress).cat = search.cat
            /\ (search.cat # B!None => B!UrlOf(search, AtAddress).filter = search.filter)
            /\ (search.cat = B!None => B!UrlOf(search, AtAddress).filter = 0)
        BY <2>2, Addresses
      <4> QED
        BY <2>1, <4>1 DEF Fits
    <3>2. ran' = {r} /\ written' = {AtAddress'} /\ AtAddress' = B!UrlOf(r.search, r.at) /\ r.at.sort = AtAddress'.sort
          /\ goal'.sort = AtAddress'.sort /\ Fits(search', goal')
      BY <2>1, <2>3, <2>4, <3>1 DEF B!effects
    <3>3. Following'
      BY <2>3, <3>2 DEF Following
    <3> QED
      BY <1>1, <3>3 DEF Settling
  <2>5. CASE AtAddress' # AtAddress
    <3>1. ran' = {r} /\ written' = {r.at} /\ r.at = B!UrlOf(r.search, r.at) /\ SameWords(search', r.search)
          /\ AtAddress' # r.at /\ goal' = AtAddress'
      BY <2>1, <2>3, <2>5 DEF B!effects, SameWords
    <3>2. Leading'
      BY <2>3, <3>1 DEF Leading
    <3> QED
      BY <1>1, <3>2 DEF Settling
  <2> QED
    BY <2>4, <2>5
<1> QED
  BY <1>2, <1>3

\* Off the page nothing has run.
LEMMA Away ==
  ASSUME ran' = {}, written' = {}, OnExplore' => goal' = AtAddress'
  PROVE  Settling'
BY DEF Settling, Arriving

\* A step that keeps the words of the search, and where the page is.
LEMMA SettlingStays ==
  ASSUME Settling, UNCHANGED <<B!browser, B!effects, goal>>, SameWords(search', search),
         who' = who
  PROVE  Settling'
<1>1. AtAddress' = AtAddress /\ (OnExplore' <=> OnExplore) /\ (B!Here' <=> B!Here)
  BY DEF AtAddress, OnExplore, B!Here, B!browser
<1>2. Arriving => Arriving'
  BY <1>1 DEF Arriving, B!effects
<1>3. Leading => Leading'
  BY <1>1 DEF Leading, B!effects, SameWords
<1>4. Following => Following'
  BY <1>1 DEF Following, B!effects, SameWords, Fits
<1> QED
  BY <1>1, <1>2, <1>3, <1>4 DEF Settling

\* A render of the page.
LEMMA SettlingRendered ==
  ASSUME BrowseInv, B!Render
  PROVE  WhereBrowser' /\ search' \in B!Search /\ Settling' /\ UNCHANGED goal
         /\ search'.district = search.district /\ search'.chosen = search.chosen
<1>1. B!Here /\ OnExplore /\ WhereBrowser /\ search \in B!Search /\ goal \in B!Url /\ B!Written(goal) /\ UNCHANGED <<browseStored, shown, B!account, acts, goal>>
  BY DEF B!Render, BrowseInv, B!Here, OnExplore, AtAddress
<1>2. AtAddress \in B!Url /\ B!Written(AtAddress)
  BY <1>1, BrowserEntries
<1>3. PICK at \in {hist[pos]} \cup {r.at : r \in ran} :
         {[search |-> search, at |-> at]} # ran /\ B!Rendered(search, at)
  BY DEF B!Render
<1> DEFINE arrived == {at} # written /\ \A r \in ran : r.at # at
           latest == IF arrived THEN at ELSE CHOOSE u \in written : TRUE
           new == B!UrlOf(search, at)
<1>4. /\ ran' = {[search |-> search, at |-> at]} /\ written' = {new}
      /\ search' = (IF arrived THEN B!Patched(search, at.text, at.cat, at.filter) ELSE search)
      /\ (IF new = latest THEN UNCHANGED B!browser ELSE B!Push(new) \/ B!Replace(new))
  BY <1>3 DEF B!Rendered
<1>5. Arriving \/ Leading \/ Following
  BY <1>1 DEF BrowseInv, Settling
<1>6. at \in B!Url
  <2>1. ran \subseteq EffectRun
    BY <1>5 DEF Arriving, Leading, Following
  <2> QED
    BY <1>2, <1>3, <2>1 DEF AtAddress, EffectRun
<1>7. new \in Entry /\ new \in B!Url /\ B!Written(new) /\ new.page = "explore" /\ new.sort = at.sort
  BY <1>1, <1>6, Addresses, AddressesAreEntries
<1>8. at.text \in B!Text /\ at.cat \in Cats \cup {B!None} /\ at.filter \in 0 .. 2
  BY <1>6 DEF B!Url
<1>9. search' \in B!Search /\ search'.district = search.district /\ search'.chosen = search.chosen
      /\ (arrived => Fits(search', at))
  <2> DEFINE t == B!Patched(search, at.text, at.cat, at.filter)
  <2>1. t \in B!Search /\ t.text = at.text /\ t.cat = at.cat /\ (at.filter # 0 => t.filter = at.filter)
        /\ t.district = search.district /\ t.chosen = search.chosen
    BY <1>1, <1>8, Patching
  <2>2. search' = IF arrived THEN t ELSE search
    BY <1>4
  <2> HIDE DEF t, arrived
  <2>3. CASE arrived
    BY <2>1, <2>2, <2>3 DEF Fits
  <2>4. CASE ~arrived
    BY <1>1, <2>2, <2>4
  <2> QED
    BY <2>3, <2>4
<1>10. WhereBrowser' /\ (new = latest => AtAddress' = AtAddress) /\ (new # latest => AtAddress' = new)
  BY <1>1, <1>4, <1>7, Pushing, Replacing, Standing
<1>11. OnExplore' => B!Here'
  BY <1>1 DEF B!Here, OnExplore, AtAddress, B!account
<1>12. ASSUME at = AtAddress, arrived, goal = AtAddress
       PROVE  Settling'
  <2>1. latest = AtAddress
    BY <1>12
  <2>2. AtAddress' = new
    BY <1>10, <2>1
  <2>3. goal.sort = at.sort /\ Fits(search', goal)
    BY <1>9, <1>12
  <2>4. Following'
    <3> HIDE DEF arrived, latest
    <3> QED
      BY <1>1, <1>4, <1>6, <2>2, <2>3, Followed
  <2>5. B!Here'
    BY <1>7, <1>11, <2>2 DEF OnExplore
  <2> QED
    BY <2>4, <2>5 DEF Settling
<1>13. ASSUME Arriving PROVE Settling'
  <2>1. at = AtAddress /\ arrived /\ goal = AtAddress
    BY <1>1, <1>3, <1>13 DEF Arriving, AtAddress
  <2> HIDE DEF arrived, latest
  <2> QED
    BY <1>12, <2>1
<1>14. ASSUME Leading PROVE Settling'
  <2>1. PICK r \in EffectRun : /\ ran = {r} /\ written = {r.at} /\ r.at = B!UrlOf(r.search, r.at)
                         /\ SameWords(search, r.search) /\ AtAddress # r.at /\ goal = AtAddress
    BY <1>14 DEF Leading
  <2>2. CASE at = AtAddress
    <3>1. arrived
      BY <2>1, <2>2
    <3> HIDE DEF arrived, latest
    <3> QED
      BY <1>12, <2>1, <2>2, <3>1
  <2>3. CASE at # AtAddress
    <3>1. at = r.at
      BY <1>3, <2>1, <2>3 DEF AtAddress
    <3>2. ~arrived /\ latest = at
      BY <2>1, <3>1
    <3>3. new = at
      BY <2>1, <3>1, SameAddress
    <3>4. search' = search /\ UNCHANGED B!browser
      BY <1>4, <3>2, <3>3
    <3> DEFINE q == [search |-> search, at |-> at]
    <3>5. q \in EffectRun /\ q.search = search /\ q.at = at
      BY <1>1, <1>6 DEF EffectRun
    <3>6. ran' = {q} /\ written' = {at} /\ AtAddress' = AtAddress
      BY <1>4, <3>3, <3>4 DEF AtAddress, B!browser
    <3> HIDE DEF q, arrived, latest
    <3>7. ran' = {q} /\ written' = {q.at} /\ q.at = B!UrlOf(q.search, q.at) /\ SameWords(search', q.search)
          /\ AtAddress' # q.at /\ goal' = AtAddress'
      BY <1>1, <2>1, <2>3, <3>3, <3>4, <3>5, <3>6 DEF SameWords
    <3>8. Leading'
      BY <3>5, <3>7 DEF Leading
    <3>9. B!Here'
      BY <1>1, <3>4 DEF B!Here, B!browser, B!account
    <3> QED
      BY <3>8, <3>9 DEF Settling
  <2> QED
    BY <2>2, <2>3
<1>15. ASSUME Following PROVE Settling'
  <2>1. PICK r \in EffectRun : /\ ran = {r} /\ written = {AtAddress} /\ AtAddress = B!UrlOf(r.search, r.at)
                         /\ r.at.sort = AtAddress.sort /\ goal.sort = AtAddress.sort /\ Fits(search, goal)
    BY <1>15 DEF Following
  <2>2. at = AtAddress \/ at = r.at
    BY <1>3, <2>1 DEF AtAddress
  <2>3. ~arrived /\ latest = AtAddress
    BY <2>1, <2>2
  <2>4. at.sort = AtAddress.sort
    BY <2>1, <2>2
  <2>5. AtAddress' = new /\ search' = search
    BY <1>4, <1>10, <2>3
  <2> HIDE DEF arrived, latest
  <2>6. Following'
    BY <1>1, <1>4, <1>6, <2>1, <2>4, <2>5, Followed
  <2>7. B!Here'
    <3>1. OnExplore'
      BY <1>7, <2>5 DEF OnExplore
    <3> QED
      BY <1>11, <3>1
  <2> QED
    BY <2>6, <2>7 DEF Settling
<1> HIDE DEF arrived, latest
<1> QED
  BY <1>1, <1>5, <1>9, <1>10, <1>13, <1>14, <1>15

\* The person changes the search on the page.
LEMMA SettlingChanged ==
  ASSUME BrowseInv, NEW x \in B!Text, NEW c \in Cats \cup {B!None}, NEW f \in 0 .. 2, B!Change(x, c, f)
  PROVE  BrowseInv'
<1>1. /\ B!Here /\ B!AtRest /\ WhereBrowser /\ search \in B!Search /\ search' = B!Patched(search, x, c, f)
      /\ goal' = B!UrlOf(search', AtAddress) /\ UNCHANGED <<B!browser, B!effects, browseStored, shown, B!account>>
      /\ acts < MaxAct /\ acts' = acts + 1
  BY DEF B!Change, B!Acts, B!Stays, AtAddress, BrowseInv
<1>2. ran = {[search |-> search, at |-> AtAddress]} /\ written = {AtAddress} /\ AtAddress = B!UrlOf(search, AtAddress) /\ goal.sort = AtAddress.sort
  BY <1>1, Resting
<1>3. AtAddress \in B!Url
  BY <1>1, BrowserEntries DEF B!Here, OnExplore, AtAddress
<1>4. search' \in B!Search /\ search'.district = search.district /\ search'.chosen = search.chosen
  BY <1>1, Patching
<1>5. goal' \in B!Url /\ B!Written(goal') /\ goal'.sort = AtAddress.sort /\ Fits(search', goal')
  <2>1. B!UrlOf(search', AtAddress) \in B!Url /\ B!Written(B!UrlOf(search', AtAddress)) /\ B!UrlOf(search', AtAddress).sort = AtAddress.sort
        /\ B!UrlOf(search', AtAddress).text = search'.text /\ B!UrlOf(search', AtAddress).cat = search'.cat
        /\ (search'.cat # B!None => B!UrlOf(search', AtAddress).filter = search'.filter)
        /\ (search'.cat = B!None => B!UrlOf(search', AtAddress).filter = 0)
    BY <1>3, <1>4, Addresses
  <2> QED
    BY <1>1, <2>1 DEF Fits
<1>6. WhereBrowser' /\ AtAddress' = AtAddress /\ B!Here'
  BY <1>1, Standing DEF B!Here, B!browser, B!account
<1> DEFINE r == [search |-> search, at |-> AtAddress]
<1>7. r \in EffectRun /\ r.search = search /\ r.at = AtAddress
  BY <1>1, <1>3 DEF EffectRun
<1> HIDE DEF r
<1>8. ran' = {r} /\ written' = {AtAddress'} /\ AtAddress' = B!UrlOf(r.search, r.at) /\ r.at.sort = AtAddress'.sort
      /\ goal'.sort = AtAddress'.sort /\ Fits(search', goal')
  BY <1>1, <1>2, <1>5, <1>6, <1>7 DEF r, B!effects
<1>9. Following'
  BY <1>7, <1>8 DEF Following
<1>10. Settling'
  BY <1>6, <1>9 DEF Settling
<1>11. BrowseRest'
  BY <1>1, Bounds DEF BrowseInv, BrowseRest, B!account
<1>12. B!HomeStaysTheirs'
  BY <1>1, <1>4 DEF BrowseInv, B!HomeStaysTheirs, B!account
<1> QED
  BY <1>4, <1>5, <1>6, <1>10, <1>11, <1>12 DEF BrowseInv

\* The person goes to another address of the page, or to the bare one.
LEMMA MovingKeeps ==
  ASSUME BrowseInv, B!AtRest, acts < MaxAct, acts' = acts + 1, B!Stays, UNCHANGED search,
         WhereBrowser', goal' \in B!Url, B!Written(goal'), Settling'
  PROVE  BrowseInv'
<1>1. BrowseRest'
  BY Bounds DEF BrowseInv, BrowseRest, B!account, B!Stays
<1>2. B!HomeStaysTheirs'
  BY DEF BrowseInv, B!HomeStaysTheirs, B!account, B!Stays
<1> QED
  BY <1>1, <1>2 DEF BrowseInv

LEMMA SortKeeps ==
  ASSUME BrowseInv, NEW k \in B!Sorts, B!SortBy(k)
  PROVE  BrowseInv'
<1> DEFINE u == [hist[pos] EXCEPT !.sort = k]
<1>1. B!Here /\ u # AtAddress /\ B!Replace(u) /\ B!AtRest /\ acts < MaxAct /\ acts' = acts + 1 /\ goal' = u
      /\ B!Stays /\ UNCHANGED <<search, B!effects>> /\ WhereBrowser
  BY DEF B!SortBy, B!Acts, BrowseInv, AtAddress
<1>2. AtAddress \in B!Url /\ B!Written(AtAddress)
  BY <1>1, BrowserEntries DEF B!Here, OnExplore, AtAddress
<1>3. u \in B!Url /\ B!Written(u) /\ u.page = "explore"
  BY <1>2 DEF B!Url, B!Written, AtAddress
<1> HIDE DEF u
<1>4. WhereBrowser' /\ AtAddress' = u
  BY <1>1, <1>3, Replacing, AddressesAreEntries
<1>5. who' = who /\ who # B!Nobody
  BY <1>1 DEF B!Stays, B!account, B!Here
<1>6. Settling'
  BY <1>1, <1>3, <1>4, <1>5, SearchAsked DEF OnExplore
<1> QED
  BY <1>1, <1>3, <1>4, <1>6, MovingKeeps

LEMMA LeavingKeeps ==
  ASSUME BrowseInv, B!OpenListing
  PROVE  BrowseInv'
<1>1. B!Push(B!Other) /\ B!AtRest /\ acts < MaxAct /\ acts' = acts + 1 /\ goal' = goal
      /\ B!Stays /\ UNCHANGED search /\ WhereBrowser /\ ran' = {} /\ written' = {} /\ goal \in B!Url /\ B!Written(goal)
  BY DEF B!OpenListing, B!Acts, BrowseInv, B!Gone
<1>2. B!Other \in Entry /\ B!Other.page = "other"
  BY DEF Entry, B!Other, B!Blank
<1>3. WhereBrowser' /\ AtAddress' = B!Other
  BY <1>1, <1>2, Pushing
<1>4. Settling'
  BY <1>1, <1>2, <1>3, Away DEF OnExplore
<1> QED
  BY <1>1, <1>3, <1>4, MovingKeeps

LEMMA DockKeeps ==
  ASSUME BrowseInv, B!Explore
  PROVE  BrowseInv'
<1>1. who # B!Nobody /\ B!Push(B!Blank) /\ B!AtRest /\ acts < MaxAct /\ acts' = acts + 1 /\ goal' = B!Blank
      /\ B!Stays /\ UNCHANGED <<search, B!effects>> /\ WhereBrowser
  BY DEF B!Explore, B!Acts, BrowseInv
<1>2. B!Blank \in B!Url /\ B!Written(B!Blank) /\ B!Blank.page = "explore"
  BY DEF B!Url, B!Written, B!Blank, B!Text, B!Sorts
<1>3. WhereBrowser' /\ AtAddress' = B!Blank
  BY <1>1, <1>2, Pushing, AddressesAreEntries
<1>4. who' = who
  BY <1>1 DEF B!Stays, B!account
<1>5. Settling'
  BY <1>1, <1>2, <1>3, <1>4, SearchAsked DEF OnExplore
<1> QED
  BY <1>1, <1>2, <1>3, <1>5, MovingKeeps

LEMMA BackKeeps ==
  ASSUME BrowseInv, B!Back
  PROVE  BrowseInv'
<1>1. /\ pos > 1 /\ who # B!Nobody /\ pos' = pos - 1 /\ UNCHANGED hist /\ B!AtRest
      /\ acts < MaxAct /\ acts' = acts + 1 /\ B!Stays /\ UNCHANGED search
      /\ WhereBrowser /\ goal \in B!Url /\ B!Written(goal)
      /\ goal' = (IF OnExplore' THEN AtAddress' ELSE goal)
      /\ OnExplore' => UNCHANGED B!effects
      /\ ~OnExplore' => ran' = {} /\ written' = {}
  BY DEF B!Back, B!Acts, BrowseInv, B!Gone, OnExplore, AtAddress
<1>2. WhereBrowser'
  BY <1>1 DEF WhereBrowser
<1>3. OnExplore' => AtAddress' \in B!Url /\ B!Written(AtAddress')
  <2>1. AtAddress' \in Entry
    BY <1>1, <1>2 DEF AtAddress, WhereBrowser
  <2>2. B!Other.page = "other"
    BY DEF B!Other, B!Blank
  <2> QED
    BY <2>1, <2>2 DEF OnExplore, Entry
<1>4. goal' \in B!Url /\ B!Written(goal')
  BY <1>1, <1>3
<1>5. who' = who
  BY <1>1 DEF B!Stays, B!account
<1>6. CASE OnExplore'
  <2>1. Settling'
    BY <1>1, <1>2, <1>5, <1>6, SearchAsked
  <2> QED
    BY <1>1, <1>2, <1>4, <2>1, MovingKeeps
<1>7. CASE ~OnExplore'
  <2>1. Settling'
    BY <1>1, <1>7, Away
  <2> QED
    BY <1>1, <1>2, <1>4, <2>1, MovingKeeps
<1> QED
  BY <1>6, <1>7

LEMMA PlaceKeeps ==
  ASSUME BrowseInv, NEW d \in Places, B!PickPlace(d)
  PROVE  BrowseInv'
<1>1. /\ search' = [search EXCEPT !.district = d, !.chosen = TRUE] /\ browseStored' = {d}
      /\ acts < MaxAct /\ acts' = acts + 1 /\ goal' = goal /\ UNCHANGED <<B!browser, B!effects, shown, B!account>>
      /\ search \in B!Search /\ goal \in B!Url /\ B!Written(goal) /\ WhereBrowser
  BY DEF B!PickPlace, B!Acts, BrowseInv
<1>2. search' \in B!Search /\ SameWords(search', search)
  BY <1>1 DEF B!Search, SameWords
<1>3. search'.chosen
  BY <1>1, Zenon DEF B!Search
<1>4. WhereBrowser'
  BY <1>1, Standing
<1>5. Settling'
  BY <1>1, <1>2, SettlingStays DEF BrowseInv, B!account
<1>6. BrowseRest'
  BY <1>1, Bounds DEF BrowseInv, BrowseRest, B!account
<1>7. B!HomeStaysTheirs'
  BY <1>3 DEF B!HomeStaysTheirs
<1> QED
  BY <1>1, <1>2, <1>4, <1>5, <1>6, <1>7 DEF BrowseInv

LEMMA MeKeeps ==
  ASSUME BrowseInv, B!MeLoads
  PROVE  BrowseInv'
<1>1. /\ who # B!Nobody /\ ~loaded /\ loaded' = TRUE
      /\ search' = (IF home[who] = B!None \/ search.chosen THEN search ELSE [search EXCEPT !.district = home[who]])
      /\ UNCHANGED <<B!browser, browseStored, B!effects, shown, who, home, acts, goal>>
      /\ search \in B!Search /\ goal \in B!Url /\ B!Written(goal) /\ WhereBrowser
      /\ who \in People \cup {B!Nobody} /\ home \in [People -> Places \cup {B!None}]
  BY DEF B!MeLoads, BrowseInv, BrowseRest
<1>2. CASE search' = search
  <2>1. SameWords(search', search) /\ WhereBrowser'
    BY <1>1, <1>2, Standing DEF SameWords
  <2>2. Settling'
    BY <1>1, <2>1, SettlingStays DEF BrowseInv
  <2>3. BrowseRest'
    BY <1>1 DEF BrowseInv, BrowseRest
  <2>4. B!HomeStaysTheirs'
    BY <1>1, <1>2 DEF BrowseInv, B!HomeStaysTheirs
  <2> QED
    BY <1>1, <1>2, <2>1, <2>2, <2>3, <2>4 DEF BrowseInv
<1>3. CASE ~(home[who] = B!None \/ search.chosen)
  <2>1. home[who] \in Places
    BY <1>1, <1>3
  <2>2. search' \in B!Search /\ search'.district = home[who] /\ SameWords(search', search)
    BY <1>1, <1>3, <2>1 DEF B!Search, SameWords
  <2>3. WhereBrowser'
    BY <1>1, Standing
  <2>4. Settling'
    BY <1>1, <2>2, SettlingStays DEF BrowseInv
  <2>5. BrowseRest'
    BY <1>1 DEF BrowseInv, BrowseRest
  <2>6. B!HomeStaysTheirs'
    BY <1>1, <2>2 DEF B!HomeStaysTheirs
  <2> QED
    BY <1>1, <2>2, <2>3, <2>4, <2>5, <2>6 DEF BrowseInv
<1> QED
  BY <1>1, <1>2, <1>3

\* The address asked for by who comes or goes.
LEMMA AddressIsUrl ==
  ASSUME BrowseInv
  PROVE  B!Address \in B!Url /\ B!Written(B!Address) /\ (OnExplore => B!Address = AtAddress)
BY BrowserEntries DEF B!Address, OnExplore, AtAddress, BrowseInv

LEMMA SignInKeeps ==
  ASSUME BrowseInv, NEW p \in People, B!SignIn(p)
  PROVE  BrowseInv'
<1>1. /\ who = B!Nobody /\ who' = p /\ loaded' = FALSE /\ acts < MaxAct /\ acts' = acts + 1 /\ goal' = B!Address
      /\ UNCHANGED <<B!browser, search, browseStored, B!effects, shown, home>> /\ WhereBrowser /\ search \in B!Search
  BY DEF B!SignIn, B!Acts, BrowseInv
<1>2. goal' \in B!Url /\ B!Written(goal') /\ (OnExplore => goal' = AtAddress)
  BY <1>1, AddressIsUrl
<1>3. WhereBrowser' /\ AtAddress' = AtAddress /\ (OnExplore' <=> OnExplore)
  BY <1>1, Standing
<1>4. Settling'
  <2>1. ran = {} /\ written = {}
    BY <1>1 DEF BrowseInv, Settling, B!Here, Arriving
  <2> QED
    BY <1>1, <1>2, <1>3, <2>1, Away DEF B!effects
<1>5. BrowseRest'
  <2>1. loaded' \in BOOLEAN
    BY <1>1, Zenon
  <2> QED
    BY <1>1, <2>1, Bounds DEF BrowseInv, BrowseRest
<1>6. B!HomeStaysTheirs'
  BY <1>1 DEF BrowseInv, B!HomeStaysTheirs
<1> QED
  BY <1>1, <1>2, <1>3, <1>4, <1>5, <1>6 DEF BrowseInv

LEMMA SignOutKeeps ==
  ASSUME BrowseInv, B!SignOut
  PROVE  BrowseInv'
<1>1. /\ who' = B!Nobody /\ loaded' = FALSE /\ acts < MaxAct /\ acts' = acts + 1 /\ goal' = B!Address
      /\ search' = (IF search.chosen THEN search ELSE [search EXCEPT !.district = Default])
      /\ ran' = {} /\ written' = {} /\ shown' = {} /\ UNCHANGED <<B!browser, browseStored, home>>
      /\ WhereBrowser /\ search \in B!Search
  BY DEF B!SignOut, B!Acts, BrowseInv, B!Gone
<1>2. goal' \in B!Url /\ B!Written(goal') /\ (OnExplore => goal' = AtAddress)
  BY <1>1, AddressIsUrl
<1>3. WhereBrowser' /\ AtAddress' = AtAddress /\ (OnExplore' <=> OnExplore)
  BY <1>1, Standing
<1>4. Settling'
  BY <1>1, <1>2, <1>3, Away
<1>5. BrowseRest'
  <2>1. loaded' \in BOOLEAN
    BY <1>1, Zenon
  <2> QED
    BY <1>1, <2>1, Bounds DEF BrowseInv, BrowseRest
<1>6. search' \in B!Search
  BY <1>1, DefaultIsPlace DEF B!Search
<1>7. B!HomeStaysTheirs'
  <2>1. CASE search.chosen
    BY <1>1, <2>1 DEF B!HomeStaysTheirs
  <2>2. CASE ~search.chosen
    <3>1. search'.district = Default
      BY <1>1, <2>2 DEF B!Search
    <3> QED
      BY <3>1 DEF B!HomeStaysTheirs
  <2> QED
    BY <2>1, <2>2
<1> QED
  BY <1>2, <1>3, <1>4, <1>5, <1>6, <1>7 DEF BrowseInv

\* The search a page loads with.
LEMMA FreshIsSearch ==
  ASSUME browseStored \subseteq Places
  PROVE  B!Fresh \in B!Search /\ (~B!Fresh.chosen => B!Fresh.district = Default)
<1> DEFINE d == IF browseStored = {} THEN Default ELSE CHOOSE x \in browseStored : TRUE
           c == browseStored # {}
<1>1. d \in Places /\ (~c => d = Default)
  BY DefaultIsPlace
<1>2. c \in BOOLEAN
  OBVIOUS
<1>3. B!Fresh = [text |-> "", cat |-> B!None, filter |-> 1, district |-> d, chosen |-> c]
  BY DEF B!Fresh
<1> HIDE DEF d, c
<1>4. B!Fresh \in B!Search /\ B!Fresh.district = d
  <2>1. 1 \in 1 .. 2 /\ "" \in B!Text
    BY DEF B!Text
  <2> QED
    BY <1>1, <1>2, <1>3, <2>1, Zenon DEF B!Search
<1>5. B!Fresh.chosen = c
  BY <1>3, Zenon
<1> QED
  BY <1>1, <1>4, <1>5

LEMMA ReloadKeeps ==
  ASSUME BrowseInv, B!Reload
  PROVE  BrowseInv'
<1>1. /\ who' \in People \cup {B!Nobody} /\ loaded' = FALSE /\ acts < MaxAct /\ acts' = acts + 1 /\ goal' = B!Address
      /\ search' = B!Fresh
      /\ ran' = {} /\ written' = {} /\ shown' = {} /\ UNCHANGED <<B!browser, browseStored, home>>
      /\ WhereBrowser /\ browseStored \subseteq Places
  BY DEF B!Reload, B!Acts, BrowseInv, B!Gone, BrowseRest
<1>2. goal' \in B!Url /\ B!Written(goal') /\ (OnExplore => goal' = AtAddress)
  BY <1>1, AddressIsUrl
<1>3. WhereBrowser' /\ AtAddress' = AtAddress /\ (OnExplore' <=> OnExplore)
  BY <1>1, Standing
<1>4. Settling'
  BY <1>1, <1>2, <1>3, Away
<1>5. BrowseRest'
  <2>1. loaded' \in BOOLEAN
    BY <1>1, Zenon
  <2> QED
    BY <1>1, <2>1, Bounds DEF BrowseInv, BrowseRest
<1>6. search' \in B!Search
  BY <1>1, FreshIsSearch
<1>7. B!HomeStaysTheirs'
  BY <1>1, FreshIsSearch DEF B!HomeStaysTheirs
<1> QED
  BY <1>2, <1>3, <1>4, <1>5, <1>6, <1>7 DEF BrowseInv

---------------------------------------------------------------------------
(* The invariant.                                                          *)

\* It holds at first.
LEMMA BrowseBegins == B!Init => BrowseInv
<1> SUFFICES ASSUME B!Init PROVE BrowseInv
  OBVIOUS
<1>1. PICK u \in {v \in B!Url : B!Written(v)} : hist = <<u>>
  BY DEF B!Init
<1>2. pos = 1 /\ browseStored = {} /\ search = B!Fresh /\ ran = {} /\ written = {} /\ shown = {} /\ acts = 0 /\ goal = hist[1]
      /\ who \in People \cup {B!Nobody} /\ home \in [People -> Places \cup {B!None}] /\ loaded = FALSE
  BY DEF B!Init
<1>3. u \in Entry /\ AtAddress = u /\ WhereBrowser /\ goal = u
  BY <1>1, <1>2 DEF Entry, AtAddress, WhereBrowser
<1>4. B!Fresh \in B!Search /\ (~B!Fresh.chosen => B!Fresh.district = Default)
  BY <1>2, FreshIsSearch
<1>5. Settling
  BY <1>2, <1>3 DEF Settling, Arriving
<1>6. BrowseRest
  <2>1. loaded \in BOOLEAN
    BY <1>2, Zenon
  <2> QED
    BY <1>2, <2>1, Bounds DEF BrowseRest
<1>7. B!HomeStaysTheirs
  BY <1>2, <1>4 DEF B!HomeStaysTheirs
<1> QED
  BY <1>1, <1>2, <1>3, <1>4, <1>5, <1>6, <1>7 DEF BrowseInv

\* Any step keeps it.
LEMMA BrowseNext == BrowseInv /\ [B!Next]_(B!vars) => BrowseInv'
<1> SUFFICES ASSUME BrowseInv, [B!Next]_(B!vars) PROVE BrowseInv'
  OBVIOUS
<1>1. CASE B!Render
  <2>1. /\ WhereBrowser' /\ search' \in B!Search /\ Settling' /\ UNCHANGED goal
        /\ search'.district = search.district /\ search'.chosen = search.chosen
    BY <1>1, SettlingRendered
  <2>2. UNCHANGED <<browseStored, shown, B!account, acts, goal>>
    BY <1>1 DEF B!Render
  <2>3. BrowseRest'
    BY <2>2 DEF BrowseInv, BrowseRest, B!account
  <2>4. B!HomeStaysTheirs'
    BY <2>1, <2>2 DEF BrowseInv, B!HomeStaysTheirs, B!account
  <2>5. goal' \in B!Url /\ B!Written(goal')
    BY <2>1 DEF BrowseInv
  <2> QED
    BY <2>1, <2>3, <2>4, <2>5 DEF BrowseInv
<1>2. CASE B!MatchesAnswer
  <2>1. /\ B!Here /\ search.cat # B!None
        /\ shown' = {[cat |-> search.cat, filter |-> search.filter, sort |-> AtAddress.sort]}
        /\ UNCHANGED <<B!browser, search, browseStored, B!effects, B!account, acts, goal>>
        /\ search \in B!Search /\ WhereBrowser
    BY <1>2 DEF B!MatchesAnswer, AtAddress, BrowseInv
  <2>2. AtAddress \in B!Url
    BY <2>1, BrowserEntries DEF B!Here, OnExplore, AtAddress
  <2>3. [cat |-> search.cat, filter |-> search.filter, sort |-> AtAddress.sort] \in [cat: Cats, filter: 1 .. 2, sort: B!Sorts]
    BY <2>1, <2>2 DEF B!Search, B!Url
  <2>4. BrowseRest'
    BY <2>1, <2>3 DEF BrowseInv, BrowseRest, B!account
  <2>5. Settling'
    BY <2>1, SettlingStays DEF BrowseInv, SameWords, B!account
  <2>6. WhereBrowser' /\ B!HomeStaysTheirs'
    BY <2>1, Standing DEF BrowseInv, B!HomeStaysTheirs, B!account
  <2> QED
    BY <2>1, <2>4, <2>5, <2>6 DEF BrowseInv
<1>3. CASE B!Searches
  <2>1. search.text \in B!Text /\ search.cat \in Cats \cup {B!None}
    BY DEF BrowseInv, B!Search
  <2>2. ASSUME NEW c \in Cats \cup {B!None}, B!Pick(c) PROVE BrowseInv'
    BY <2>1, <2>2, SettlingChanged DEF B!Pick
  <2>3. ASSUME NEW x \in B!Text, B!Type(x) PROVE BrowseInv'
    BY <2>1, <2>3, SettlingChanged DEF B!Type
  <2>4. ASSUME NEW f \in 1 .. 2, B!Filter(f) PROVE BrowseInv'
    BY <2>1, <2>4, SettlingChanged DEF B!Filter
  <2> QED
    BY <1>3, <2>2, <2>3, <2>4 DEF B!Searches
<1>4. CASE B!Moves
  BY <1>4, SortKeeps, LeavingKeeps, DockKeeps, BackKeeps DEF B!Moves
<1>5. CASE \E d \in Places : B!PickPlace(d)
  BY <1>5, PlaceKeeps
<1>6. CASE B!Account
  BY <1>6, MeKeeps, SignInKeeps, SignOutKeeps, ReloadKeeps DEF B!Account
<1>7. CASE UNCHANGED B!vars
  <2>1. UNCHANGED <<B!browser, search, browseStored, B!effects, shown, B!account, acts, goal>>
    BY <1>7 DEF B!vars
  <2>2. WhereBrowser'
    BY <2>1, Standing DEF BrowseInv
  <2>3. Settling'
    BY <2>1, SettlingStays DEF BrowseInv, SameWords, B!account
  <2>4. BrowseRest' /\ B!HomeStaysTheirs'
    BY <2>1 DEF BrowseInv, BrowseRest, B!HomeStaysTheirs, B!account
  <2> QED
    BY <2>1, <2>2, <2>3, <2>4 DEF BrowseInv
<1> QED
  BY <1>1, <1>2, <1>3, <1>4, <1>5, <1>6, <1>7 DEF B!Next

\* What it means: the types, and the address and the search of a page at rest.
LEMMA BrowseHolds == BrowseInv => B!TypeOK /\ B!SettlesAsAsked /\ B!HomeStaysTheirs
<1> SUFFICES ASSUME BrowseInv PROVE B!TypeOK /\ B!SettlesAsAsked
  BY DEF BrowseInv
<1>1. B!TypeOK
  <2>1. pos \in 1 .. Len(hist) /\ \A i \in 1 .. Len(hist) : hist[i] \in B!Url \cup {B!Other}
    BY DEF BrowseInv, WhereBrowser, Entry
  <2>2. ran \subseteq EffectRun /\ written \subseteq B!Url
    <3>1. Arriving \/ Leading \/ Following
      BY DEF BrowseInv, Settling
    <3>2. Leading => ran \subseteq EffectRun /\ written \subseteq B!Url
      BY DEF Leading, EffectRun
    <3>3. ASSUME Following PROVE ran \subseteq EffectRun /\ written \subseteq B!Url
      <4>1. PICK r \in EffectRun : ran = {r} /\ written = {AtAddress} /\ AtAddress = B!UrlOf(r.search, r.at)
        BY <3>3 DEF Following
      <4>2. r.search \in B!Search /\ r.at \in B!Url
        BY DEF EffectRun
      <4> QED
        BY <4>1, <4>2, Addresses
    <3>4. Arriving => ran \subseteq EffectRun /\ written \subseteq B!Url
      BY DEF Arriving
    <3> QED
      BY <3>1, <3>2, <3>3, <3>4
  <2> QED
    BY <2>1, <2>2 DEF B!TypeOK, BrowseInv, BrowseRest, EffectRun
<1>2. ASSUME B!Here, B!AtRest
      PROVE  /\ B!UrlOf(search, AtAddress) = AtAddress
             /\ goal.filter # 0 => AtAddress = goal
             /\ [goal EXCEPT !.filter = 0] = [AtAddress EXCEPT !.filter = 0]
  <2>1. AtAddress = B!UrlOf(search, AtAddress) /\ goal.sort = AtAddress.sort /\ Fits(search, goal)
    BY <1>2, Resting
  <2>2. search \in B!Search /\ AtAddress \in B!Url /\ goal \in B!Url /\ B!Written(goal)
    BY <1>2, BrowserEntries DEF BrowseInv, B!Here, OnExplore, AtAddress
  <2>3. AtAddress.text = search.text /\ AtAddress.cat = search.cat /\ (search.cat # B!None => AtAddress.filter = search.filter)
        /\ (search.cat = B!None => AtAddress.filter = 0)
    BY <2>1, <2>2, Addresses
  <2>4. goal.page = AtAddress.page /\ goal.text = AtAddress.text /\ goal.cat = AtAddress.cat /\ goal.sort = AtAddress.sort
        /\ (goal.filter # 0 => AtAddress.filter = goal.filter)
    BY <2>1, <2>2, <2>3 DEF Fits, B!Url, B!Written
  <2>5. goal.filter # 0 => AtAddress = goal
    BY <2>2, <2>4 DEF B!Url
  <2>6. [goal EXCEPT !.filter = 0] = [AtAddress EXCEPT !.filter = 0]
    BY <2>2, <2>4 DEF B!Url
  <2> QED
    BY <2>1, <2>5, <2>6
<1> QED
  BY <1>1, <1>2 DEF B!SettlesAsAsked, AtAddress

---------------------------------------------------------------------------
(* The sheets over a page.                                                 *)

\* The stack, without the library's names for its parts.
Stacked ==
    /\ sheetsOpen \in Seq(S!Sheet)
    /\ \A i, j \in 1 .. Len(sheetsOpen) : sheetsOpen[i] = sheetsOpen[j] => i = j
\* The values the rest may have; an open sheet has not left.
SheetTypes ==
    /\ phase \in [S!Sheet -> {"out", "in", "leaving"}]
    /\ sheetsLocked \in BOOLEAN /\ prev \in [S!Sheet -> BOOLEAN] /\ inOrder \in BOOLEAN
    /\ sheetsFocus \in S!Sheet \cup {S!Page} /\ opener \in [S!Sheet -> S!Sheet \cup {S!Page}]
    /\ \A i \in 1 .. Len(sheetsOpen) : phase[sheetsOpen[i]] = "in"

\* Each sheet but the lowest found the scrolling locked and the focus in the one below it.
BottomSheet == Len(sheetsOpen) > 0 => prev[sheetsOpen[1]] = FALSE /\ opener[sheetsOpen[1]] = S!Page
AboveSheet == \A i \in 2 .. Len(sheetsOpen) : prev[sheetsOpen[i]] = TRUE /\ opener[sheetsOpen[i]] = sheetsOpen[i - 1]
TopSheet ==
    /\ Len(sheetsOpen) = 0 => sheetsLocked = FALSE /\ sheetsFocus = S!Page
    /\ Len(sheetsOpen) > 0 => sheetsLocked = TRUE /\ sheetsFocus = sheetsOpen[Len(sheetsOpen)]
Ordered == inOrder = TRUE => BottomSheet /\ AboveSheet /\ TopSheet

SheetsInv == Stacked /\ SheetTypes /\ Ordered

---------------------------------------------------------------------------
\* A sheet is a number, and the page is none of them.
LEMMA SheetsAre == S!Sheet \subseteq Nat /\ S!Page \notin S!Sheet /\ IsFiniteSet(S!Sheet) /\ Cardinality(S!Sheet) = MaxSheet
<1>1. MaxSheet \in Nat /\ 1 \in Int /\ MaxSheet \in Int
  BY Bounds
<1>2. IsFiniteSet(1 .. MaxSheet) /\ Cardinality(1 .. MaxSheet) = MaxSheet
  BY <1>1, FS_Interval
<1> QED
  BY <1>1, <1>2 DEF S!Sheet, S!Page

\* Some of the sheets have a last one in the page.
LEMMA LastInPage ==
  ASSUME NEW T \in SUBSET S!Sheet, T # {}
  PROVE  S!Max(T) \in T /\ \A m \in T : m <= S!Max(T)
<1>1. T \subseteq Nat /\ MaxSheet \in Nat /\ \A m \in T : m <= MaxSheet
  BY Bounds DEF S!Sheet
<1> DEFINE U == {m .. MaxSheet : m \in T}
<1>2. IsWellFoundedOn(StrictSubsetOrdering(S!Sheet), FiniteSubsetsOf(S!Sheet))
  BY SheetsAre, FS_StrictSubsetOrderingWellFounded
<1>3. U \subseteq FiniteSubsetsOf(S!Sheet)
  <2> SUFFICES ASSUME NEW m \in T PROVE m .. MaxSheet \in FiniteSubsetsOf(S!Sheet)
    OBVIOUS
  <2>1. m \in Int /\ MaxSheet \in Int
    BY <1>1
  <2>2. IsFiniteSet(m .. MaxSheet)
    BY <2>1, FS_Interval
  <2>3. m .. MaxSheet \subseteq S!Sheet
    BY <1>1 DEF S!Sheet
  <2> QED
    BY <2>2, <2>3 DEF FiniteSubsetsOf
<1>4. U # {}
  OBVIOUS
<1>5. PICK x \in U : \A y \in U : ~(<<y, x>> \in StrictSubsetOrdering(S!Sheet))
  BY <1>2, <1>3, <1>4, WFMin
<1>6. PICK n \in T : x = n .. MaxSheet
  OBVIOUS
<1>7. ASSUME NEW m \in T, n < m PROVE FALSE
  <2>1. m .. MaxSheet \in U /\ n .. MaxSheet \in U
    OBVIOUS
  <2>2. (m .. MaxSheet) \subseteq (n .. MaxSheet) /\ n \in n .. MaxSheet /\ n \notin m .. MaxSheet
    BY <1>1, <1>7
  <2>3. (n .. MaxSheet) \subseteq S!Sheet
    BY <1>1 DEF S!Sheet
  <2>4. <<m .. MaxSheet, n .. MaxSheet>> \in StrictSubsetOrdering(S!Sheet)
    BY <2>2, <2>3 DEF StrictSubsetOrdering
  <2> QED
    BY <2>1, <2>4, <1>5, <1>6
<1>8. \A m \in T : n >= m
  BY <1>1, <1>7
<1>9. S!Max(T) \in T /\ \A m \in T : S!Max(T) >= m
  BY <1>8 DEF S!Max
<1> QED
  BY <1>1, <1>9

\* One taken from the stack.
LEMMA SheetRemoved ==
  ASSUME Stacked, NEW i \in 1 .. Len(sheetsOpen)
  PROVE  /\ S!RemoveAt(sheetsOpen, i) \in Seq(S!Sheet) /\ Len(S!RemoveAt(sheetsOpen, i)) = Len(sheetsOpen) - 1
         /\ \A j \in 1 .. Len(sheetsOpen) - 1 : S!RemoveAt(sheetsOpen, i)[j] = (IF j < i THEN sheetsOpen[j] ELSE sheetsOpen[j + 1])
         /\ sheetsOpen[i] \in S!Sheet /\ Len(sheetsOpen) \in Nat
<1> DEFINE h == SubSeq(sheetsOpen, 1, i - 1)
           t == SubSeq(sheetsOpen, i + 1, Len(sheetsOpen))
<1>1. sheetsOpen \in Seq(S!Sheet) /\ Len(sheetsOpen) \in Nat /\ i \in Nat /\ 1 <= i /\ i <= Len(sheetsOpen)
  BY DEF Stacked
<1>2. h \in Seq(S!Sheet) /\ Len(h) = i - 1 /\ \A j \in 1 .. i - 1 : h[j] = sheetsOpen[j]
  BY <1>1, SubSeqProperties
<1>3. t \in Seq(S!Sheet) /\ Len(t) = Len(sheetsOpen) - i /\ \A j \in 1 .. Len(sheetsOpen) - i : t[j] = sheetsOpen[i + j]
  BY <1>1, SubSeqProperties
<1> HIDE DEF h, t
<1>4. /\ h \o t \in Seq(S!Sheet) /\ Len(h \o t) = Len(h) + Len(t)
      /\ \A j \in 1 .. Len(h) + Len(t) : (h \o t)[j] = (IF j <= Len(h) THEN h[j] ELSE t[j - Len(h)])
  BY <1>2, <1>3, ConcatProperties
<1>5. S!RemoveAt(sheetsOpen, i) = h \o t
  BY DEF S!RemoveAt, h, t
<1>6. ASSUME NEW j \in 1 .. Len(sheetsOpen) - 1
      PROVE  (h \o t)[j] = (IF j < i THEN sheetsOpen[j] ELSE sheetsOpen[j + 1])
  <2>1. CASE j < i
    BY <1>1, <1>2, <1>3, <1>4, <2>1
  <2>2. CASE ~(j < i)
    <3>1. j - (i - 1) \in 1 .. Len(sheetsOpen) - i /\ i + (j - (i - 1)) = j + 1 /\ ~(j <= i - 1) /\ j \in 1 .. (i - 1) + (Len(sheetsOpen) - i)
      BY <1>1, <2>2
    <3>2. (h \o t)[j] = t[j - (i - 1)]
      BY <1>2, <1>3, <1>4, <3>1
    <3>3. t[j - (i - 1)] = sheetsOpen[i + (j - (i - 1))]
      BY <1>3, <3>1
    <3> QED
      BY <2>2, <3>1, <3>2, <3>3
  <2> QED
    BY <2>1, <2>2
<1>7. Len(h) + Len(t) = Len(sheetsOpen) - 1
  BY <1>1, <1>2, <1>3
<1>8. sheetsOpen[i] \in S!Sheet
  BY <1>1
<1> QED
  BY <1>1, <1>4, <1>5, <1>6, <1>7, <1>8

\* A sheet opens over what is open.
LEMMA OpenKeeps ==
  ASSUME SheetsInv, NEW s \in S!Sheet, S!Open(s)
  PROVE  SheetsInv'
<1> DEFINE n == Len(sheetsOpen)
<1>1. sheetsOpen \in Seq(S!Sheet) /\ n \in Nat /\ \A i \in 1 .. n : sheetsOpen[i] # s
  BY DEF SheetsInv, Stacked, S!Open, S!Opened, S!ToSet
<1>2. /\ sheetsOpen' \in Seq(S!Sheet) /\ Len(sheetsOpen') = n + 1 /\ sheetsOpen'[n + 1] = s
      /\ \A i \in 1 .. n : sheetsOpen'[i] = sheetsOpen[i]
  BY <1>1, AppendProperties DEF S!Open
<1>3. Stacked'
  BY <1>1, <1>2 DEF SheetsInv, Stacked
<1>4. /\ phase' = [phase EXCEPT ![s] = "in"] /\ prev' = [prev EXCEPT ![s] = sheetsLocked] /\ sheetsLocked' = TRUE
      /\ opener' = [opener EXCEPT ![s] = sheetsFocus] /\ sheetsFocus' = s /\ inOrder' = inOrder
  BY DEF S!Open
<1>5. SheetTypes'
  <2>1. phase' \in [S!Sheet -> {"out", "in", "leaving"}] /\ sheetsFocus' \in S!Sheet \cup {S!Page}
        /\ opener' \in [S!Sheet -> S!Sheet \cup {S!Page}]
    BY <1>4 DEF SheetsInv, SheetTypes
  <2>2. sheetsLocked' \in BOOLEAN /\ prev' \in [S!Sheet -> BOOLEAN] /\ inOrder' \in BOOLEAN
    BY <1>4, Zenon DEF SheetsInv, SheetTypes
  <2>3. phase'[s] = "in" /\ \A x \in S!Sheet : x # s => phase'[x] = phase[x]
    BY <1>4 DEF SheetsInv, SheetTypes
  <2>4. ASSUME NEW i \in 1 .. n + 1 PROVE phase'[sheetsOpen'[i]] = "in"
    <3>1. CASE i = n + 1
      BY <1>2, <2>3, <3>1
    <3>2. CASE i # n + 1
      <4>1. i \in 1 .. n /\ sheetsOpen'[i] = sheetsOpen[i] /\ sheetsOpen[i] \in S!Sheet
        BY <1>1, <1>2, <3>2
      <4> QED
        BY <1>1, <2>3, <4>1 DEF SheetsInv, SheetTypes
    <3> QED
      BY <3>1, <3>2
  <2> QED
    BY <1>2, <2>1, <2>2, <2>4 DEF SheetTypes
<1>6. ASSUME inOrder' = TRUE PROVE (BottomSheet /\ AboveSheet /\ TopSheet)'
  <2>1. BottomSheet /\ AboveSheet /\ TopSheet
    BY <1>4, <1>6 DEF SheetsInv, Ordered
  <2>2. prev'[s] = sheetsLocked /\ \A x \in S!Sheet : x # s => prev'[x] = prev[x]
    BY <1>4, Zenon DEF SheetsInv, SheetTypes
  <2>3. opener'[s] = sheetsFocus /\ \A x \in S!Sheet : x # s => opener'[x] = opener[x]
    BY <1>4 DEF SheetsInv, SheetTypes
  <2>4. \A i \in 1 .. n : sheetsOpen[i] \in S!Sheet
    BY <1>1
  <2>5. BottomSheet'
    <3>1. CASE n = 0
      BY <1>2, <2>1, <2>2, <2>3, <3>1 DEF BottomSheet, TopSheet
    <3>2. CASE n # 0
      <4>1. 1 \in 1 .. n /\ sheetsOpen'[1] = sheetsOpen[1] /\ sheetsOpen[1] # s /\ sheetsOpen[1] \in S!Sheet
        BY <1>1, <1>2, <3>2
      <4> QED
        BY <1>1, <1>2, <2>1, <2>2, <2>3, <3>2, <4>1 DEF BottomSheet
    <3> QED
      BY <3>1, <3>2
  <2>6. ASSUME NEW i \in 2 .. n + 1 PROVE prev'[sheetsOpen'[i]] = TRUE /\ opener'[sheetsOpen'[i]] = sheetsOpen'[i - 1]
    <3>1. i - 1 \in 1 .. n /\ sheetsOpen'[i - 1] = sheetsOpen[i - 1]
      BY <1>1, <1>2
    <3>2. CASE i = n + 1
      BY <1>1, <1>2, <2>1, <2>2, <2>3, <3>1, <3>2 DEF TopSheet
    <3>3. CASE i # n + 1
      <4>1. i \in 2 .. n /\ sheetsOpen'[i] = sheetsOpen[i] /\ sheetsOpen[i] # s /\ sheetsOpen[i] \in S!Sheet
        BY <1>1, <1>2, <3>3
      <4> QED
        BY <2>1, <2>2, <2>3, <3>1, <4>1 DEF AboveSheet
    <3> QED
      BY <3>2, <3>3
  <2>7. AboveSheet'
    BY <1>2, <2>6 DEF AboveSheet
  <2>8. TopSheet'
    BY <1>1, <1>2, <1>4 DEF TopSheet
  <2> QED
    BY <2>5, <2>7, <2>8
<1>7. Ordered'
  BY <1>6 DEF Ordered
<1> QED
  BY <1>3, <1>5, <1>7 DEF SheetsInv

\* What a sheet leaves behind: it and nothing else slides away.
LEMMA LeaveTypes ==
  ASSUME SheetsInv, NEW T \in SUBSET S!Sheet, S!Leave(T)
  PROVE  /\ phase' \in [S!Sheet -> {"out", "in", "leaving"}] /\ prev' = prev /\ opener' = opener
         /\ prev' \in [S!Sheet -> BOOLEAN] /\ opener' \in [S!Sheet -> S!Sheet \cup {S!Page}]
         /\ \A x \in S!Sheet \ T : phase'[x] = phase[x]
BY DEF S!Leave, SheetsInv, SheetTypes

\* One closes, wherever it is.
LEMMA CloseKeeps ==
  ASSUME SheetsInv, NEW s, S!Closes(s)
  PROVE  SheetsInv'
<1> DEFINE n == Len(sheetsOpen)
<1>1. PICK i \in 1 .. n :
        /\ sheetsOpen[i] = s /\ sheetsOpen' = S!RemoveAt(sheetsOpen, i) /\ (inOrder' = (inOrder /\ i = n))
        /\ sheetsLocked' = prev[s] /\ sheetsFocus' = (IF S!Returns(s) THEN opener[s] ELSE sheetsFocus)
        /\ S!Leave({s})
  BY DEF S!Closes, SheetsInv, Stacked
<1>2. /\ sheetsOpen' \in Seq(S!Sheet) /\ Len(sheetsOpen') = n - 1 /\ n \in Nat /\ s \in S!Sheet
      /\ \A j \in 1 .. n - 1 : sheetsOpen'[j] = (IF j < i THEN sheetsOpen[j] ELSE sheetsOpen[j + 1])
  BY <1>1, SheetRemoved DEF SheetsInv
<1>3. \A j, k \in 1 .. n : sheetsOpen[j] = sheetsOpen[k] => j = k
  BY DEF SheetsInv, Stacked
<1>4. \A j \in 1 .. n : sheetsOpen[j] \in S!Sheet
  BY DEF SheetsInv, Stacked
<1>5. Stacked'
  <2>1. ASSUME NEW j \in 1 .. n - 1, NEW k \in 1 .. n - 1, sheetsOpen'[j] = sheetsOpen'[k] PROVE j = k
    BY <1>2, <1>3, <2>1
  <2> QED
    BY <1>2, <2>1 DEF Stacked
<1>6. /\ phase' \in [S!Sheet -> {"out", "in", "leaving"}] /\ prev' = prev /\ opener' = opener
      /\ prev' \in [S!Sheet -> BOOLEAN] /\ opener' \in [S!Sheet -> S!Sheet \cup {S!Page}]
      /\ \A x \in S!Sheet \ {s} : phase'[x] = phase[x]
  <2>1. {s} \in SUBSET S!Sheet
    BY <1>2
  <2> QED
    BY <1>1, <2>1, LeaveTypes
<1>7. SheetTypes'
  <2>1. sheetsLocked' \in BOOLEAN /\ inOrder' \in BOOLEAN
    <3>1. prev[s] \in BOOLEAN
      BY <1>2 DEF SheetsInv, SheetTypes
    <3>2. (inOrder /\ i = n) \in BOOLEAN
      OBVIOUS
    <3> QED
      BY <1>1, <3>1, <3>2, Zenon
  <2>2. sheetsFocus' \in S!Sheet \cup {S!Page}
    BY <1>1, <1>2 DEF SheetsInv, SheetTypes
  <2>3. ASSUME NEW j \in 1 .. n - 1 PROVE phase'[sheetsOpen'[j]] = "in"
    <3>1. PICK k \in 1 .. n : sheetsOpen'[j] = sheetsOpen[k] /\ k # i
      BY <1>2
    <3>2. sheetsOpen[k] \in S!Sheet \ {s}
      BY <1>1, <1>3, <1>4, <3>1
    <3> QED
      BY <1>6, <3>1, <3>2 DEF SheetsInv, SheetTypes
  <2> QED
    BY <1>2, <1>6, <2>1, <2>2, <2>3 DEF SheetTypes
<1>8. ASSUME inOrder' = TRUE PROVE (BottomSheet /\ AboveSheet /\ TopSheet)'
  <2>1. inOrder /\ i = n
    BY <1>1, <1>8, Zenon
  <2>2. inOrder = TRUE
    BY <2>1, Zenon DEF SheetsInv, SheetTypes
  <2>3. BottomSheet /\ AboveSheet /\ TopSheet
    BY <2>2 DEF SheetsInv, Ordered
  <2>4. \A j \in 1 .. n - 1 : sheetsOpen'[j] = sheetsOpen[j]
    BY <1>2, <2>1
  <2>5. BottomSheet' /\ AboveSheet'
    <3>1. Len(sheetsOpen') = n - 1 /\ n \in Nat /\ prev' = prev /\ opener' = opener
      BY <1>2, <1>6
    <3>2. ASSUME Len(sheetsOpen') > 0 PROVE prev'[sheetsOpen'[1]] = FALSE /\ opener'[sheetsOpen'[1]] = S!Page
      <4>1. n > 0 /\ sheetsOpen'[1] = sheetsOpen[1]
        BY <2>4, <3>1, <3>2
      <4> QED
        BY <2>3, <3>1, <4>1 DEF BottomSheet
    <3>3. ASSUME NEW j \in 2 .. Len(sheetsOpen')
          PROVE  prev'[sheetsOpen'[j]] = TRUE /\ opener'[sheetsOpen'[j]] = sheetsOpen'[j - 1]
      <4>1. j \in 2 .. n /\ sheetsOpen'[j] = sheetsOpen[j] /\ sheetsOpen'[j - 1] = sheetsOpen[j - 1]
        BY <2>4, <3>1
      <4> QED
        BY <2>3, <3>1, <4>1 DEF AboveSheet
    <3> QED
      BY <3>2, <3>3 DEF BottomSheet, AboveSheet
  <2>6. CASE n = 1
    <3>1. prev[s] = FALSE /\ opener[s] = S!Page
      BY <1>1, <2>1, <2>3, <2>6 DEF BottomSheet
    <3>2. sheetsFocus' = S!Page
      BY <1>1, <3>1 DEF S!Returns
    <3>3. sheetsLocked' = FALSE
      BY <1>1, <3>1, Zenon
    <3> QED
      BY <1>2, <2>5, <2>6, <3>2, <3>3 DEF TopSheet
  <2>7. CASE n # 1
    <3>1. n \in 2 .. n /\ n - 1 \in 1 .. n /\ n - 1 \in 1 .. n - 1
      BY <1>2, <2>7
    <3>2. prev[s] = TRUE /\ opener[s] = sheetsOpen[n - 1]
      BY <1>1, <2>1, <2>3, <3>1 DEF AboveSheet
    <3>3. sheetsOpen[n - 1] \in S!Mounted
      BY <1>4, <3>1 DEF SheetsInv, SheetTypes, S!Mounted
    <3>4. sheetsFocus' = sheetsOpen[n - 1] /\ sheetsOpen'[n - 1] = sheetsOpen[n - 1]
      BY <1>1, <2>4, <3>1, <3>2, <3>3 DEF S!Returns
    <3>5. sheetsLocked' = TRUE
      BY <1>1, <3>2, Zenon
    <3>6. TopSheet'
      BY <1>2, <3>1, <3>4, <3>5 DEF TopSheet
    <3> QED
      BY <2>5, <3>6
  <2> QED
    BY <2>6, <2>7
<1>9. Ordered'
  BY <1>8 DEF Ordered
<1> QED
  BY <1>5, <1>7, <1>9 DEF SheetsInv

\* Escape closes all.
LEMMA EscapeKeeps ==
  ASSUME SheetsInv, S!Escape
  PROVE  SheetsInv'
<1> DEFINE n == Len(sheetsOpen)
           there == {s \in S!Opened : S!Returns(s)}
           falling == \A i, j \in DOMAIN sheetsOpen : i < j => sheetsOpen[j] < sheetsOpen[i]
<1>1. /\ sheetsOpen # <<>> /\ sheetsOpen' = <<>> /\ S!Leave(S!Opened) /\ sheetsLocked' = prev[S!Max(S!Opened)]
      /\ sheetsFocus' = (IF there = {} THEN sheetsFocus ELSE opener[S!Max(there)])
      /\ (inOrder' = (inOrder /\ falling))
  BY DEF S!Escape
<1>2. sheetsOpen \in Seq(S!Sheet) /\ n \in Nat /\ n # 0 /\ DOMAIN sheetsOpen = 1 .. n /\ \A i \in 1 .. n : sheetsOpen[i] \in S!Sheet
  BY <1>1, EmptySeq DEF SheetsInv, Stacked
<1>3. S!Opened = {sheetsOpen[i] : i \in 1 .. n}
  BY <1>2 DEF S!Opened, S!ToSet
<1>4. S!Opened \in SUBSET S!Sheet /\ S!Opened # {} /\ there \in SUBSET S!Sheet
  BY <1>2, <1>3
<1>5. S!Max(S!Opened) \in S!Opened /\ \A m \in S!Opened : m <= S!Max(S!Opened)
  BY <1>4, LastInPage
<1>6. there # {} => S!Max(there) \in there /\ \A m \in there : m <= S!Max(there)
  BY <1>4, LastInPage
<1>7. sheetsOpen' = <<>> /\ <<>> \in Seq(S!Sheet) /\ Len(sheetsOpen') = 0
  BY <1>1
<1>8. Stacked'
  BY <1>7 DEF Stacked
<1>9. /\ phase' \in [S!Sheet -> {"out", "in", "leaving"}] /\ prev' = prev /\ opener' = opener
      /\ prev' \in [S!Sheet -> BOOLEAN] /\ opener' \in [S!Sheet -> S!Sheet \cup {S!Page}]
  BY <1>1, <1>4, LeaveTypes
<1>10. SheetTypes'
  <2>1. sheetsLocked' \in BOOLEAN /\ inOrder' \in BOOLEAN
    <3>1. prev[S!Max(S!Opened)] \in BOOLEAN
      BY <1>4, <1>5 DEF SheetsInv, SheetTypes
    <3>2. (inOrder /\ falling) \in BOOLEAN
      OBVIOUS
    <3> HIDE DEF falling
    <3> QED
      BY <1>1, <3>1, <3>2, Zenon
  <2>2. sheetsFocus' \in S!Sheet \cup {S!Page}
    <3> HIDE DEF there
    <3> QED
      BY <1>1, <1>4, <1>6 DEF SheetsInv, SheetTypes
  <2>3. \A i \in 1 .. 0 : FALSE
    OBVIOUS
  <2> QED
    BY <1>7, <1>9, <2>1, <2>2, <2>3 DEF SheetTypes
<1>11. ASSUME inOrder' = TRUE PROVE (BottomSheet /\ AboveSheet /\ TopSheet)'
  <2>1. inOrder /\ falling
    <3> HIDE DEF falling
    <3> QED
      BY <1>1, <1>11, Zenon
  <2>2. inOrder = TRUE
    BY <2>1, Zenon DEF SheetsInv, SheetTypes
  <2>3. BottomSheet
    BY <2>2 DEF SheetsInv, Ordered
  <2>4. 1 \in 1 .. n /\ sheetsOpen[1] \in S!Opened /\ sheetsOpen[1] \in Nat /\ prev[sheetsOpen[1]] = FALSE /\ opener[sheetsOpen[1]] = S!Page
    <3>1. 1 \in 1 .. n /\ n > 0
      BY <1>2
    <3>2. sheetsOpen[1] \in S!Opened
      BY <1>3, <3>1
    <3>3. sheetsOpen[1] \in Nat
      BY <1>4, <3>2, SheetsAre
    <3> QED
      BY <2>3, <3>1, <3>2, <3>3 DEF BottomSheet
  <2>5. \A m \in S!Opened : m \in Nat /\ m <= sheetsOpen[1]
    <3> SUFFICES ASSUME NEW i \in 1 .. n PROVE sheetsOpen[i] \in Nat /\ sheetsOpen[i] <= sheetsOpen[1]
      BY <1>3
    <3>1. sheetsOpen[i] \in Nat
      BY <1>2, SheetsAre
    <3>2. i # 1 => 1 < i
      BY <1>2
    <3>3. i # 1 => sheetsOpen[i] < sheetsOpen[1]
      BY <1>2, <2>1, <2>4, <3>2
    <3> QED
      BY <2>4, <3>1, <3>3
  <2>6. S!Max(S!Opened) = sheetsOpen[1]
    BY <1>5, <2>4, <2>5
  <2>7. sheetsOpen[1] \in there
    BY <2>4 DEF S!Returns
  <2>8. S!Max(there) = sheetsOpen[1]
    <3>1. S!Max(there) \in there /\ sheetsOpen[1] <= S!Max(there)
      BY <1>6, <2>7
    <3>2. S!Max(there) \in S!Opened
      BY <3>1
    <3>3. S!Max(there) \in Nat /\ S!Max(there) <= sheetsOpen[1]
      BY <2>5, <3>2
    <3> QED
      BY <2>4, <3>1, <3>3
  <2>9. sheetsFocus' = S!Page
    <3> HIDE DEF there
    <3> QED
      BY <1>1, <2>4, <2>7, <2>8
  <2>10. sheetsLocked' = FALSE
    BY <1>1, <2>4, <2>6, Zenon
  <2> QED
    BY <1>7, <2>9, <2>10 DEF BottomSheet, AboveSheet, TopSheet
<1>12. Ordered'
  BY <1>11 DEF Ordered
<1> QED
  BY <1>8, <1>10, <1>12 DEF SheetsInv

\* One is off the page: it had the focus only out of order.
LEMMA GoneKeeps ==
  ASSUME SheetsInv, NEW s \in S!Sheet, S!Gone(s)
  PROVE  SheetsInv'
<1>1. /\ phase[s] = "leaving" /\ phase' = [phase EXCEPT ![s] = "out"]
      /\ sheetsFocus' = (IF sheetsFocus = s THEN S!Page ELSE sheetsFocus)
      /\ UNCHANGED <<sheetsOpen, sheetsLocked, prev, opener, inOrder>>
  BY DEF S!Gone
<1>2. \A i \in 1 .. Len(sheetsOpen) : sheetsOpen[i] \in S!Sheet /\ sheetsOpen[i] # s /\ phase[sheetsOpen[i]] = "in"
  BY <1>1 DEF SheetsInv, Stacked, SheetTypes
<1>3. Stacked'
  BY <1>1 DEF SheetsInv, Stacked
<1>4. SheetTypes'
  <2>1. phase' \in [S!Sheet -> {"out", "in", "leaving"}] /\ \A x \in S!Sheet : x # s => phase'[x] = phase[x]
    BY <1>1 DEF SheetsInv, SheetTypes
  <2>2. \A i \in 1 .. Len(sheetsOpen') : phase'[sheetsOpen'[i]] = "in"
    BY <1>1, <1>2, <2>1
  <2>3. sheetsFocus' \in S!Sheet \cup {S!Page}
    BY <1>1 DEF SheetsInv, SheetTypes
  <2>4. sheetsLocked' \in BOOLEAN /\ prev' \in [S!Sheet -> BOOLEAN] /\ inOrder' \in BOOLEAN /\ opener' \in [S!Sheet -> S!Sheet \cup {S!Page}]
    BY <1>1, Zenon DEF SheetsInv, SheetTypes
  <2> QED
    BY <2>1, <2>2, <2>3, <2>4 DEF SheetTypes
<1>5. ASSUME inOrder' = TRUE PROVE (BottomSheet /\ AboveSheet /\ TopSheet)'
  <2>1. BottomSheet /\ AboveSheet /\ TopSheet
    BY <1>1, <1>5 DEF SheetsInv, Ordered
  <2>2. Len(sheetsOpen) \in Nat
    BY DEF SheetsInv, Stacked
  <2>3. sheetsFocus # s
    <3>1. CASE Len(sheetsOpen) = 0
      BY <2>1, <3>1, SheetsAre DEF TopSheet
    <3>2. CASE Len(sheetsOpen) # 0
      BY <1>2, <2>1, <2>2, <3>2 DEF TopSheet
    <3> QED
      BY <3>1, <3>2
  <2> QED
    BY <1>1, <2>1, <2>3 DEF BottomSheet, AboveSheet, TopSheet
<1>6. Ordered'
  BY <1>5 DEF Ordered
<1> QED
  BY <1>3, <1>4, <1>6 DEF SheetsInv

---------------------------------------------------------------------------
(* The invariant.                                                          *)

\* It holds at first.
LEMMA SheetsBegin == S!Init => SheetsInv
<1> SUFFICES ASSUME S!Init PROVE SheetsInv
  OBVIOUS
<1>1. sheetsOpen = <<>> /\ <<>> \in Seq(S!Sheet) /\ Len(sheetsOpen) = 0 /\ \A i \in 1 .. 0 : FALSE
  BY DEF S!Init
<1>2. Stacked
  BY <1>1 DEF Stacked
<1>3. SheetTypes
  <2>1. sheetsLocked \in BOOLEAN /\ prev \in [S!Sheet -> BOOLEAN] /\ inOrder \in BOOLEAN
    BY Zenon DEF S!Init
  <2> QED
    BY <1>1, <2>1 DEF SheetTypes, S!Init
<1>4. Ordered
  BY <1>1 DEF Ordered, BottomSheet, AboveSheet, TopSheet, S!Init
<1> QED
  BY <1>2, <1>3, <1>4 DEF SheetsInv

\* Any step keeps it.
LEMMA SheetsNext == SheetsInv /\ [S!Next]_(S!vars) => SheetsInv'
<1> SUFFICES ASSUME SheetsInv, [S!Next]_(S!vars) PROVE SheetsInv'
  OBVIOUS
<1>1. CASE S!CloseTop
  BY <1>1, CloseKeeps DEF S!CloseTop
<1>2. CASE S!Escape
  BY <1>2, EscapeKeeps
<1>3. CASE \E s \in S!Sheet : S!Open(s) \/ S!CloseDone(s) \/ S!Gone(s)
  BY <1>3, OpenKeeps, CloseKeeps, GoneKeeps DEF S!CloseDone
<1>4. CASE UNCHANGED S!vars
  <2>1. UNCHANGED <<sheetsOpen, phase, sheetsLocked, prev, sheetsFocus, opener, inOrder>>
    BY <1>4 DEF S!vars
  <2> QED
    BY <2>1 DEF SheetsInv, Stacked, SheetTypes, Ordered, BottomSheet, AboveSheet, TopSheet
<1> QED
  BY <1>1, <1>2, <1>3, <1>4 DEF S!Next

\* What it means.
LEMMA SheetsHold == SheetsInv => S!TypeOK /\ S!ScrollsAgain /\ S!FocusInside
<1> SUFFICES ASSUME SheetsInv PROVE S!TypeOK /\ S!ScrollsAgain /\ S!FocusInside
  OBVIOUS
<1> DEFINE n == Len(sheetsOpen)
<1>1. sheetsOpen \in Seq(S!Sheet) /\ n \in Nat /\ DOMAIN sheetsOpen = 1 .. n /\ sheetsOpen \in [1 .. n -> S!Sheet]
      /\ \A i, j \in 1 .. n : sheetsOpen[i] = sheetsOpen[j] => i = j
  BY LenProperties DEF SheetsInv, Stacked
<1>2. n <= MaxSheet
  <2>1. sheetsOpen \in Injection(1 .. n, S!Sheet)
    BY <1>1 DEF Injection, IsInjective
  <2>2. IsFiniteSet(1 .. n) /\ Cardinality(1 .. n) = n
    BY <1>1, FS_Interval, SMTT(30)
  <2>3. Cardinality(1 .. n) <= Cardinality(S!Sheet)
    BY <2>1, SheetsAre, FS_Injection
  <2> QED
    BY <2>2, <2>3, SheetsAre
<1>3. sheetsOpen \in S!SeqOf(S!Sheet, MaxSheet) /\ S!IsInjective(sheetsOpen)
  <2>1. n \in 0 .. MaxSheet
    BY <1>1, <1>2, Bounds
  <2>2. sheetsOpen \in S!SeqOf(S!Sheet, MaxSheet)
    <3> HIDE DEF n
    <3>1. sheetsOpen \in [1 .. n -> S!Sheet] /\ n \in 0 .. MaxSheet
      BY <1>1, <2>1
    <3> QED
      BY <3>1 DEF S!SeqOf
  <2> QED
    BY <1>1, <2>2, Zenon DEF S!IsInjective
<1>4. S!TypeOK
  BY <1>3, Zenon DEF S!TypeOK, SheetsInv, SheetTypes
<1>5. inOrder => BottomSheet /\ AboveSheet /\ TopSheet
  <2>1. inOrder => inOrder = TRUE
    BY Zenon DEF SheetsInv, SheetTypes
  <2> QED
    BY <2>1 DEF SheetsInv, Ordered
<1>6. sheetsOpen = <<>> <=> n = 0
  BY <1>1, EmptySeq
<1>7. ASSUME inOrder PROVE sheetsLocked = (sheetsOpen # <<>>) /\ sheetsFocus = (IF sheetsOpen = <<>> THEN S!Page ELSE S!Last(sheetsOpen))
  <2>1. CASE n = 0
    BY <1>5, <1>6, <1>7, <2>1 DEF TopSheet
  <2>2. CASE n # 0
    <3>1. n > 0 /\ sheetsOpen # <<>>
      BY <1>1, <1>6, <2>2
    <3>2. sheetsLocked = TRUE /\ sheetsFocus = sheetsOpen[n]
      BY <1>5, <1>7, <3>1 DEF TopSheet
    <3> QED
      BY <3>1, <3>2 DEF S!Last
  <2> QED
    BY <2>1, <2>2
<1> QED
  BY <1>4, <1>7 DEF S!ScrollsAgain, S!FocusInside

---------------------------------------------------------------------------
(* The form of a listing and its grid of pictures.                         *)

\* A picture of the grid while n were picked.
Picture(n) == [key: 1 .. n, at: {"up", "there", "failed"}]
Distinct(ps) == \A i, j \in 1 .. Len(ps) : ps[i].key = ps[j].key => i = j
\* The grid when n were picked.
PictureGrid(ps, n) == ps \in Seq(Picture(n)) /\ Len(ps) <= MaxPhotos /\ Distinct(ps)

\* What is filled in, and what is said of it.
Filled ==
    /\ mode \in F!Modes /\ value \in [F!Field -> {"ok", "bad", "over"}] /\ \A f \in F!Field : value[f] \in F!CanBe(f)
    /\ errors \subseteq F!Field \cup {"photos"} /\ touched \subseteq F!Field \cup {"photos"}
    /\ edits \in 0 .. MaxEdit
Flown ==
    /\ \A u \in flying : u.key \in 1 .. picked /\ u.batch \in 0 .. picked
    /\ picked \in 0 .. MaxPick /\ editorGone \subseteq 1 .. picked
PostedThere == editorSent # F!Null => \A i \in DOMAIN editorSent.photos : editorSent.photos[i].at = "there"
\* Posted at all, only as much as the form has.
PostedFields == editorSent # F!Null => editorSent.over \subseteq F!Field
TakenOut == editorGone \cap F!Keys(photos) = {}

EditorInv == Filled /\ PictureGrid(photos, picked) /\ Flown /\ PostedThere /\ PostedFields /\ TakenOut

---------------------------------------------------------------------------
(* Sequences of pictures.                                                  *)

\* The keys of a grid.
LEMMA KeysAre ==
  ASSUME NEW n, NEW ps \in Seq(Picture(n))
  PROVE  F!Keys(ps) = {ps[i].key : i \in 1 .. Len(ps)} /\ Len(ps) \in Nat /\ DOMAIN ps = 1 .. Len(ps)
         /\ \A i \in 1 .. Len(ps) : ps[i] \in Picture(n) /\ ps[i].key \in 1 .. n
<1>1. Len(ps) \in Nat /\ DOMAIN ps = 1 .. Len(ps)
  BY LenProperties
<1>2. \A i \in 1 .. Len(ps) : ps[i] \in Picture(n)
  BY <1>1, ElementOfSeq
<1>3. \A i \in 1 .. Len(ps) : ps[i].key \in 1 .. n
  BY <1>2 DEF Picture
<1> QED
  BY <1>1, <1>2, <1>3 DEF F!Keys, F!ToSet

\* Some of a grid, each once, is a grid.
LEMMA SomeOf ==
  ASSUME NEW n, NEW ps, PictureGrid(ps, n), NEW m \in Nat, m <= Len(ps), NEW t \in Seq(Picture(n)), Len(t) = m,
         NEW e \in [1 .. m -> 1 .. Len(ps)], \A i, j \in 1 .. m : e[i] = e[j] => i = j,
         \A i \in 1 .. m : t[i] = ps[e[i]]
  PROVE  PictureGrid(t, n) /\ F!Keys(t) \subseteq F!Keys(ps)
<1>1. ps \in Seq(Picture(n)) /\ Len(ps) <= MaxPhotos /\ Distinct(ps)
  BY DEF PictureGrid
<1>2. Len(ps) \in Nat /\ MaxPhotos \in Nat
  BY <1>1, KeysAre, Bounds
<1>3. Len(t) <= MaxPhotos
  BY <1>1, <1>2
<1>4. Distinct(t)
  BY <1>1 DEF Distinct
<1>5. F!Keys(t) \subseteq F!Keys(ps)
  <2>1. F!Keys(t) = {t[i].key : i \in 1 .. m}
    BY KeysAre, ZenonT(60)
  <2>2. F!Keys(ps) = {ps[i].key : i \in 1 .. Len(ps)}
    BY <1>1, KeysAre
  <2> QED
    BY <2>1, <2>2
<1> QED
  BY <1>3, <1>4, <1>5 DEF PictureGrid

\* A sequence written as a function of its places.
LEMMA Placed ==
  ASSUME NEW T, NEW m \in Nat, NEW t \in [1 .. m -> T]
  PROVE  t \in Seq(T) /\ Len(t) = m
BY SeqDef

\* The places I can be counted in their order, so that Sub takes each once.
LEMMA Counted ==
  ASSUME NEW k \in Nat, NEW I \in SUBSET (1 .. k)
  PROVE  /\ Cardinality(I) \in Nat /\ Cardinality(I) <= k
         /\ \E e \in [1 .. Cardinality(I) -> I] :
              \A i, j \in 1 .. Cardinality(I) : i < j => e[i] < e[j]
<1> DEFINE c == Cardinality(I)
           upTo(i) == {j \in I : j <= i}
           f == [i \in I |-> Cardinality(upTo(i))]
<1>1. IsFiniteSet(1 .. k) /\ Cardinality(1 .. k) = k
  <2>1. 1 \in Int /\ k \in Int
    OBVIOUS
  <2> QED
    BY <2>1, FS_Interval
<1>2. IsFiniteSet(I) /\ c \in Nat /\ c <= k
  BY <1>1, FS_Subset, FS_CardinalityType
<1>3. ASSUME NEW i \in I PROVE IsFiniteSet(upTo(i)) /\ Cardinality(upTo(i)) \in 1 .. c
  <2>1. IsFiniteSet(upTo(i)) /\ Cardinality(upTo(i)) <= c
    BY <1>2, FS_Subset
  <2>2. Cardinality(upTo(i)) \in Nat /\ Cardinality(upTo(i)) # 0
    <3>1. i \in upTo(i)
      OBVIOUS
    <3> QED
      BY <2>1, <3>1, FS_CardinalityType, FS_EmptySet
  <2> QED
    BY <1>2, <2>1, <2>2
<1>4. f \in [I -> 1 .. c]
  BY <1>3
<1>5. ASSUME NEW i \in I, NEW j \in I, i < j PROVE f[i] < f[j]
  <2>1. upTo(i) \in SUBSET upTo(j) /\ upTo(i) # upTo(j)
    <3>1. j \in upTo(j) /\ j \notin upTo(i)
      BY <1>5
    <3>2. \A x \in upTo(i) : x \in upTo(j)
      BY <1>5
    <3> QED
      BY <3>1, <3>2
  <2>2. Cardinality(upTo(i)) <= Cardinality(upTo(j)) /\ Cardinality(upTo(i)) # Cardinality(upTo(j))
    BY <1>3, <2>1, FS_Subset
  <2>3. Cardinality(upTo(i)) \in Nat /\ Cardinality(upTo(j)) \in Nat
    BY <1>2, <1>3
  <2> QED
    BY <2>2, <2>3
<1> HIDE DEF f, c
<1>6. \A i, j \in I : f[i] = f[j] => i = j
  <2> SUFFICES ASSUME NEW i \in I, NEW j \in I, f[i] = f[j] PROVE i = j
    OBVIOUS
  <2>1. i \in Nat /\ j \in Nat /\ f[i] \in Nat /\ f[j] \in Nat
    BY <1>2, <1>4
  <2>2. ~(i < j) /\ ~(j < i)
    BY <1>5, <2>1
  <2> QED
    BY <2>1, <2>2
<1>7. \A x \in 1 .. c : \E i \in I : f[i] = x
  <2>1. f \in Injection(I, 1 .. c)
    BY <1>4, <1>6 DEF Injection, IsInjective
  <2>2. IsFiniteSet(1 .. c) /\ Cardinality(1 .. c) = c
    <3>1. 1 \in Int /\ c \in Int
      BY <1>2
    <3> QED
      BY <1>2, <3>1, FS_Interval
  <2>3. Cardinality(I) = Cardinality(1 .. c)
    BY <2>2 DEF c
  <2>4. f \in Surjection(I, 1 .. c)
    BY <2>1, <2>2, <2>3, FS_Injection
  <2> QED
    BY <2>4 DEF Surjection
<1> DEFINE e == [x \in 1 .. c |-> CHOOSE i \in I : f[i] = x]
<1>8. e \in [1 .. c -> I] /\ \A x \in 1 .. c : f[e[x]] = x
  BY <1>7
<1> HIDE DEF e
<1>9. ASSUME NEW x \in 1 .. c, NEW y \in 1 .. c, x < y PROVE e[x] < e[y]
  <2>0. I \subseteq Nat
    OBVIOUS
  <2>1. e[x] \in I /\ e[y] \in I /\ e[x] \in Nat /\ e[y] \in Nat /\ f[e[x]] = x /\ f[e[y]] = y
    BY <1>8, <2>0
  <2>2. ~(e[y] < e[x]) /\ e[x] # e[y]
    <3>1. e[y] < e[x] => y < x
      BY <1>5, <2>1
    <3>2. x \in Nat /\ y \in Nat
      BY <1>2
    <3> QED
      BY <1>9, <2>1, <3>1, <3>2
  <2> QED
    BY <2>1, <2>2
<1> QED
  BY <1>2, <1>8, <1>9 DEF c

\* Those at the places I are a grid.
LEMMA SubIsGrid ==
  ASSUME NEW n, NEW ps, PictureGrid(ps, n), NEW I \in SUBSET (1 .. Len(ps))
  PROVE  /\ PictureGrid(F!Sub(ps, I), n) /\ F!Keys(F!Sub(ps, I)) \subseteq F!Keys(ps)
         /\ \A i \in DOMAIN F!Sub(ps, I) : \E j \in I : F!Sub(ps, I)[i] = ps[j]
<1> DEFINE c == Cardinality(I)
           e == CHOOSE x \in [1 .. c -> I] : \A i, j \in 1 .. c : i < j => x[i] < x[j]
           t == [i \in 1 .. c |-> ps[e[i]]]
<1>1. ps \in Seq(Picture(n)) /\ Len(ps) \in Nat /\ \A i \in 1 .. Len(ps) : ps[i] \in Picture(n)
  BY KeysAre DEF PictureGrid
<1>2. /\ c \in Nat /\ c <= Len(ps)
      /\ \E x \in [1 .. c -> I] : \A i, j \in 1 .. c : i < j => x[i] < x[j]
  BY <1>1, Counted
<1>3. F!Sub(ps, I) = t
  BY DEF F!Sub, F!Cardinality, Cardinality
<1>4. e \in [1 .. c -> I] /\ \A i, j \in 1 .. c : i < j => e[i] < e[j]
  BY <1>2
<1> HIDE DEF e, c
<1>5. e \in [1 .. c -> 1 .. Len(ps)] /\ \A i \in 1 .. c : e[i] \in I
  BY <1>4
<1>6. \A i, j \in 1 .. c : e[i] = e[j] => i = j
  <2> SUFFICES ASSUME NEW i \in 1 .. c, NEW j \in 1 .. c, e[i] = e[j] PROVE i = j
    OBVIOUS
  <2>1. i \in Nat /\ j \in Nat /\ e[i] \in Nat /\ e[j] \in Nat
    BY <1>1, <1>2, <1>5
  <2> QED
    BY <1>4, <2>1
<1>7. t \in [1 .. c -> Picture(n)] /\ \A i \in 1 .. c : t[i] = ps[e[i]]
  BY <1>1, <1>5
<1> HIDE DEF t
<1>8. t \in Seq(Picture(n)) /\ Len(t) = c
  BY <1>2, <1>7, Placed
<1>9. PictureGrid(t, n) /\ F!Keys(t) \subseteq F!Keys(ps)
  <2>1. /\ PictureGrid(ps, n) /\ c \in Nat /\ c <= Len(ps) /\ t \in Seq(Picture(n)) /\ Len(t) = c
        /\ e \in [1 .. c -> 1 .. Len(ps)] /\ \A i, j \in 1 .. c : e[i] = e[j] => i = j
        /\ \A i \in 1 .. c : t[i] = ps[e[i]]
    BY <1>2, <1>5, <1>6, <1>7, <1>8
  <2> QED
    BY <2>1, SomeOf, SMTT(60)
<1>10. \A i \in DOMAIN t : \E j \in I : t[i] = ps[j]
  BY <1>5, <1>7
<1> QED
  BY <1>3, <1>9, <1>10

\* All but the one at i are a grid, without its key.
LEMMA RemovedOne ==
  ASSUME NEW n, NEW ps, PictureGrid(ps, n), NEW i \in 1 .. Len(ps)
  PROVE  /\ F!RemoveAt(ps, i) \in Seq(Picture(n)) /\ Len(F!RemoveAt(ps, i)) = Len(ps) - 1
         /\ \A j \in 1 .. Len(ps) - 1 : F!RemoveAt(ps, i)[j] = ps[IF j < i THEN j ELSE j + 1]
         /\ PictureGrid(F!RemoveAt(ps, i), n) /\ F!Keys(F!RemoveAt(ps, i)) \subseteq F!Keys(ps) \ {ps[i].key}
<1> DEFINE h == SubSeq(ps, 1, i - 1)
           t == SubSeq(ps, i + 1, Len(ps))
<1>1. ps \in Seq(Picture(n)) /\ Len(ps) \in Nat /\ i \in Nat /\ 1 <= i /\ i <= Len(ps)
  BY KeysAre DEF PictureGrid
<1>2. h \in Seq(Picture(n)) /\ Len(h) = i - 1 /\ \A j \in 1 .. i - 1 : h[j] = ps[j]
  BY <1>1, SubSeqProperties
<1>3. t \in Seq(Picture(n)) /\ Len(t) = Len(ps) - i /\ \A j \in 1 .. Len(ps) - i : t[j] = ps[i + j]
  BY <1>1, SubSeqProperties
<1> HIDE DEF h, t
<1>4. /\ h \o t \in Seq(Picture(n)) /\ Len(h \o t) = Len(h) + Len(t)
      /\ \A j \in 1 .. Len(h) + Len(t) : (h \o t)[j] = (IF j <= Len(h) THEN h[j] ELSE t[j - Len(h)])
  BY <1>2, <1>3, ConcatProperties
<1> DEFINE r == F!RemoveAt(ps, i)
           e == [j \in 1 .. Len(ps) - 1 |-> IF j < i THEN j ELSE j + 1]
<1>5. r = h \o t
  BY DEF F!RemoveAt, h, t
<1>6. ASSUME NEW j \in 1 .. Len(ps) - 1
      PROVE  (h \o t)[j] = ps[IF j < i THEN j ELSE j + 1]
  <2>1. CASE j < i
    BY <1>1, <1>2, <1>3, <1>4, <2>1
  <2>2. CASE ~(j < i)
    <3>1. j - (i - 1) \in 1 .. Len(ps) - i /\ i + (j - (i - 1)) = j + 1 /\ ~(j <= i - 1)
          /\ j \in 1 .. (i - 1) + (Len(ps) - i)
      BY <1>1, <2>2
    <3>2. (h \o t)[j] = t[j - (i - 1)]
      BY <1>2, <1>3, <1>4, <3>1
    <3>3. t[j - (i - 1)] = ps[i + (j - (i - 1))]
      BY <1>3, <3>1
    <3> QED
      BY <2>2, <3>1, <3>2, <3>3
  <2> QED
    BY <2>1, <2>2
<1>7. Len(h) + Len(t) = Len(ps) - 1 /\ Len(ps) - 1 \in Nat /\ Len(ps) - 1 <= Len(ps)
  BY <1>1, <1>2, <1>3
<1>8. r \in Seq(Picture(n)) /\ Len(r) = Len(ps) - 1 /\ \A j \in 1 .. Len(ps) - 1 : r[j] = ps[IF j < i THEN j ELSE j + 1]
  BY <1>4, <1>5, <1>6, <1>7
<1> HIDE DEF r
<1>9. /\ e \in [1 .. Len(ps) - 1 -> 1 .. Len(ps)]
      /\ \A j, k \in 1 .. Len(ps) - 1 : e[j] = e[k] => j = k
      /\ \A j \in 1 .. Len(ps) - 1 : r[j] = ps[e[j]] /\ e[j] # i
  BY <1>1, <1>8
<1> HIDE DEF e
<1> DEFINE c == Len(ps) - 1
<1>10. PictureGrid(r, n) /\ F!Keys(r) \subseteq F!Keys(ps)
  <2>1. /\ PictureGrid(ps, n) /\ c \in Nat /\ c <= Len(ps) /\ r \in Seq(Picture(n)) /\ Len(r) = c
        /\ e \in [1 .. c -> 1 .. Len(ps)] /\ \A j, k \in 1 .. c : e[j] = e[k] => j = k
        /\ \A j \in 1 .. c : r[j] = ps[e[j]]
    BY <1>1, <1>7, <1>8, <1>9
  <2> HIDE DEF c
  <2> QED
    BY <2>1, SomeOf, SMTT(60)
<1>11. ps[i].key \notin F!Keys(r)
  <2>1. F!Keys(r) = {r[j].key : j \in 1 .. Len(ps) - 1}
    BY <1>8, KeysAre
  <2>2. ASSUME NEW j \in 1 .. Len(ps) - 1, r[j].key = ps[i].key PROVE FALSE
    BY <1>9, <2>2, SMTT(30) DEF PictureGrid, Distinct
  <2> QED
    BY <2>1, <2>2
<1> QED
  BY <1>8, <1>10, <1>11 DEF r

\* The one at i first is a grid.
LEMMA CoverFirst ==
  ASSUME NEW n, NEW ps, PictureGrid(ps, n), NEW i \in 1 .. Len(ps)
  PROVE  PictureGrid(<<ps[i]>> \o F!RemoveAt(ps, i), n) /\ F!Keys(<<ps[i]>> \o F!RemoveAt(ps, i)) \subseteq F!Keys(ps)
<1> DEFINE h == <<ps[i]>>
           r == F!RemoveAt(ps, i)
           t == h \o r
           e == [j \in 1 .. Len(ps) |-> IF j = 1 THEN i ELSE IF j - 1 < i THEN j - 1 ELSE j]
<1>1. ps \in Seq(Picture(n)) /\ Len(ps) \in Nat /\ i \in Nat /\ 1 <= i /\ i <= Len(ps) /\ ps[i] \in Picture(n)
  BY KeysAre DEF PictureGrid
<1>2. r \in Seq(Picture(n)) /\ Len(r) = Len(ps) - 1 /\ \A j \in 1 .. Len(ps) - 1 : r[j] = ps[IF j < i THEN j ELSE j + 1]
  BY RemovedOne
<1>3. h \in Seq(Picture(n)) /\ Len(h) = 1 /\ h[1] = ps[i]
  BY <1>1
<1> HIDE DEF h, r
<1>0. /\ t \in Seq(Picture(n)) /\ Len(t) = Len(h) + Len(r)
      /\ \A j \in 1 .. Len(h) + Len(r) : t[j] = (IF j <= Len(h) THEN h[j] ELSE r[j - Len(h)])
  BY <1>2, <1>3, ConcatProperties
<1>4. /\ t \in Seq(Picture(n)) /\ Len(t) = 1 + Len(r)
      /\ \A j \in 1 .. 1 + Len(r) : t[j] = (IF j <= 1 THEN h[j] ELSE r[j - 1])
  BY <1>0, <1>3
<1> HIDE DEF t
<1>5. /\ e \in [1 .. Len(ps) -> 1 .. Len(ps)]
      /\ \A j, k \in 1 .. Len(ps) : e[j] = e[k] => j = k
  BY <1>1
<1>6. ASSUME NEW j \in 1 .. Len(ps) PROVE t[j] = ps[e[j]]
  <2>1. CASE j = 1
    BY <1>1, <1>2, <1>3, <1>4, <2>1
  <2>2. CASE j # 1
    <3>1. j - 1 \in 1 .. Len(ps) - 1 /\ ~(j <= 1) /\ j \in 1 .. 1 + Len(r) /\ (j - 1) + 1 = j
      BY <1>1, <1>2, <2>2
    <3>2. t[j] = r[j - 1]
      BY <1>4, <3>1
    <3>3. r[j - 1] = ps[IF j - 1 < i THEN j - 1 ELSE (j - 1) + 1]
      BY <1>2, <3>1
    <3> QED
      BY <2>2, <3>1, <3>2, <3>3
  <2> QED
    BY <2>1, <2>2
<1>7. Len(t) = Len(ps)
  BY <1>1, <1>2, <1>4
<1> HIDE DEF e
<1> DEFINE c == Len(ps)
<1>8. PictureGrid(t, n) /\ F!Keys(t) \subseteq F!Keys(ps)
  <2>1. /\ PictureGrid(ps, n) /\ c \in Nat /\ c <= Len(ps) /\ t \in Seq(Picture(n)) /\ Len(t) = c
        /\ e \in [1 .. c -> 1 .. Len(ps)] /\ \A j, k \in 1 .. c : e[j] = e[k] => j = k
        /\ \A j \in 1 .. c : t[j] = ps[e[j]]
    BY <1>1, <1>4, <1>5, <1>6, <1>7
  <2> HIDE DEF c
  <2> QED
    BY <2>1, SomeOf, SMTT(60)
<1> QED
  BY <1>8 DEF t, h, r

\* An answer put where its picture is.
LEMMA PatchedGrid ==
  ASSUME PictureGrid(photos, picked), NEW k \in 1 .. picked, NEW at \in {"up", "there", "failed"}
  PROVE  PictureGrid(F!Patched(k, at), picked) /\ F!Keys(F!Patched(k, at)) \subseteq F!Keys(photos)
<1> DEFINE t == F!Patched(k, at)
           m == Len(photos)
<1>1. photos \in Seq(Picture(picked)) /\ m \in Nat /\ DOMAIN photos = 1 .. m /\ m <= MaxPhotos
      /\ \A i \in 1 .. m : photos[i] \in Picture(picked)
  BY KeysAre DEF PictureGrid
<1>2. t = [i \in 1 .. m |-> IF photos[i].key = k THEN [key |-> k, at |-> at] ELSE photos[i]]
  BY <1>1 DEF F!Patched
<1>3. [key |-> k, at |-> at] \in Picture(picked)
  BY DEF Picture
<1>4. t \in [1 .. m -> Picture(picked)] /\ \A i \in 1 .. m : t[i].key = photos[i].key
  BY <1>1, <1>2, <1>3
<1> HIDE DEF t
<1>5. t \in Seq(Picture(picked)) /\ Len(t) = m
  BY <1>1, <1>4, Placed
<1>6. F!Keys(t) = {t[i].key : i \in 1 .. m} /\ F!Keys(photos) = {photos[i].key : i \in 1 .. m}
  BY <1>1, <1>5, KeysAre
<1>7. Distinct(t)
  BY <1>4, <1>5 DEF PictureGrid, Distinct
<1> QED
  BY <1>1, <1>4, <1>5, <1>6, <1>7 DEF PictureGrid, t

---------------------------------------------------------------------------
(* The steps of the editor.                                                *)

\* A grid that loses pictures, or keeps them, has none that were taken out.
LEMMA StillOut ==
  ASSUME EditorInv, PictureGrid(photos', picked'), F!Keys(photos') \subseteq F!Keys(photos), editorGone' = editorGone, picked' = picked
  PROVE  PictureGrid(photos, picked)' /\ TakenOut'
BY DEF EditorInv, TakenOut, PictureGrid, Distinct, F!Keys

\* Only what is filled in changes.
LEMMA TypingKeeps ==
  ASSUME EditorInv, Filled', UNCHANGED <<F!grid, editorSent>>
  PROVE  EditorInv'
BY DEF EditorInv, Flown, PostedThere, PostedFields, TakenOut, PictureGrid, Distinct, F!Keys, F!grid

\* The category, the fields, and what leaves one.
LEMMA FieldsKeep ==
  ASSUME EditorInv,
         \/ \E m \in F!Modes : F!Choose(m)
         \/ F!ChangeCategory
         \/ \E f \in F!Field : F!Blur(f) \/ \E v \in F!CanBe(f) : F!Edit(f, v)
  PROVE  EditorInv'
<1>1. ASSUME NEW m \in F!Modes, F!Choose(m) PROVE EditorInv'
  <2>1. "ok" \in F!CanBe("rate") /\ "rate" \in F!Field
    BY DEF F!CanBe, F!Field
  <2>2. Filled'
    BY <1>1, <2>1 DEF F!Choose, EditorInv, Filled
  <2> QED
    BY <1>1, <2>2, TypingKeeps DEF F!Choose
<1>2. ASSUME F!ChangeCategory PROVE EditorInv'
  <2>1. Filled'
    BY <1>2 DEF F!ChangeCategory, EditorInv, Filled, F!Modes
  <2> QED
    BY <1>2, <2>1, TypingKeeps DEF F!ChangeCategory
<1>3. ASSUME NEW f \in F!Field, F!Blur(f) PROVE EditorInv'
  <2>1. Filled'
    BY <1>3 DEF F!Blur, EditorInv, Filled, F!typed, F!Problems
  <2> QED
    BY <1>3, <2>1, TypingKeeps DEF F!Blur
<1>4. ASSUME NEW f \in F!Field, NEW v \in F!CanBe(f), F!Edit(f, v) PROVE EditorInv'
  <2>1. v \in {"ok", "bad", "over"}
    BY DEF F!CanBe
  <2>2. edits' \in 0 .. MaxEdit
    BY <1>4, Bounds DEF F!Edit, EditorInv, Filled
  <2>3. Filled'
    BY <1>4, <2>1, <2>2 DEF F!Edit, EditorInv, Filled
  <2> QED
    BY <1>4, <2>3, TypingKeeps DEF F!Edit
<1> QED
  BY <1>1, <1>2, <1>3, <1>4

\* New pictures have keys no picture had.
LEMMA PickKeeps ==
  ASSUME EditorInv, NEW n \in 1 .. 2, F!Pick(n)
  PROVE  EditorInv'
<1> DEFINE m == Len(photos)
           room == MaxPhotos - m
           c == IF n < room THEN n ELSE room
           new == [i \in 1 .. c |-> [key |-> picked + i, at |-> "up"]]
<1>1. /\ photos \in Seq(Picture(picked)) /\ m \in Nat /\ m <= MaxPhotos /\ Distinct(photos)
      /\ \A i \in 1 .. m : photos[i] \in Picture(picked) /\ photos[i].key \in 1 .. picked
  BY KeysAre DEF EditorInv, PictureGrid
<1>2. picked \in Nat /\ MaxPhotos \in Nat /\ MaxPick \in Nat /\ picked <= MaxPick
  BY Bounds DEF EditorInv, Flown
<1>3. /\ room > 0 /\ picked + n <= MaxPick /\ photos' = photos \o new /\ picked' = picked + Len(new)
      /\ flying' = flying \cup {[key |-> p.key, batch |-> picked + 1] : p \in F!ToSet(new)}
      /\ touched' = touched \cup {"photos"}
      /\ UNCHANGED <<F!typed, errors, editorGone, editorSent>>
  BY DEF F!Pick
<1>4. c \in Nat /\ 1 <= c /\ c <= n /\ m + c <= MaxPhotos
  BY <1>1, <1>2, <1>3
<1> HIDE DEF c, room
<1>5. new \in [1 .. c -> Picture(picked + c)] /\ \A i \in 1 .. c : new[i].key = picked + i /\ new[i].key \in 1 .. picked + c
  BY <1>2, <1>4 DEF Picture
<1> HIDE DEF new
<1>6. new \in Seq(Picture(picked + c)) /\ Len(new) = c
  BY <1>4, <1>5, Placed
<1>7. picked' = picked + c /\ picked' \in 0 .. MaxPick /\ picked \in 1 .. picked' \cup {0}
  BY <1>2, <1>3, <1>4, <1>6
<1>8. photos \in Seq(Picture(picked'))
  <2>1. \A i \in 1 .. m : photos[i] \in Picture(picked')
    BY <1>1, <1>2, <1>4, <1>7, SMTT(30) DEF Picture
  <2>2. photos = [i \in 1 .. m |-> photos[i]]
    BY <1>1, LenProperties
  <2>3. [i \in 1 .. m |-> photos[i]] \in [1 .. m -> Picture(picked')]
    BY <2>1
  <2> QED
    BY <1>1, <2>2, <2>3, Placed
<1>9. /\ photos' \in Seq(Picture(picked')) /\ Len(photos') = m + Len(new)
      /\ \A j \in 1 .. m + Len(new) : photos'[j] = (IF j <= m THEN photos[j] ELSE new[j - m])
  <2>1. new \in Seq(Picture(picked'))
    BY <1>6, <1>7
  <2> QED
    BY <1>3, <1>8, <2>1, ConcatProperties
<1>10. ASSUME NEW j \in 1 .. m + c
       PROVE  photos'[j].key = IF j <= m THEN photos[j].key ELSE picked + (j - m)
  <2>1. CASE j <= m
    BY <1>6, <1>9, <2>1
  <2>2. CASE ~(j <= m)
    <3>1. j - m \in 1 .. c
      BY <1>1, <1>4, <2>2
    <3>2. photos'[j] = new[j - m]
      BY <1>6, <1>9, <2>2
    <3> QED
      BY <1>5, <2>2, <3>1, <3>2
  <2> QED
    BY <2>1, <2>2
<1>11. \A j \in 1 .. m + c : j <= m => photos'[j].key \in 1 .. picked
  BY <1>1, <1>4, <1>10
<1>12. Distinct(photos')
  <2> SUFFICES ASSUME NEW i \in 1 .. m + c, NEW j \in 1 .. m + c, photos'[i].key = photos'[j].key PROVE i = j
    BY <1>6, <1>9 DEF Distinct
  <2>1. CASE i <= m /\ j <= m
    BY <1>1, <1>10, <2>1 DEF Distinct
  <2>2. CASE ~(i <= m) /\ ~(j <= m)
    BY <1>1, <1>2, <1>10, <2>2
  <2>3. CASE i <= m /\ ~(j <= m)
    BY <1>1, <1>2, <1>10, <1>11, <2>3
  <2>4. CASE ~(i <= m) /\ j <= m
    BY <1>1, <1>2, <1>10, <1>11, <2>4
  <2> QED
    BY <2>1, <2>2, <2>3, <2>4
<1>13. PictureGrid(photos', picked')
  BY <1>4, <1>6, <1>9, <1>12 DEF PictureGrid
<1>14. PictureGrid(photos, picked)'
  BY <1>13 DEF PictureGrid, Distinct
<1>15. TakenOut'
  <2>1. F!Keys(photos') = {photos'[i].key : i \in 1 .. m + c}
    BY <1>6, <1>9, KeysAre
  <2>2. F!Keys(photos) = {photos[i].key : i \in 1 .. m}
    BY <1>1, KeysAre
  <2>3. editorGone' = editorGone /\ editorGone \subseteq 1 .. picked /\ editorGone \cap F!Keys(photos) = {}
    BY <1>3 DEF EditorInv, Flown, TakenOut
  <2>4. ASSUME NEW i \in 1 .. m + c, photos'[i].key \in editorGone PROVE FALSE
    <3>1. CASE i <= m
      <4>1. i \in 1 .. m /\ photos'[i].key = photos[i].key
        BY <1>1, <1>4, <1>10, <3>1
      <4> QED
        BY <2>2, <2>3, <2>4, <4>1
    <3>2. CASE ~(i <= m)
      <4>1. photos'[i].key = picked + (i - m) /\ i > m
        BY <1>1, <1>4, <1>10, <3>2
      <4>2. picked + (i - m) \notin 1 .. picked
        BY <1>1, <1>2, <4>1
      <4> QED
        BY <2>3, <2>4, <4>1, <4>2
    <3> QED
      BY <3>1, <3>2
  <2>5. editorGone' \cap F!Keys(photos') = {}
    BY <2>1, <2>3, <2>4
  <2> QED
    BY <2>5 DEF TakenOut, F!Keys
<1>16. Flown'
  <2>1. ASSUME NEW u \in flying' PROVE u.key \in 1 .. picked' /\ u.batch \in 0 .. picked'
    <3>1. CASE u \in flying
      BY <1>2, <1>4, <1>7, <3>1 DEF EditorInv, Flown
    <3>2. CASE u \notin flying
      <4>1. PICK i \in 1 .. c : u = [key |-> new[i].key, batch |-> picked + 1]
        BY <1>3, <1>5, <3>2 DEF F!ToSet
      <4> QED
        BY <1>2, <1>4, <1>5, <1>7, <4>1
    <3> QED
      BY <3>1, <3>2
  <2>2. editorGone' \subseteq 1 .. picked'
    BY <1>2, <1>3, <1>4, <1>7 DEF EditorInv, Flown
  <2> QED
    BY <1>7, <2>1, <2>2 DEF Flown
<1>17. Filled' /\ PostedThere' /\ PostedFields'
  BY <1>3 DEF EditorInv, Filled, PostedThere, PostedFields, F!typed
<1> QED
  BY <1>14, <1>15, <1>16, <1>17 DEF EditorInv

\* An answer, and another try of what failed, change no key of the grid.
LEMMA AnswerKeeps ==
  ASSUME EditorInv,
         \/ \E u \in flying, at \in {"there", "failed"} : F!Upload(u, at)
         \/ \E k \in 1 .. picked : F!Retry(k)
  PROVE  EditorInv'
<1>1. ASSUME NEW u \in flying, NEW at \in {"there", "failed"}, F!Upload(u, at) PROVE EditorInv'
  <2>1. u.key \in 1 .. picked /\ PictureGrid(photos, picked)
    BY DEF EditorInv, Flown
  <2>2. PictureGrid(F!Patched(u.key, at), picked) /\ F!Keys(F!Patched(u.key, at)) \subseteq F!Keys(photos)
    BY <2>1, PatchedGrid
  <2>3. PictureGrid(photos', picked') /\ F!Keys(photos') \subseteq F!Keys(photos) /\ editorGone' = editorGone /\ picked' = picked
    BY <1>1, <2>2 DEF F!Upload
  <2>4. PictureGrid(photos, picked)' /\ TakenOut'
    BY <2>3, StillOut
  <2>5. Filled' /\ Flown' /\ PostedThere' /\ PostedFields'
    BY <1>1 DEF F!Upload, EditorInv, Filled, Flown, PostedThere, PostedFields, F!typed
  <2> QED
    BY <2>4, <2>5 DEF EditorInv
<1>2. ASSUME NEW k \in 1 .. picked, F!Retry(k) PROVE EditorInv'
  <2>1. PictureGrid(photos, picked) /\ picked \in Nat
    BY Bounds DEF EditorInv, Flown
  <2>2. PictureGrid(F!Patched(k, "up"), picked) /\ F!Keys(F!Patched(k, "up")) \subseteq F!Keys(photos)
    BY <2>1, PatchedGrid
  <2>3. PictureGrid(photos', picked') /\ F!Keys(photos') \subseteq F!Keys(photos) /\ editorGone' = editorGone /\ picked' = picked
    BY <1>2, <2>2 DEF F!Retry
  <2>4. PictureGrid(photos, picked)' /\ TakenOut'
    BY <2>3, StillOut
  <2>5. Filled' /\ Flown' /\ PostedThere' /\ PostedFields'
    BY <1>2, <2>1 DEF F!Retry, EditorInv, Filled, Flown, PostedThere, PostedFields, F!typed
  <2> QED
    BY <2>4, <2>5 DEF EditorInv
<1> QED
  BY <1>1, <1>2

\* A picture leaves the grid with its key, or comes first in it.
LEMMA OrderKeeps ==
  ASSUME EditorInv, (\E k \in 1 .. picked : F!TakeOut(k)) \/ (\E i \in 2 .. MaxPhotos : F!MakeCover(i))
  PROVE  EditorInv'
<1>0. PictureGrid(photos, picked) /\ picked \in Nat /\ Len(photos) \in Nat /\ DOMAIN photos = 1 .. Len(photos)
  BY Bounds, KeysAre DEF EditorInv, Flown, PictureGrid
<1>1. ASSUME NEW k \in 1 .. picked, F!TakeOut(k) PROVE EditorInv'
  <2>1. PICK i \in 1 .. Len(photos) : photos[i].key = k /\ photos' = F!RemoveAt(photos, i)
    BY <1>0, <1>1 DEF F!TakeOut
  <2>2. PictureGrid(F!RemoveAt(photos, i), picked) /\ F!Keys(F!RemoveAt(photos, i)) \subseteq F!Keys(photos) \ {photos[i].key}
    BY <1>0, RemovedOne
  <2>3. editorGone' = editorGone \cup {k} /\ picked' = picked /\ UNCHANGED <<F!typed, errors, touched, flying, editorSent>>
    BY <1>1 DEF F!TakeOut
  <2>4. PictureGrid(photos', picked') /\ editorGone' \cap F!Keys(photos') = {}
    BY <2>1, <2>2, <2>3 DEF EditorInv, TakenOut
  <2>5. PictureGrid(photos, picked)' /\ TakenOut'
    BY <2>4 DEF PictureGrid, Distinct, TakenOut, F!Keys
  <2>6. Filled' /\ Flown' /\ PostedThere' /\ PostedFields'
    BY <2>3 DEF EditorInv, Filled, Flown, PostedThere, PostedFields, F!typed
  <2> QED
    BY <2>5, <2>6 DEF EditorInv
<1>2. ASSUME NEW i \in 2 .. MaxPhotos, F!MakeCover(i) PROVE EditorInv'
  <2>1. i \in 1 .. Len(photos) /\ photos' = <<photos[i]>> \o F!RemoveAt(photos, i)
        /\ UNCHANGED <<F!typed, errors, touched, flying, picked, editorGone, editorSent>>
    BY <1>0, <1>2 DEF F!MakeCover
  <2>2. PictureGrid(<<photos[i]>> \o F!RemoveAt(photos, i), picked)
        /\ F!Keys(<<photos[i]>> \o F!RemoveAt(photos, i)) \subseteq F!Keys(photos)
    BY <1>0, <2>1, CoverFirst
  <2>3. PictureGrid(photos', picked') /\ F!Keys(photos') \subseteq F!Keys(photos) /\ editorGone' = editorGone /\ picked' = picked
    BY <2>1, <2>2
  <2>4. PictureGrid(photos, picked)' /\ TakenOut'
    BY <2>3, StillOut
  <2>5. Filled' /\ Flown' /\ PostedThere' /\ PostedFields'
    BY <2>1 DEF EditorInv, Filled, Flown, PostedThere, PostedFields, F!typed
  <2> QED
    BY <2>4, <2>5 DEF EditorInv
<1> QED
  BY <1>1, <1>2

\* What is there of the grid is a grid, and all of it there.
LEMMA ThereIsGrid ==
  ASSUME EditorInv
  PROVE  /\ PictureGrid(F!There(photos), picked) /\ F!Keys(F!There(photos)) \subseteq F!Keys(photos)
         /\ \A i \in DOMAIN F!There(photos) : F!There(photos)[i].at = "there"
<1> DEFINE I == {i \in DOMAIN photos : photos[i].at = "there"}
<1>1. PictureGrid(photos, picked) /\ DOMAIN photos = 1 .. Len(photos)
  BY KeysAre DEF EditorInv, PictureGrid
<1>2. I \in SUBSET (1 .. Len(photos)) /\ \A j \in I : photos[j].at = "there"
  BY <1>1
<1>3. F!There(photos) = F!Sub(photos, I)
  BY DEF F!There
<1> HIDE DEF I
<1>4. /\ PictureGrid(F!Sub(photos, I), picked) /\ F!Keys(F!Sub(photos, I)) \subseteq F!Keys(photos)
      /\ \A i \in DOMAIN F!Sub(photos, I) : \E j \in I : F!Sub(photos, I)[i] = photos[j]
  BY <1>1, <1>2, SubIsGrid
<1> QED
  BY <1>2, <1>3, <1>4

\* Sending the form, and its answer.
LEMMA FormSendKeeps ==
  ASSUME EditorInv, F!Submit \/ F!Accepted \/ F!Refused
  PROVE  EditorInv'
<1>1. CASE F!Submit
  <2>1. PictureGrid(photos, picked)' /\ TakenOut' /\ Flown' /\ Filled'
    BY <1>1 DEF F!Submit, EditorInv, PictureGrid, Distinct, TakenOut, F!Keys, Flown, Filled, F!Problems, F!typed, F!grid
  <2>2. PostedThere' /\ PostedFields'
    <3>1. editorSent' # F!Null => editorSent' = [photos |-> F!There(photos), over |-> F!Over]
      BY <1>1 DEF F!Submit
    <3>2. \A i \in DOMAIN F!There(photos) : F!There(photos)[i].at = "there"
      BY ThereIsGrid
    <3>3. F!Over \subseteq F!Field
      BY DEF F!Over
    <3>4. editorSent' # F!Null => editorSent'.photos = F!There(photos) /\ editorSent'.over = F!Over
      BY <3>1
    <3> QED
      BY <3>2, <3>3, <3>4 DEF PostedThere, PostedFields, F!Null
  <2> QED
    BY <2>1, <2>2 DEF EditorInv
<1>2. CASE F!Accepted
  <2>1. photos' = <<>> /\ flying' = {} /\ editorGone' = {} /\ editorSent' = F!Null /\ errors' = {} /\ touched' = {} /\ mode' = "none"
        /\ value' = [f \in F!Field |-> IF f \in {"title", "machine"} THEN "bad" ELSE "ok"]
        /\ picked' = picked /\ edits' = edits
    BY <1>2 DEF F!Accepted
  <2>2. PictureGrid(photos, picked)'
    <3>1. <<>> \in Seq(Picture(picked)) /\ Len(<<>>) = 0
      OBVIOUS
    <3>2. MaxPhotos \in Nat
      BY Bounds
    <3> QED
      BY <2>1, <3>1, <3>2 DEF PictureGrid, Distinct, Picture
  <2>3. Filled'
    BY <2>1 DEF EditorInv, Filled, F!Modes, F!CanBe, F!Field
  <2>4. Flown' /\ PostedThere' /\ PostedFields' /\ TakenOut'
    BY <2>1 DEF EditorInv, Flown, PostedThere, PostedFields, TakenOut
  <2> QED
    BY <2>2, <2>3, <2>4 DEF EditorInv
<1>3. CASE F!Refused
  <2>1. PICK named \in {editorSent.over \cap {"postal"}, {}} : errors' = errors \cup named /\ touched' = touched \cup named
    BY <1>3 DEF F!Refused
  <2>2. named \subseteq {"postal"} /\ "postal" \in F!Field
    BY <2>1 DEF F!Field
  <2>3. editorSent' = F!Null /\ UNCHANGED <<F!typed, F!grid>>
    BY <1>3 DEF F!Refused
  <2>4. Filled'
    BY <2>1, <2>2, <2>3 DEF EditorInv, Filled, F!typed
  <2>5. PictureGrid(photos, picked)' /\ TakenOut' /\ Flown' /\ PostedThere' /\ PostedFields'
    BY <2>3 DEF EditorInv, PictureGrid, Distinct, TakenOut, F!Keys, Flown, PostedThere, PostedFields, F!grid
  <2> QED
    BY <2>4, <2>5 DEF EditorInv
<1> QED
  BY <1>1, <1>2, <1>3

\* A reload keeps the pictures that are there.
LEMMA FormReloadKeeps ==
  ASSUME EditorInv, F!Reload
  PROVE  EditorInv'
<1>1. photos' = F!There(photos) /\ flying' = {} /\ errors' = {} /\ touched' = {} /\ editorSent' = F!Null
      /\ UNCHANGED <<F!typed, picked, editorGone>>
  BY DEF F!Reload
<1>2. PictureGrid(photos', picked') /\ F!Keys(photos') \subseteq F!Keys(photos) /\ editorGone' = editorGone /\ picked' = picked
  BY <1>1, ThereIsGrid
<1>3. PictureGrid(photos, picked)' /\ TakenOut'
  BY <1>2, StillOut
<1>4. Filled' /\ Flown' /\ PostedThere' /\ PostedFields'
  BY <1>1 DEF EditorInv, Filled, Flown, PostedThere, PostedFields, F!typed
<1> QED
  BY <1>3, <1>4 DEF EditorInv

---------------------------------------------------------------------------
(* What holds of the editor.                                               *)

\* A new form.
LEMMA EditorBegins ==
  ASSUME F!Init PROVE EditorInv
<1>1. Filled
  BY Bounds DEF F!Init, Filled, F!Modes, F!CanBe, F!Field
<1>2. PictureGrid(photos, picked)
  <2>1. <<>> \in Seq(Picture(picked)) /\ Len(<<>>) = 0
    OBVIOUS
  <2> QED
    BY <2>1, Bounds DEF F!Init, PictureGrid, Distinct
<1>3. Flown /\ PostedThere /\ PostedFields /\ TakenOut
  BY Bounds DEF F!Init, Flown, PostedThere, PostedFields, TakenOut
<1> QED
  BY <1>1, <1>2, <1>3 DEF EditorInv

\* Every step.
LEMMA EditorNext ==
  ASSUME EditorInv, F!Next PROVE EditorInv'
BY FieldsKeep, PickKeeps, AnswerKeeps, OrderKeeps, FormSendKeeps, FormReloadKeeps DEF F!Next

\* And where it stands it keeps it.
LEMMA EditorMoves == EditorInv /\ [F!Next]_(F!vars) => EditorInv'
<1> SUFFICES ASSUME EditorInv, [F!Next]_(F!vars) PROVE EditorInv'
  OBVIOUS
<1>1. CASE F!Next
  BY <1>1, EditorNext
<1>2. CASE UNCHANGED F!vars
  <2>1. UNCHANGED <<mode, value, errors, touched, photos, flying, picked, edits, editorGone, editorSent>>
    BY <1>2 DEF F!vars, F!grid
  <2> QED
    BY <2>1 DEF EditorInv, Filled, Flown, PostedThere, PostedFields, TakenOut, PictureGrid, Distinct, F!Keys
<1> QED
  BY <1>1, <1>2

\* What the invariant says.
LEMMA EditorHolds ==
  ASSUME EditorInv PROVE F!TypeOK
<1>1. photos \in Seq([key: 1 .. picked, at: {"up", "there", "failed"}]) /\ Len(photos) <= MaxPhotos
      /\ Len(photos) \in Nat /\ DOMAIN photos = 1 .. Len(photos)
  BY KeysAre DEF EditorInv, PictureGrid, Picture
<1>2. \A i, j \in DOMAIN photos : photos[i].key = photos[j].key => i = j
  BY <1>1 DEF EditorInv, PictureGrid, Distinct
<1>3. editorSent # F!Null => \A p \in F!ToSet(editorSent.photos) : p.at = "there"
  BY DEF EditorInv, PostedThere, F!ToSet
<1> QED
  BY <1>1, <1>2, <1>3 DEF EditorInv, Filled, Flown, F!TypeOK

\* A press that posts nothing shows why.
LEMMA RefusedIsShown ==
  ASSUME EditorInv, F!Submit
  PROVE  editorSent' # F!Null \/ (errors' \cap touched' \cap F!Shows(mode)) # {}
<1>1. errors' = F!Problems /\ touched' = (F!Field \cup {"photos"}) \ {"postal"}
      /\ editorSent' = IF F!Problems # {} THEN F!Null ELSE [photos |-> F!There(photos), over |-> F!Over]
  BY DEF F!Submit
<1>2. CASE F!Problems = {}
  <2>1. editorSent' = [photos |-> F!There(photos), over |-> F!Over] /\ F!Over \subseteq F!Field
    BY <1>1, <1>2 DEF F!Over
  <2>2. editorSent'.over \subseteq F!Field
    BY <2>1
  <2>3. F!Null.over = {"nothing"} /\ "nothing" \notin F!Field
    BY DEF F!Null, F!Field
  <2> QED
    BY <2>2, <2>3
<1>3. CASE F!Problems # {}
  <2>1. PICK f \in F!Problems : TRUE
    BY <1>3
  <2>2. CASE f = "photos"
    BY <1>1, <2>1, <2>2 DEF F!Shows, F!Field
  <2>3. CASE f # "photos"
    <3>1. f \in F!Field /\ f \in F!Shows(mode) /\ value[f] = "bad"
      BY <2>1, <2>3 DEF F!Problems
    <3>2. value["postal"] # "bad"
      BY DEF EditorInv, Filled, F!CanBe, F!Field
    <3> QED
      BY <1>1, <2>1, <3>1, <3>2
  <2> QED
    BY <2>2, <2>3
<1> QED
  BY <1>2, <1>3

---------------------------------------------------------------------------
(* A step of the desk is a step of one machine, and the others stand.      *)

\* Every machine starts in a state of its own specification.
LEMMA EachBegins ==
  DeskInit => A!Init /\ L!Init /\ P!Init /\ F!Init /\ C!Init /\ S!Init /\ B!Init /\ Init
BY DEF DeskInit

\* And every step is a step of it, or leaves it alone.
LEMMA EachMoves ==
  ASSUME [DeskNext]_deskVars
  PROVE  /\ [A!Next]_(A!vars) /\ [L!Next]_(L!vars) /\ [P!Next]_(P!vars) /\ [F!Next]_(F!vars)
         /\ [C!Next]_(C!vars) /\ [S!Next]_(S!vars) /\ [B!Next]_(B!vars) /\ [Next]_vars
<1>1. /\ attempt' = attempt => UNCHANGED A!vars
      /\ listing' = listing => UNCHANGED L!vars
      /\ handover' = handover => UNCHANGED P!vars
      /\ editor' = editor => UNCHANGED F!vars
      /\ lateness' = lateness => UNCHANGED C!vars
      /\ sheets' = sheets => UNCHANGED S!vars
      /\ browse' = browse => UNCHANGED B!vars
  <2>1. attempt' = attempt => UNCHANGED A!vars
    BY DEF attempt, A!vars
  <2>2. listing' = listing => UNCHANGED L!vars
    BY DEF listing, L!vars, L!server, L!job, L!fields, L!saving
  <2>3. handover' = handover => UNCHANGED P!vars
    BY DEF handover, P!vars, P!web, P!sweep
  <2>4. editor' = editor => UNCHANGED F!vars
    BY DEF editor, F!vars
  <2>5. lateness' = lateness => UNCHANGED C!vars
    BY DEF lateness, C!vars
  <2>6. sheets' = sheets => UNCHANGED S!vars
    BY DEF sheets, S!vars
  <2>7. browse' = browse => UNCHANGED B!vars
    BY DEF browse, B!vars, B!browser, B!effects, B!account
  <2> QED
    BY <2>1, <2>2, <2>3, <2>4, <2>5, <2>6, <2>7
<1>2. CASE UNCHANGED deskVars
  BY <1>1, <1>2, Zenon DEF deskVars
<1>3. CASE InAttempt(A!Next)
  BY <1>1, <1>3, Zenon DEF InAttempt
<1>4. CASE InListing(L!Next)
  BY <1>1, <1>4, Zenon DEF InListing
<1>5. CASE InHandover(P!Next)
  BY <1>1, <1>5, Zenon DEF InHandover
<1>6. CASE InEditor(F!Next)
  BY <1>1, <1>6, Zenon DEF InEditor
<1>7. CASE InLateness(C!Next)
  BY <1>1, <1>7, Zenon DEF InLateness
<1>8. CASE InSheets(S!Next)
  BY <1>1, <1>8, Zenon DEF InSheets
<1>9. CASE InBrowse(B!Next)
  BY <1>1, <1>9, Zenon DEF InBrowse
<1>10. CASE InDispute(Next)
  BY <1>1, <1>10, Zenon DEF InDispute
<1> QED
  BY <1>2, <1>3, <1>4, <1>5, <1>6, <1>7, <1>8, <1>9, <1>10 DEF DeskNext

---------------------------------------------------------------------------
(* The desk implements each of its machines, so what they keep it keeps.   *)

\* What the desk does is, seen from any of its machines, that machine running by itself.
THEOREM TheDesk ==
  DeskSpec => A!Spec /\ L!Spec /\ P!Spec /\ F!Spec /\ C!Spec /\ S!Spec /\ B!Spec /\ Spec
<1>1. DeskInit => A!Init /\ L!Init /\ P!Init /\ F!Init /\ C!Init /\ S!Init /\ B!Init /\ Init
  BY EachBegins
<1>2. [DeskNext]_deskVars =>
         /\ [A!Next]_(A!vars) /\ [L!Next]_(L!vars) /\ [P!Next]_(P!vars) /\ [F!Next]_(F!vars)
         /\ [C!Next]_(C!vars) /\ [S!Next]_(S!vars) /\ [B!Next]_(B!vars) /\ [Next]_vars
  BY EachMoves
<1> QED
  BY <1>1, <1>2, PTL DEF DeskSpec, A!Spec, L!Spec, P!Spec, F!Spec, C!Spec, S!Spec, B!Spec, Spec

\* One claim of a late return, with one outcome that everybody is told.
THEOREM DeskOneClaim == DeskSpec => []OneClaim
<1>1. DeskSpec => C!Spec
  BY TheDesk
<1>2. OneClaim <=> C!OneClaim /\ C!OutcomeIsOne
  BY DEF OneClaim
<1> QED
  BY <1>1, <1>2, ClaimedOnce, OutcomeOnce, PTL

\* However a form's answers come, a wish is made twice only after a definite refusal of it, under no
\* key that another text had.
THEOREM DeskMadeOnce == DeskSpec => []TwiceOnlyAfterRefusal
<1>1. A!Init => AttemptInv
  BY AttemptBegins
<1>2. AttemptInv /\ [A!Next]_(A!vars) => AttemptInv'
  BY AttemptNext
<1>3. AttemptInv => TwiceOnlyAfterRefusal
  BY AttemptHolds DEF TwiceOnlyAfterRefusal
<1> QED
  BY <1>1, <1>2, <1>3, TheDesk, PTL DEF A!Spec

\* A listing said to be saved has none of the windows taken away in it.
THEOREM DeskSaved == DeskSpec => SavedMeansRemoved
<1>1. L!Init => ListingsInv
  BY ListingsBegin
<1>2. ListingsInv /\ [L!Next]_(L!vars) => ListingsInv'
  BY ListingsNext
<1>3. ListingsInv => L!GeneratedApart
  BY DEF ListingsInv
<1>4. ListingsInv /\ [DeskNext]_deskVars => [InListing(L!Saved) => gone \cap L!Ids = {}]_deskVars
  BY SavedHolds DEF InListing
<1> QED
  BY <1>1, <1>2, <1>3, <1>4, TheDesk, PTL DEF L!Spec, SavedMeansRemoved, DeskSpec

\* No photo is swept while it is in use, and the save tried again keeps its key.
THEOREM DeskKeepsPhotos == DeskSpec => NotSweptInUse
<1>1. P!Init => PhotosInv
  BY PhotosBegin
<1>2. PhotosInv /\ [P!Next]_(P!vars) => PhotosInv'
  BY PhotosNext
<1>3. PhotosInv /\ [P!Next]_(P!vars) => [\A f \in doomed' \ doomed : f \notin used]_(P!vars)
  BY PhotosNext
<1>4. PhotosInv => P!RetryKeepsKey
  BY DEF PhotosInv
<1> QED
  BY <1>1, <1>2, <1>3, <1>4, TheDesk, PTL DEF P!Spec, NotSweptInUse, P!NotSweptInUse

\* A dispute is decided once, within what each role decides, by the terms both parties saw.
THEOREM DeskDecides == DeskSpec => []OneDecision
<1>1. Sizes /\ Apart
  BY BoundsArePositive, PriceIsPositive, LimitsAreOrdered, RolesAreApart DEF Sizes, Apart, Party, Staff
<1>2. Spec => []OneDecision
  BY <1>1, DecidedOnceAsItMust
<1> QED
  BY <1>2, TheDesk

\* Every variable of the machine that moves keeps its type.
THEOREM DeskIsTyped == DeskSpec => []DeskTyped
<1> DEFINE Focus == focus \in {"attempt", "listing", "handover", "editor", "lateness", "sheets", "browse", "dispute"}
           Types == A!TypeOK /\ L!TypeOK /\ P!TypeOK /\ F!TypeOK /\ C!TypeOK /\ S!TypeOK /\ B!TypeOK /\ TypeOK
<1>1. DeskInit => Focus
  BY DEF DeskInit
<1>2. Focus /\ [DeskNext]_deskVars => Focus'
  BY DEF DeskNext, deskVars, InAttempt, InListing, InHandover, InEditor, InLateness, InSheets, InBrowse, InDispute
<1>3. DeskSpec => []A!TypeOK
  <2>1. A!Init => AttemptInv
    BY AttemptBegins
  <2>2. AttemptInv /\ [A!Next]_(A!vars) => AttemptInv'
    BY AttemptNext
  <2>3. AttemptInv => A!TypeOK
    BY DEF AttemptInv
  <2> QED
    BY <2>1, <2>2, <2>3, TheDesk, PTL DEF A!Spec
<1>4. DeskSpec => []L!TypeOK
  <2>1. L!Init => ListingsInv
    BY ListingsBegin
  <2>2. ListingsInv /\ [L!Next]_(L!vars) => ListingsInv'
    BY ListingsNext
  <2>3. ListingsInv => L!TypeOK
    BY DEF ListingsInv
  <2> QED
    BY <2>1, <2>2, <2>3, TheDesk, PTL DEF L!Spec
<1>5. DeskSpec => []P!TypeOK
  <2>1. P!Init => PhotosInv
    BY PhotosBegin
  <2>2. PhotosInv /\ [P!Next]_(P!vars) => PhotosInv'
    BY PhotosNext
  <2>3. PhotosInv => P!TypeOK
    BY DEF PhotosInv
  <2> QED
    BY <2>1, <2>2, <2>3, TheDesk, PTL DEF P!Spec
<1>6. DeskSpec => []F!TypeOK
  <2>1. F!Init => EditorInv
    BY EditorBegins
  <2>2. EditorInv /\ [F!Next]_(F!vars) => EditorInv'
    BY EditorMoves
  <2>3. EditorInv => F!TypeOK
    BY EditorHolds
  <2> QED
    BY <2>1, <2>2, <2>3, TheDesk, PTL DEF F!Spec
<1>7. DeskSpec => []S!TypeOK
  <2>1. S!Init => SheetsInv
    BY SheetsBegin
  <2>2. SheetsInv /\ [S!Next]_(S!vars) => SheetsInv'
    BY SheetsNext
  <2>3. SheetsInv => S!TypeOK
    BY SheetsHold
  <2> QED
    BY <2>1, <2>2, <2>3, TheDesk, PTL DEF S!Spec
<1>8. DeskSpec => []B!TypeOK
  <2>1. B!Init => BrowseInv
    BY BrowseBegins
  <2>2. BrowseInv /\ [B!Next]_(B!vars) => BrowseInv'
    BY BrowseNext
  <2>3. BrowseInv => B!TypeOK
    BY BrowseHolds
  <2> QED
    BY <2>1, <2>2, <2>3, TheDesk, PTL DEF B!Spec
<1>9. DeskSpec => []TypeOK
  <2>1. Sizes /\ Apart
    BY BoundsArePositive, PriceIsPositive, LimitsAreOrdered, RolesAreApart DEF Sizes, Apart, Party, Staff
  <2>2. Spec => []TypeOK
    BY <2>1, DisputeTyped
  <2> QED
    BY <2>2, TheDesk
<1>10. Focus /\ Types => DeskTyped
  BY DEF DeskTyped
<1> HIDE DEF Focus
<1> QED
  BY <1>1, <1>2, <1>3, <1>4, <1>5, <1>6, <1>7, <1>8, <1>9, <1>10, TheDesk, ClaimsTyped, PTL DEF DeskSpec

\* A picture taken out never comes back with its upload's answer, and a form that is refused shows why.
THEOREM DeskKeepsGone == DeskSpec => GoneStaysGone
<1>1. F!Init => EditorInv
  BY EditorBegins
<1>2. EditorInv /\ [F!Next]_(F!vars) => EditorInv'
  BY EditorMoves
<1>3. EditorInv' => editorGone' \cap F!Keys(photos') = {}
  BY DEF EditorInv, TakenOut, F!Keys
<1>4. EditorInv => (F!Submit => editorSent' # F!Null \/ (errors' \cap touched' \cap F!Shows(mode)) # {})
  BY RefusedIsShown
<1> QED
  BY <1>1, <1>2, <1>3, <1>4, TheDesk, PTL DEF F!Spec, GoneStaysGone, F!GoneStaysGone, F!RefusalIsSeen

\* What opened over the page gives back the scrolling and the focus, the two effects of the search end
\* at the search that was asked for, and an account starts searching from its own home.
THEOREM DeskSettles == DeskSpec => []ScreenSettles
<1>1. S!Init => SheetsInv
  BY SheetsBegin
<1>2. SheetsInv /\ [S!Next]_(S!vars) => SheetsInv'
  BY SheetsNext
<1>3. B!Init => BrowseInv
  BY BrowseBegins
<1>4. BrowseInv /\ [B!Next]_(B!vars) => BrowseInv'
  BY BrowseNext
<1>5. SheetsInv /\ BrowseInv => ScreenSettles
  BY SheetsHold, BrowseHolds DEF ScreenSettles
<1> QED
  BY <1>1, <1>2, <1>3, <1>4, <1>5, TheDesk, PTL DEF S!Spec, B!Spec
=============================================================================
