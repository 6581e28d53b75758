------------------------------- MODULE Browse -------------------------------
(***************************************************************************)
(* The search of Explore and its address (web/src/app/screens/Browse.tsx,  *)
(* app/store.tsx).  The search is in the store and outlives the screen;    *)
(* two effects copy the address into it and it into the address, each with *)
(* the values of the render it follows; React may render a change of the   *)
(* store before a navigation made with it.  Where searches start from      *)
(* follows the account that is signed in (App.tsx `Member`).               *)
(***************************************************************************)
EXTENDS Naturals, Sequences

CONSTANTS People,     \* accounts that sign in on this device
          Cats,       \* categories
          Places,     \* districts
          Default,    \* the district every search starts from
          MaxAct      \* things the person does

None == "none"
Nobody == "nobody"

VARIABLES
    hist, pos,   \* the browser's history, and where it is
    search,      \* the store: [text, cat, filter, district, chosen]
    stored,      \* the district kept on the device, if any
    ran,         \* what the effects last ran with: nothing before the first render
    written,     \* the address the search last wrote or read, if any
    shown,       \* what the results on the page were asked with, if any
    who, home,   \* who is signed in; everybody's own district, if they gave one
    loaded,      \* GET /me answered for them
    acts,
    goal         \* the search the last act asks for

browser == <<hist, pos>>
effects == <<ran, written>>
account == <<who, home, loaded>>
vars == <<browser, search, stored, effects, shown, account, acts, goal>>

Text == {"", "drill"}
Sorts == {"best", "price"}
\* An address of Explore, or another page.  Without a category it has no filter (0).
Url == [page: {"explore"}, text: Text, cat: Cats \cup {None}, filter: 0 .. 2, sort: Sorts]
Written(u) == u.cat = None => u.filter = 0
Blank == [page |-> "explore", text |-> "", cat |-> None, filter |-> 0, sort |-> "best"]
Other == [Blank EXCEPT !.page = "other"]
Search == [text: Text, cat: Cats \cup {None}, filter: 1 .. 2, district: Places, chosen: BOOLEAN]

TypeOK ==
    /\ pos \in 1 .. Len(hist) /\ \A i \in 1 .. Len(hist) : hist[i] \in Url \cup {Other}
    /\ search \in Search /\ stored \subseteq Places
    /\ ran \subseteq [search: Search, at: Url] /\ written \subseteq Url
    /\ shown \subseteq [cat: Cats, filter: 1 .. 2, sort: Sorts]
    /\ who \in People \cup {Nobody} /\ home \in [People -> Places \cup {None}] /\ loaded \in BOOLEAN
    /\ acts \in 0 .. MaxAct /\ goal \in Url

Fresh == [text |-> "", cat |-> None, filter |-> 1,
          district |-> IF stored = {} THEN Default ELSE CHOOSE d \in stored : TRUE,
          chosen |-> stored # {}]

\* Arrived by any link, signed in or not.
Init ==
    /\ hist \in {<<u>> : u \in {v \in Url : Written(v)}} /\ pos = 1
    /\ stored = {} /\ search = Fresh
    /\ ran = {} /\ written = {} /\ shown = {}
    /\ who \in People \cup {Nobody} /\ home \in [People -> Places \cup {None}] /\ loaded = FALSE
    /\ acts = 0 /\ goal = hist[1]

-----------------------------------------------------------------------------
Here == hist[pos].page = "explore" /\ who # Nobody
UrlOf(s, at) == [page |-> "explore", text |-> s.text, cat |-> s.cat,
                 filter |-> IF s.cat = None THEN 0 ELSE s.filter, sort |-> at.sort]

\* reduce: a category adopts its own first duration unless the change names one.
Patched(s, text, cat, filter) ==
    [s EXCEPT !.text = text, !.cat = cat,
              !.filter = IF filter # 0 THEN filter ELSE IF cat \notin {s.cat, None} THEN 1 ELSE @]

Push(u) == hist' = Append(SubSeq(hist, 1, pos), u) /\ pos' = pos + 1
Replace(u) == hist' = [hist EXCEPT ![pos] = u] /\ UNCHANGED pos

(* useSearchInUrl, after a render of this search at this address. *)
Rendered(s, at) ==
    LET arrived == {at} # written /\ \A r \in ran : r.at # at
        last == IF arrived THEN at ELSE CHOOSE u \in written : TRUE
        next == UrlOf(s, at)
    IN
    /\ ran' = {[search |-> s, at |-> at]}
    \* URL to search, when the URL changed without us.
    /\ search' = IF arrived THEN Patched(search, at.text, at.cat, at.filter) ELSE search
    \* Search to URL: a category is a step back undoes.
    /\ written' = {next}
    /\ IF next = last THEN UNCHANGED browser
       ELSE IF last.cat # s.cat THEN Push(next) ELSE Replace(next)

\* The navigation is rendered with the change of the store or after it.
Render ==
    /\ Here
    /\ \E at \in {hist[pos]} \cup {r.at : r \in ran} :
         /\ {[search |-> search, at |-> at]} # ran
         /\ Rendered(search, at)
    /\ UNCHANGED <<stored, shown, account, acts, goal>>

\* POST /matches answered for what the page asks now; the last answer stays up until then.
MatchesAnswer ==
    /\ Here /\ search.cat # None
    /\ shown' = {[cat |-> search.cat, filter |-> search.filter, sort |-> hist[pos].sort]}
    /\ UNCHANGED <<browser, search, stored, effects, account, acts, goal>>

-----------------------------------------------------------------------------
(* The person, on a page that has come to rest.                            *)

AtRest == Here => ran = {[search |-> search, at |-> hist[pos]]}
Acts(u) == AtRest /\ acts < MaxAct /\ acts' = acts + 1 /\ goal' = u
Address == IF hist[pos].page = "explore" THEN hist[pos] ELSE goal
Stays == UNCHANGED <<stored, shown, account>>

Change(text, cat, filter) ==
    /\ Here /\ search' = Patched(search, text, cat, filter) /\ search' # search
    /\ Acts(UrlOf(search', hist[pos])) /\ Stays
    /\ UNCHANGED <<browser, effects>>
Pick(cat) == Change(search.text, cat, 0)
Type(text) == Change(text, search.cat, 0)
Filter(f) == search.cat # None /\ Change(search.text, search.cat, f)

SortBy(k) ==
    LET u == [hist[pos] EXCEPT !.sort = k] IN
    /\ Here /\ u # hist[pos] /\ Replace(u) /\ Acts(u) /\ Stays
    /\ UNCHANGED <<search, effects>>

\* Leaving for a listing unmounts the screen; the dock comes back to the bare address.
Gone == ran' = {} /\ written' = {}
OpenListing ==
    /\ Here /\ Push(Other) /\ Acts(goal) /\ Stays /\ Gone
    /\ UNCHANGED search
Explore ==
    /\ who # Nobody /\ Push(Blank) /\ Acts(Blank) /\ Stays
    /\ UNCHANGED <<search, effects>>
Back ==
    /\ pos > 1 /\ who # Nobody /\ pos' = pos - 1 /\ UNCHANGED hist
    /\ Acts(IF hist[pos'].page = "explore" THEN hist[pos'] ELSE goal) /\ Stays
    /\ IF hist[pos'].page = "explore" THEN UNCHANGED effects ELSE Gone
    /\ UNCHANGED search

-----------------------------------------------------------------------------
(* Where from.                                                             *)

PickPlace(d) ==
    /\ Here /\ search' = [search EXCEPT !.district = d, !.chosen = TRUE] /\ search' # search
    /\ stored' = {d} /\ Acts(goal)
    /\ UNCHANGED <<browser, effects, shown, account>>

\* Member: searches start where this person is, until they pick somewhere else.
MeLoads ==
    /\ who # Nobody /\ ~loaded /\ loaded' = TRUE
    /\ search' = IF home[who] = None \/ search.chosen THEN search ELSE [search EXCEPT !.district = home[who]]
    /\ UNCHANGED <<browser, stored, effects, shown, who, home, acts, goal>>
SignIn(p) ==
    /\ who = Nobody /\ who' = p /\ loaded' = FALSE /\ Acts(Address)
    /\ UNCHANGED <<browser, search, stored, effects, shown, home>>
\* AppProvider: signing out forgets a home nobody picked.
SignOut ==
    /\ who # Nobody /\ who' = Nobody /\ loaded' = FALSE
    /\ search' = IF search.chosen THEN search ELSE [search EXCEPT !.district = Default]
    /\ Gone /\ shown' = {} /\ Acts(Address)
    /\ UNCHANGED <<browser, stored, home>>
\* The page loaded anew; as another account, when another tab changed it.
Reload ==
    /\ who' \in People \cup {Nobody} /\ loaded' = FALSE
    /\ search' = Fresh /\ Gone /\ shown' = {} /\ Acts(Address)
    /\ UNCHANGED <<browser, stored, home>>

-----------------------------------------------------------------------------
Searches == (\E c \in Cats \cup {None} : Pick(c)) \/ (\E x \in Text : Type(x)) \/ (\E f \in 1 .. 2 : Filter(f))
Moves == (\E k \in Sorts : SortBy(k)) \/ OpenListing \/ Explore \/ Back
Account == MeLoads \/ (\E p \in People : SignIn(p)) \/ SignOut \/ Reload
Next == Render \/ MatchesAnswer \/ Searches \/ Moves \/ (\E d \in Places : PickPlace(d)) \/ Account

Spec == Init /\ [][Next]_vars
FairSpec == Spec /\ WF_vars(Render) /\ WF_vars(MatchesAnswer)

-----------------------------------------------------------------------------
\* Once it is at rest the address says what is searched and the search is what the last tap, link or
\* step back asked for: neither effect undoes the other with the values of an older render.
SettlesAsAsked ==
    Here /\ AtRest => /\ UrlOf(search, hist[pos]) = hist[pos]
                      /\ goal.filter # 0 => hist[pos] = goal
                      /\ [goal EXCEPT !.filter = 0] = [hist[pos] EXCEPT !.filter = 0]

\* Nobody searches from the home of another account: "signing out forgets the person's home district".
HomeStaysTheirs ==
    ~search.chosen => search.district = Default \/ (who # Nobody /\ loaded /\ search.district = home[who])

\* The two effects do not chase each other, and the results become those of the search.
Rests ==
    AtRest /\ (Here /\ search.cat # None => shown # {} /\ \A x \in shown :
        x = [cat |-> search.cat, filter |-> search.filter, sort |-> hist[pos].sort])
PageComesToRest == <>[]Rests

\* "A URL we did not write ourselves (arriving, back, forward) is read into the search; after that
\* the search writes the URL" (useSearchInUrl): the render that reads an address navigates nowhere.
ArrivalIsRead == [][ran = {} /\ ran' # {} => UNCHANGED browser]_vars
=============================================================================
