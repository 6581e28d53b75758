---------------------------- MODULE SessionProofs -----------------------------
(***************************************************************************)
(* Proofs about Session, for every number of tabs, accounts, tokens and    *)
(* acts.  A tab that shows somebody else than the device is signed in as   *)
(* has that change waiting as the last event it will hear, because every   *)
(* change of the shared key is sent to all the other tabs and the one that *)
(* makes it shows it at once.                                              *)
(***************************************************************************)
EXTENDS Session, TLAPS, SequenceTheorems

PageType == [ready: BOOLEAN, session: Person, access: {"none", "good", "stale"}, soon: BOOLEAN]
RefType == [st: {"idle", "first", "second"}, sent: Token \cup {0},
            out: {"none", "tokens", "refused", "offline"}, token: Token \cup {0}, stale: BOOLEAN]

---------------------------------------------------------------------------
(* The inductive invariant.                                                *)

\* What a tab shows is nobody, who is signed in, or is about to be corrected.
Follows ==
    \A t \in Tab : \/ page[t].session \in {Nobody, who}
                   \/ heard[t] # <<>> /\ heard[t][Len(heard[t])] = who

Screens ==
    /\ page \in [Tab -> PageType] /\ heard \in [Tab -> Seq(Person)] /\ who \in Person
    /\ known = who /\ Follows

\* A refresh that brought tokens was sent with one that was issued: it names an account.
Tokens ==
    /\ stored \in Token \cup {0} /\ issued \in Seq(Acct) /\ Len(issued) <= MaxToken
    /\ good \subseteq 1 .. Len(issued) /\ ref \in [Tab -> RefType]
    /\ \A t \in Tab : ref[t].out = "tokens" => ref[t].sent \in 1 .. Len(issued)

SessionInv == Screens /\ Tokens

LEMMA IdleIsOne == Idle \in RefType /\ Idle.out = "none" /\ Idle.sent = 0
BY DEF Idle, RefType

LEMMA AskingIsOne ==
  ASSUME NEW k \in Token \cup {0}
  PROVE  Asking(k) \in RefType /\ Asking(k).out = "none" /\ Asking(k).sent = k
BY DEF Asking, Idle, RefType

LEMMA BlankIsOne == Blank \in PageType /\ Blank.session = Nobody
BY DEF Blank, PageType, Person

LEMMA PagesOf ==
  ASSUME NEW pg \in PageType
  PROVE  /\ Forgotten(pg) \in PageType /\ Forgotten(pg).session = Nobody
         /\ \A a \in Person, s \in BOOLEAN : Adopted(pg, a, s) \in PageType /\ Adopted(pg, a, s).session = a
         /\ [pg EXCEPT !.ready = TRUE] \in PageType /\ [pg EXCEPT !.ready = TRUE].session = pg.session
BY DEF Forgotten, Adopted, PageType, Person

\* It holds on a device nobody has used, and on one somebody is signed in on.
LEMMA InvInit == Init => SessionInv
<1> SUFFICES ASSUME Init PROVE SessionInv
  OBVIOUS
<1>1. Screens
  <2>1. page = [t \in Tab |-> Blank] /\ heard = [t \in Tab |-> <<>>] /\ known = who /\ who \in Person
    BY DEF Init, Person
  <2>2. page \in [Tab -> PageType] /\ \A t \in Tab : page[t].session = Nobody
    BY <2>1, BlankIsOne
  <2>3. heard \in [Tab -> Seq(Person)]
    BY <2>1
  <2> QED
    BY <2>1, <2>2, <2>3 DEF Screens, Follows
<1>2. Tokens
  <2>1. ref \in [Tab -> RefType] /\ \A t \in Tab : ref[t].out = "none"
    BY IdleIsOne DEF Init
  <2>2. CASE stored = 0 /\ issued = <<>> /\ good = {}
    BY <2>1, <2>2, BoundsAreNaturals DEF Tokens
  <2>3. CASE \E a \in Acct : MaxToken > 0 /\ stored = 1 /\ issued = <<a>> /\ good \in {{}, {1}}
    <3>1. PICK a \in Acct : MaxToken > 0 /\ stored = 1 /\ issued = <<a>> /\ good \in {{}, {1}}
      BY <2>3
    <3>2. issued \in Seq(Acct) /\ Len(issued) = 1 /\ 1 \in Token
      BY <3>1, BoundsAreNaturals DEF Token
    <3> QED
      BY <2>1, <3>1, <3>2, BoundsAreNaturals DEF Tokens
  <2> QED
    BY <2>2, <2>3 DEF Init
<1> QED
  BY <1>1, <1>2 DEF SessionInv

---------------------------------------------------------------------------
(* What the screens show.                                                  *)

\* Nobody is told anything: what a tab shows stays, goes blank or becomes who is signed in.
LEMMA ScreensQuiet ==
  ASSUME Screens, UNCHANGED <<who, known, heard>>, page' \in [Tab -> PageType],
         \A u \in Tab : page'[u].session \in {page[u].session, Nobody, who}
  PROVE  Screens'
BY DEF Screens, Follows

\* A change of the account is shown where it is made and told to every other tab.
LEMMA ScreensTold ==
  ASSUME Screens, NEW t \in Tab, NEW p \in Person, Announce(t, p), known' = p,
         page' \in [Tab -> PageType], page'[t].session = p,
         \A u \in Tab \ {t} : page'[u].session = page[u].session
  PROVE  Screens'
<1> USE DEF Screens
<1>1. who' = p
  BY DEF Announce
<1>2. CASE who = p
  <2>1. heard' = heard
    BY <1>2 DEF Announce
  <2> QED
    BY <1>1, <1>2, <2>1 DEF Follows
<1>3. CASE who # p
  <2>1. heard' = [u \in Tab |-> IF u = t THEN heard[u] ELSE Append(heard[u], p)]
    BY <1>3 DEF Announce
  <2>2. heard' \in [Tab -> Seq(Person)]
    BY <2>1
  <2>3. \A u \in Tab \ {t} : heard'[u] # <<>> /\ heard'[u][Len(heard'[u])] = p
    <3> SUFFICES ASSUME NEW u \in Tab \ {t}
        PROVE  heard'[u] # <<>> /\ heard'[u][Len(heard'[u])] = p
      OBVIOUS
    <3>1. heard'[u] = Append(heard[u], p) /\ heard[u] \in Seq(Person)
      BY <2>1
    <3>2. Len(heard'[u]) = Len(heard[u]) + 1
      BY <3>1
    <3>3. Append(heard[u], p)[Len(heard[u]) + 1] = p /\ Len(heard[u]) \in Nat
      BY <3>1
    <3>4. Len(heard'[u]) # 0 /\ heard'[u][Len(heard'[u])] = p
      BY <3>1, <3>2, <3>3
    <3>5. heard'[u] # <<>>
      BY <3>4
    <3> QED
      BY <3>4, <3>5
  <2> QED
    BY <1>1, <2>2, <2>3 DEF Follows
<1> QED
  BY <1>2, <1>3

\* A session forgotten on the device, and shown so in the tab that forgets it.
LEMMA ScreensForget ==
  ASSUME Screens, NEW t \in Tab, Forget(t), page' \in [Tab -> PageType], page'[t].session = Nobody,
         \A u \in Tab \ {t} : page'[u].session = page[u].session
  PROVE  Screens'
BY ScreensTold DEF Forget, Person

\* What a tab will hear last is still that when it has heard something else first.
LEMMA LastOfTail ==
  ASSUME NEW h \in Seq(Person), h # <<>>, Len(h) # 1
  PROVE  Tail(h) # <<>> /\ Tail(h)[Len(Tail(h))] = h[Len(h)]
<1>1. Len(h) \in Nat /\ Len(h) # 0
  OBVIOUS
<1>2. Len(h) > 1
  <2>1. \A n \in Nat : n # 0 /\ n # 1 => n > 1
    OBVIOUS
  <2> QED
    BY <1>1, <2>1, Zenon
<1>3. Len(Tail(h)) = Len(h) - 1 /\ Tail(h)[Len(h) - 1] = h[Len(h)]
  BY <1>2, HeadTailProperties
<1>4. Len(Tail(h)) # 0
  BY <1>2, <1>3
<1>5. Tail(h) # <<>>
  BY <1>4, EmptySeq, Zenon
<1> QED
  BY <1>3, <1>5

\* An event heard: the tab goes blank, or shows already what the event says, or nobody.
LEMMA ScreensHear ==
  ASSUME Screens, NEW t \in Tab, OnStorage(t)
  PROVE  Screens'
<1> USE DEF Screens
<1> DEFINE h == heard[t]
<1>1. h \in Seq(Person) /\ h # <<>> /\ heard' = [heard EXCEPT ![t] = Tail(h)] /\ who' = who /\ known' = known
  BY DEF OnStorage
<1>2. heard' \in [Tab -> Seq(Person)] /\ heard'[t] = Tail(h) /\ \A u \in Tab \ {t} : heard'[u] = heard[u]
  BY <1>1
<1>3. /\ page' \in [Tab -> PageType] /\ \A u \in Tab \ {t} : page'[u] = page[u]
      /\ \/ page'[t].session = Nobody
         \/ page'[t].session = page[t].session /\ page[t].session \in {Head(h), Nobody}
  <2>1. CASE page' = page /\ page[t].session \in {Head(h), Nobody}
    BY <2>1
  <2>2. CASE page' = [page EXCEPT ![t] = Forgotten(page[t])]
    BY <2>2, PagesOf
  <2> QED
    BY <2>1, <2>2 DEF OnStorage
<1>4. page'[t].session \in {Nobody, who} \/ (heard'[t] # <<>> /\ heard'[t][Len(heard'[t])] = who)
  <2>1. CASE page[t].session \in {Nobody, who}
    BY <1>3, <2>1
  <2>2. CASE h[Len(h)] = who /\ Len(h) = 1
    BY <1>1, <1>3, <2>2
  <2>3. CASE h[Len(h)] = who /\ Len(h) # 1
    BY <1>1, <1>2, <2>3, LastOfTail
  <2> QED
    BY <2>1, <2>2, <2>3 DEF Follows
<1>5. \A u \in Tab \ {t} : page'[u].session \in {Nobody, who}
                           \/ (heard'[u] # <<>> /\ heard'[u][Len(heard'[u])] = who)
  BY <1>2, <1>3 DEF Follows
<1> QED
  BY <1>1, <1>2, <1>3, <1>4, <1>5 DEF Follows

\* A page loaded afresh shows nobody until it has restored its session.
LEMMA ScreensReload ==
  ASSUME Screens, NEW t \in Tab, Reload(t)
  PROVE  Screens'
<1> USE DEF Screens
<1>1. /\ heard' = [heard EXCEPT ![t] = <<>>] /\ page' = [page EXCEPT ![t] = Blank]
      /\ who' = who /\ known' = known
  BY DEF Reload
<1>2. heard' \in [Tab -> Seq(Person)] /\ page' \in [Tab -> PageType] /\ page'[t].session = Nobody
  BY <1>1, BlankIsOne
<1>3. \A u \in Tab \ {t} : page'[u] = page[u] /\ heard'[u] = heard[u]
  BY <1>1
<1> QED
  BY <1>1, <1>2, <1>3 DEF Follows

---------------------------------------------------------------------------
(* The refreshes.                                                          *)

\* Nothing is issued: a refresh that has its tokens was the same before.
LEMMA TokensKept ==
  ASSUME Tokens, issued' = issued, good' \subseteq good, stored' \in Token \cup {0},
         ref' \in [Tab -> RefType],
         \A u \in Tab : ref'[u].out = "tokens" => ref[u].out = "tokens" /\ ref'[u].sent = ref[u].sent
  PROVE  Tokens'
BY DEF Tokens

\* One tab begins, ends or joins a refresh.
LEMMA TokensAsked ==
  ASSUME Tokens, NEW t \in Tab, UNCHANGED <<issued, good>>, stored' \in Token \cup {0},
         NEW x \in {Idle, Asking(stored), [Asking(stored) EXCEPT !.st = "second"], Refreshing(t)},
         ref' = [ref EXCEPT ![t] = x]
  PROVE  Tokens'
<1>1. Asking(stored) \in RefType /\ Asking(stored).out = "none"
  BY AskingIsOne DEF Tokens
<1>2. [Asking(stored) EXCEPT !.st = "second"] \in RefType
      /\ [Asking(stored) EXCEPT !.st = "second"].out = "none"
  BY <1>1 DEF RefType
<1>3. x \in RefType /\ (x.out = "none" \/ x = ref[t])
  BY <1>1, <1>2, IdleIsOne DEF Refreshing, Tokens
<1>4. ref' \in [Tab -> RefType] /\ ref'[t] = x /\ \A u \in Tab \ {t} : ref'[u] = ref[u]
  BY <1>3 DEF Tokens
<1>5. \A u \in Tab : ref'[u].out = "tokens" => ref[u].out = "tokens" /\ ref'[u].sent = ref[u].sent
  BY <1>3, <1>4
<1> QED
  BY <1>4, <1>5, TokensKept

\* The refresh of a tab is over and the session was forgotten with it.
LEMMA EndsForgotten ==
  ASSUME SessionInv, NEW t \in Tab, NEW pg \in PageType, Forget(t), Finish(t, Forgotten(pg), FALSE)
  PROVE  SessionInv'
<1> USE DEF SessionInv
<1>1. page' = [page EXCEPT ![t] = [Forgotten(pg) EXCEPT !.ready = TRUE]] /\ page \in [Tab -> PageType]
  BY DEF Finish, Screens
<1>2. [Forgotten(pg) EXCEPT !.ready = TRUE] \in PageType
      /\ [Forgotten(pg) EXCEPT !.ready = TRUE].session = Nobody
  BY PagesOf
<1>3. page' \in [Tab -> PageType] /\ page'[t].session = Nobody /\ \A u \in Tab \ {t} : page'[u] = page[u]
  BY <1>1, <1>2
<1>4. Screens'
  BY <1>3, ScreensForget
<1>5. Tokens'
  <2>1. UNCHANGED <<issued, good>> /\ stored' = 0 /\ ref' = [ref EXCEPT ![t] = Idle]
    BY DEF Finish, Forget, service
  <2> QED
    BY <2>1, TokensAsked
<1> QED
  BY <1>4, <1>5

\* The refresh of a tab is over, and the device keeps its session: the page shows what it showed, or
\* who is signed in.
LEMMA EndsKept ==
  ASSUME SessionInv, NEW t \in Tab, NEW pg \in PageType, UNCHANGED device, Finish(t, pg, FALSE),
         pg.session \in {page[t].session, who}
  PROVE  SessionInv'
<1> USE DEF SessionInv
<1>1. page' = [page EXCEPT ![t] = [pg EXCEPT !.ready = TRUE]] /\ page \in [Tab -> PageType]
  BY DEF Finish, Screens
<1>2. [pg EXCEPT !.ready = TRUE] \in PageType /\ [pg EXCEPT !.ready = TRUE].session = pg.session
  BY PagesOf
<1>3. page' \in [Tab -> PageType] /\ page'[t].session = pg.session /\ \A u \in Tab \ {t} : page'[u] = page[u]
  BY <1>1, <1>2
<1>4. Screens'
  BY <1>3, ScreensQuiet DEF device
<1>5. Tokens'
  <2>1. UNCHANGED <<issued, good, stored>> /\ ref' = [ref EXCEPT ![t] = Idle] /\ stored \in Token \cup {0}
    BY DEF Finish, device, service, Tokens
  <2> QED
    BY <2>1, TokensAsked
<1> QED
  BY <1>4, <1>5

\* The identity service answers: a token it issues is of the account of the one it replaces.
LEMMA InvAnswer ==
  ASSUME SessionInv, NEW t \in Tab, RefreshAnswer(t)
  PROVE  SessionInv'
<1> USE DEF SessionInv
<1>1. Screens'
  BY ScreensQuiet DEF RefreshAnswer, device, Screens
<1>2. /\ issued \in Seq(Acct) /\ Len(issued) \in Nat /\ good \subseteq 1 .. Len(issued)
      /\ ref \in [Tab -> RefType] /\ ref[t] \in RefType /\ stored' = stored
  BY DEF Tokens, RefreshAnswer, device
<1>3. CASE /\ ref[t].sent \in good /\ Len(issued) < MaxToken
           /\ issued' = Append(issued, issued[ref[t].sent])
           /\ good' = (good \ {ref[t].sent}) \cup {Len(issued) + 1}
           /\ ref' = [ref EXCEPT ![t].out = "tokens", ![t].token = Len(issued) + 1]
  <2>1. issued[ref[t].sent] \in Acct /\ ref[t].sent \in 1 .. Len(issued)
    BY <1>2, <1>3
  <2>2. issued' \in Seq(Acct) /\ Len(issued') = Len(issued) + 1
    BY <1>2, <1>3, <2>1
  <2>3. Len(issued') <= MaxToken /\ good' \subseteq 1 .. Len(issued') /\ Len(issued) + 1 \in Token
    BY <1>2, <1>3, <2>2, BoundsAreNaturals DEF Token
  <2>4. ref' \in [Tab -> RefType] /\ ref'[t].sent = ref[t].sent /\ \A u \in Tab \ {t} : ref'[u] = ref[u]
    BY <1>2, <1>3, <2>3 DEF RefType
  <2>5. \A u \in Tab : ref'[u].out = "tokens" => ref'[u].sent \in 1 .. Len(issued)
    BY <2>1, <2>4 DEF Tokens
  <2>6. 1 .. Len(issued) \subseteq 1 .. Len(issued')
    BY <1>2, <2>2
  <2> QED
    BY <1>1, <1>2, <2>2, <2>3, <2>4, <2>5, <2>6 DEF Tokens
<1>4. CASE /\ ref[t].sent \in good /\ ref' = [ref EXCEPT ![t].out = "tokens"]
           /\ UNCHANGED <<issued, good>>
  <2>1. ref' \in [Tab -> RefType] /\ ref'[t].sent = ref[t].sent /\ \A u \in Tab \ {t} : ref'[u] = ref[u]
    BY <1>2, <1>4 DEF RefType
  <2>2. \A u \in Tab : ref'[u].out = "tokens" => ref'[u].sent \in 1 .. Len(issued)
    BY <1>2, <1>4, <2>1 DEF Tokens
  <2> QED
    BY <1>1, <1>2, <1>4, <2>1, <2>2 DEF Tokens
<1>5. CASE /\ ref' = [ref EXCEPT ![t].out = "refused"] \/ ref' = [ref EXCEPT ![t].out = "offline"]
           /\ UNCHANGED <<issued, good>>
  <2>1. /\ ref' \in [Tab -> RefType] /\ ref'[t].out \in {"refused", "offline"}
        /\ \A u \in Tab \ {t} : ref'[u] = ref[u]
    BY <1>2, <1>5 DEF RefType
  <2>2. \A u \in Tab : ref'[u].out = "tokens" => ref[u].out = "tokens" /\ ref'[u].sent = ref[u].sent
    BY <2>1
  <2>3. Tokens'
    BY <1>2, <1>5, <2>1, <2>2, TokensKept DEF Tokens
  <2> QED
    BY <1>1, <2>3
<1> QED
  BY <1>3, <1>4, <1>5 DEF RefreshAnswer

\* Tokens adopted: the account they were issued for is shown here, and the others hear of it.
LEMMA InvAdopts ==
  ASSUME SessionInv, NEW t \in Tab, RefreshAdopts(t)
  PROVE  SessionInv'
<1> USE DEF SessionInv
<1> DEFINE a == issued[ref[t].sent]
           pg == Adopted(page[t], a, ref[t].stale)
<1>1. /\ ref[t].out = "tokens" /\ ref[t] \in RefType /\ ref[t].sent \in 1 .. Len(issued)
      /\ issued \in Seq(Acct) /\ page \in [Tab -> PageType]
  BY DEF RefreshAdopts, Tokens, Screens
<1>2. a \in Person /\ ref[t].stale \in BOOLEAN /\ ref[t].token \in Token \cup {0}
  BY <1>1 DEF Person, RefType
<1>3. pg \in PageType /\ pg.session = a
  <2>1. page[t] \in PageType
    BY <1>1
  <2> HIDE DEF a
  <2>2. \A s \in BOOLEAN : Adopted(page[t], a, s) \in PageType /\ Adopted(page[t], a, s).session = a
    BY <1>2, <2>1, PagesOf
  <2> QED
    BY <1>2, <2>2
<1>4. Adopt(t, a, ref[t].token) /\ Finish(t, pg, TRUE)
  BY DEF RefreshAdopts
<1> HIDE DEF pg, a
<1>5. page' = [page EXCEPT ![t] = [pg EXCEPT !.ready = TRUE]]
  BY <1>4 DEF Finish
<1>6. [pg EXCEPT !.ready = TRUE] \in PageType /\ [pg EXCEPT !.ready = TRUE].session = a
  BY <1>3, PagesOf
<1>7. page' \in [Tab -> PageType] /\ page'[t].session = a /\ \A u \in Tab \ {t} : page'[u] = page[u]
  BY <1>1, <1>5, <1>6
<1>8. Screens'
  BY <1>2, <1>4, <1>7, ScreensTold DEF Adopt
<1>9. Tokens'
  <2>1. UNCHANGED <<issued, good>> /\ ref' = [ref EXCEPT ![t] = Idle]
    BY <1>4 DEF Finish, service
  <2>2. stored' \in Token \cup {0}
    BY <1>2, <1>4 DEF Adopt, Tokens
  <2> QED
    BY <2>1, <2>2, TokensAsked
<1> QED
  BY <1>8, <1>9

\* Every other end of a refresh.
LEMMA InvRefresh ==
  ASSUME SessionInv, NEW t \in Tab, RefreshStep(t)
  PROVE  SessionInv'
<1> USE DEF SessionInv
<1>1. page[t] \in PageType /\ known = who /\ known \in Person
  BY DEF Screens
<1>2. CASE RefreshOffline(t)
  <2> DEFINE pg == IF page[t].ready THEN page[t] ELSE [page[t] EXCEPT !.session = known]
  <2>1. pg \in PageType /\ pg.session \in {page[t].session, who}
    BY <1>1 DEF PageType
  <2>2. \/ Forget(t) /\ Finish(t, Forgotten(pg), FALSE)
        \/ UNCHANGED device /\ Finish(t, pg, FALSE)
    BY <1>2 DEF RefreshOffline
  <2> HIDE DEF pg
  <2> QED
    BY <2>1, <2>2, EndsForgotten, EndsKept
<1>3. CASE RefreshTriesNewer(t)
  <2>1. UNCHANGED device /\ page' = page /\ UNCHANGED <<issued, good>>
        /\ ref' = [ref EXCEPT ![t] = [Asking(stored) EXCEPT !.st = "second"]]
    BY <1>3 DEF RefreshTriesNewer, service
  <2>2. Screens'
    BY <2>1, ScreensQuiet DEF device, Screens
  <2>3. Tokens'
    BY <2>1, TokensAsked DEF device, Tokens
  <2> QED
    BY <2>2, <2>3
<1>4. CASE RefreshGivesUp(t) \/ RefreshEmpty(t) \/ RefreshForgets(t)
  <2>1. \/ Forget(t) /\ Finish(t, Forgotten(page[t]), FALSE)
        \/ UNCHANGED device /\ Finish(t, page[t], FALSE)
    BY <1>4 DEF RefreshGivesUp, RefreshEmpty, RefreshForgets
  <2> QED
    BY <1>1, <2>1, EndsForgotten, EndsKept
<1> QED
  BY <1>2, <1>3, <1>4, InvAnswer, InvAdopts DEF RefreshStep

---------------------------------------------------------------------------
(* The other steps.                                                        *)

\* A page restored, an event heard, a page loaded afresh.
LEMMA InvTab ==
  ASSUME SessionInv, NEW t \in Tab, TabStep(t)
  PROVE  SessionInv'
<1> USE DEF SessionInv
<1>1. CASE Restore(t)
  <2>1. UNCHANGED <<device, issued, good>> /\ stored \in Token \cup {0} /\ page \in [Tab -> PageType]
    BY <1>1 DEF Restore, service, Tokens, Screens
  <2>2. \/ page' = page /\ ref' = [ref EXCEPT ![t] = Asking(stored)]
        \/ page' = [page EXCEPT ![t].ready = TRUE] /\ ref' = ref
    BY <1>1 DEF Restore
  <2>3. page' \in [Tab -> PageType] /\ \A u \in Tab : page'[u].session = page[u].session
    <3>1. [page[t] EXCEPT !.ready = TRUE] \in PageType
          /\ [page[t] EXCEPT !.ready = TRUE].session = page[t].session
      BY <2>1, PagesOf
    <3> QED
      BY <2>1, <2>2, <3>1
  <2>4. Screens'
    BY <2>1, <2>3, ScreensQuiet DEF device
  <2>5. Tokens'
    BY <2>1, <2>2, TokensAsked, TokensKept DEF device, Tokens
  <2> QED
    BY <2>4, <2>5
<1>2. CASE OnStorage(t)
  <2>1. Screens'
    BY <1>2, ScreensHear
  <2>2. UNCHANGED <<stored, issued, good>> /\ (ref' = ref \/ ref' = [ref EXCEPT ![t] = Refreshing(t)])
    BY <1>2 DEF OnStorage, service
  <2>3. Tokens'
    BY <2>2, TokensAsked, TokensKept DEF Tokens
  <2> QED
    BY <2>1, <2>3
<1>3. CASE Reload(t)
  <2>1. Screens'
    BY <1>3, ScreensReload
  <2>2. UNCHANGED <<stored, issued, good>> /\ ref' = [ref EXCEPT ![t] = Idle]
    BY <1>3 DEF Reload, service
  <2>3. Tokens'
    BY <2>2, TokensAsked DEF Tokens
  <2> QED
    BY <2>1, <2>3
<1> QED
  BY <1>1, <1>2, <1>3 DEF TabStep

\* A session forgotten outside a refresh.
LEMMA InvForgets ==
  ASSUME SessionInv, NEW t \in Tab, Forget(t), page' = [page EXCEPT ![t] = Forgotten(page[t])],
         UNCHANGED <<ref, issued, good>>
  PROVE  SessionInv'
<1>1. page' \in [Tab -> PageType] /\ page'[t].session = Nobody /\ \A u \in Tab \ {t} : page'[u] = page[u]
  BY PagesOf DEF SessionInv, Screens
<1>2. Screens'
  BY <1>1, ScreensForget DEF SessionInv
<1>3. Tokens'
  BY TokensKept DEF SessionInv, Forget, Tokens
<1> QED
  BY <1>2, <1>3 DEF SessionInv

\* Nothing that the device, the screens or the refreshes hold changes but what is under way.
LEMMA InvQuiet ==
  ASSUME SessionInv, UNCHANGED <<device, issued>>, good' \subseteq good,
         page' \in [Tab -> PageType], \A u \in Tab : page'[u].session = page[u].session,
         \/ ref' = ref
         \/ ref' \in [Tab -> RefType] /\ \A u \in Tab : ref'[u].out = ref[u].out /\ ref'[u].sent = ref[u].sent
         \/ good' = good /\ \E t \in Tab : \E x \in {Asking(stored), Refreshing(t)} : ref' = [ref EXCEPT ![t] = x]
  PROVE  SessionInv'
<1>1. Screens'
  BY ScreensQuiet DEF SessionInv, device
<1>2. stored' \in Token \cup {0} /\ issued' = issued /\ stored' = stored
  BY DEF SessionInv, device, Tokens
<1>3. Tokens'
  BY <1>2, TokensKept, TokensAsked DEF SessionInv, Tokens
<1> QED
  BY <1>1, <1>3 DEF SessionInv

\* A call answered, tried again, or refused for good.
LEMMA InvCall ==
  ASSUME SessionInv, NEW t \in Tab, CallStep(t)
  PROVE  SessionInv'
<1>1. page \in [Tab -> PageType]
  BY DEF SessionInv, Screens
<1>2. CASE Answered(t)
  BY <1>1, <1>2, InvQuiet DEF Answered, service
<1>3. CASE RefusedOnce(t)
  BY <1>1, <1>3, InvQuiet DEF RefusedOnce, service
<1>4. CASE RefusedAgain(t)
  <2>1. CASE Forget(t) /\ page' = [page EXCEPT ![t] = Forgotten(page[t])]
    BY <1>4, <2>1, InvForgets DEF RefusedAgain, service
  <2>2. CASE UNCHANGED <<device, page>>
    BY <1>1, <1>4, <2>2, InvQuiet DEF RefusedAgain, service
  <2> QED
    BY <1>4, <2>1, <2>2 DEF RefusedAgain
<1> QED
  BY <1>2, <1>3, <1>4 DEF CallStep

\* The server ends an account's sessions: tokens go, and screens show what they showed.
LEMMA VoidQuiet ==
  ASSUME SessionInv, NEW a, Void(a)
  PROVE  /\ good' \subseteq good
         /\ page' \in [Tab -> PageType] /\ \A u \in Tab : page'[u].session = page[u].session
         /\ ref' \in [Tab -> RefType] /\ \A u \in Tab : ref'[u].out = ref[u].out /\ ref'[u].sent = ref[u].sent
<1>1. page \in [Tab -> PageType] /\ ref \in [Tab -> RefType]
  BY DEF SessionInv, Screens, Tokens
<1>2. good' \subseteq good
  BY DEF Void
<1>3. page' \in [Tab -> PageType] /\ \A u \in Tab : page'[u].session = page[u].session
  BY <1>1 DEF Void, PageType
<1>4. ref' \in [Tab -> RefType] /\ \A u \in Tab : ref'[u].out = ref[u].out /\ ref'[u].sent = ref[u].sent
  BY <1>1 DEF Void, RefType
<1> QED
  BY <1>2, <1>3, <1>4

\* Signing out everywhere.
LEMMA InvLeave ==
  ASSUME SessionInv, NEW t \in Tab, LeaveStep(t)
  PROVE  SessionInv'
<1>1. page \in [Tab -> PageType]
  BY DEF SessionInv, Screens
<1>2. CASE ServerEndsAsked(t)
  <2>1. UNCHANGED <<device, issued>> /\ (Void(leaving[t].acct) \/ UNCHANGED <<good, page, ref>>)
    BY <1>2 DEF ServerEndsAsked
  <2> QED
    BY <1>1, <2>1, VoidQuiet, InvQuiet
<1>3. CASE LeaveEverywhere(t)
  <2>1. CASE Forget(t) /\ page' = [page EXCEPT ![t] = Forgotten(page[t])]
    BY <1>3, <2>1, InvForgets DEF LeaveEverywhere, service
  <2>2. CASE UNCHANGED <<device, page>>
    BY <1>1, <1>3, <2>2, InvQuiet DEF LeaveEverywhere, service
  <2> QED
    BY <1>3, <2>1, <2>2 DEF LeaveEverywhere
<1> QED
  BY <1>2, <1>3 DEF LeaveStep

\* Signing in: a new token, shown here and told to the others.
LEMMA InvSignIn ==
  ASSUME SessionInv, NEW t \in Tab, NEW a \in Acct, SignIn(t, a)
  PROVE  SessionInv'
<1> USE DEF SessionInv
<1>1. /\ issued \in Seq(Acct) /\ Len(issued) \in Nat /\ good \subseteq 1 .. Len(issued) /\ Len(issued) < MaxToken
      /\ issued' = Append(issued, a) /\ good' = good \cup {Len(issued) + 1} /\ ref' = ref
      /\ Adopt(t, a, Len(issued) + 1) /\ page' = [page EXCEPT ![t] = Adopted(page[t], a, FALSE)]
  BY DEF SignIn, Tokens
<1>2. /\ page' \in [Tab -> PageType] /\ page'[t].session = a /\ a \in Person
      /\ \A u \in Tab \ {t} : page'[u] = page[u]
  BY <1>1, PagesOf DEF Screens, Person
<1>3. Screens'
  BY <1>1, <1>2, ScreensTold DEF Adopt
<1>4. issued' \in Seq(Acct) /\ Len(issued') = Len(issued) + 1
  BY <1>1
<1>5. Len(issued') <= MaxToken /\ good' \subseteq 1 .. Len(issued') /\ Len(issued) + 1 \in Token
  <2>1. Len(issued) + 1 <= MaxToken
    BY <1>1, BoundsAreNaturals
  <2>2. 1 .. Len(issued) \subseteq 1 .. (Len(issued) + 1)
    BY <1>1
  <2>3. Len(issued) + 1 \in Token /\ Len(issued) + 1 \in 1 .. (Len(issued) + 1)
    BY <1>1, <2>1, BoundsAreNaturals DEF Token
  <2>4. good' \subseteq 1 .. (Len(issued) + 1)
    BY <1>1, <2>2, <2>3
  <2> QED
    BY <1>4, <2>1, <2>3, <2>4
<1>6. stored' \in Token \cup {0}
  BY <1>1, <1>5 DEF Adopt, Tokens
<1>7. 1 .. Len(issued) \subseteq 1 .. Len(issued')
  BY <1>1, <1>4
<1>8. Tokens'
  BY <1>1, <1>4, <1>5, <1>6, <1>7 DEF Tokens
<1> QED
  BY <1>3, <1>8

\* What a person does in a tab, and a network that comes back.
LEMMA InvAct ==
  ASSUME SessionInv, NEW t \in Tab, Act(t)
  PROVE  SessionInv'
<1>1. page \in [Tab -> PageType]
  BY DEF SessionInv, Screens
<1>2. CASE Online(t)
  BY <1>1, <1>2, InvQuiet DEF Online, service
<1>3. CASE SignOut(t)
  BY <1>3, InvForgets DEF SignOut
<1>4. CASE AskEverywhere(t)
  BY <1>1, <1>4, InvQuiet DEF AskEverywhere, service
<1>5. CASE Expire(t)
  <2>1. page' \in [Tab -> PageType] /\ \A u \in Tab : page'[u].session = page[u].session
    <3>1. page[t] \in PageType
      BY <1>1
    <3>2. /\ [page[t] EXCEPT !.soon = TRUE] \in PageType
          /\ [page[t] EXCEPT !.access = "stale"] \in PageType
          /\ [page[t] EXCEPT !.soon = TRUE].session = page[t].session
          /\ [page[t] EXCEPT !.access = "stale"].session = page[t].session
      BY <3>1 DEF PageType
    <3>3. \/ page' = [page EXCEPT ![t] = [page[t] EXCEPT !.soon = TRUE]]
          \/ page' = [page EXCEPT ![t] = [page[t] EXCEPT !.access = "stale"]]
      BY <1>5 DEF Expire
    <3> QED
      BY <1>1, <3>2, <3>3
  <2> QED
    BY <1>5, <2>1, InvQuiet DEF Expire, service
<1>6. CASE Send(t)
  <2>1. UNCHANGED <<device, page, issued, good>> /\ (ref' = ref \/ ref' = [ref EXCEPT ![t] = Refreshing(t)])
    BY <1>6 DEF Send, service
  <2> QED
    BY <1>1, <2>1, InvQuiet
<1> QED
  BY <1>2, <1>3, <1>4, <1>5, <1>6, InvSignIn DEF Act

\* Any step keeps it.
LEMMA InvNext == SessionInv /\ [Next]_vars => SessionInv'
<1> SUFFICES ASSUME SessionInv, [Next]_vars PROVE SessionInv'
  OBVIOUS
<1>1. page \in [Tab -> PageType]
  BY DEF SessionInv, Screens
<1>2. CASE \E t \in Tab : RefreshStep(t) \/ TabStep(t) \/ CallStep(t) \/ LeaveStep(t) \/ Act(t)
  BY <1>2, InvRefresh, InvTab, InvCall, InvLeave, InvAct
<1>3. CASE \E k \in revoking : Revoked(k)
  BY <1>1, <1>3, InvQuiet DEF Revoked
<1>4. CASE \E a \in Acct : EndElsewhere(a)
  BY <1>4, VoidQuiet, InvQuiet DEF EndElsewhere
<1>5. CASE UNCHANGED vars
  BY <1>1, <1>5, InvQuiet DEF vars, device
<1> QED
  BY <1>2, <1>3, <1>4, <1>5 DEF Next

---------------------------------------------------------------------------

\* A tab that has heard everything never shows an account another tab signed out of or replaced.
THEOREM ScreensFollow == Spec => []ScreenFollowsAccount
<1>1. Init => SessionInv
  BY InvInit
<1>2. SessionInv /\ [Next]_vars => SessionInv'
  BY InvNext
<1>3. SessionInv => ScreenFollowsAccount
  BY DEF SessionInv, Screens, Follows, ScreenFollowsAccount
<1> QED
  BY <1>1, <1>2, <1>3, PTL DEF Spec
=============================================================================
