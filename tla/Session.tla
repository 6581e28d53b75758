------------------------------ MODULE Session ------------------------------
(***************************************************************************)
(* Who is signed in, in the tabs of one browser.  The tabs share the       *)
(* device's storage (the refresh token, the id of the account under its    *)
(* own key, who was known to be signed in) and hear of each other's writes *)
(* to that key by storage events; each tab has its own access token, at    *)
(* most one refresh under way, and a call to the API that refreshes and    *)
(* tries again when it is refused.  The identity service and the server's  *)
(* revocations are what the code of this repository relies on.             *)
(* Sources: web/src/data/auth.ts, cognito.ts, and `send` of repo.ts.       *)
(***************************************************************************)
EXTENDS Naturals, Sequences

CONSTANTS Tab, Acct, Nobody,
          Rotates,      \* what a refresh may do: {FALSE}, {TRUE} or both (a new refresh token)
          MaxToken,     \* refresh tokens ever issued
          MaxAct        \* calls, sign-outs, and what happens outside the app: a session ended by
                        \* the server, a token that expires, a network that comes back

ASSUME NobodyIsNoAccount == Nobody \notin Acct
ASSUME BoundsAreNaturals == MaxToken \in Nat /\ MaxAct \in Nat
ASSUME RotatesIsAChoice == Rotates \subseteq BOOLEAN

VARIABLES
    stored,   \* cappy.refresh.v1: a refresh token, or 0
    who,      \* cappy.who.v1
    known,    \* cappy.session.v1
    heard,    \* per tab: values of cappy.who.v1 it has not been told of yet
    page,     \* per tab: [ready, session, access, soon]
    ref,      \* per tab: the refresh under way
    call,     \* per tab: the call under way
    leaving,  \* per tab: a sign-out everywhere waiting for the server
    issued,   \* account of each refresh token, in the order they were issued
    good,     \* refresh tokens the identity service takes
    revoking, \* tokens whose revocation is on its way
    acts

vars == <<stored, who, known, heard, page, ref, call, leaving, issued, good, revoking, acts>>
device == <<stored, who, known, heard>>
service == <<issued, good, revoking>>

Person == Acct \cup {Nobody}
Token == 1 .. MaxToken

Idle == [st |-> "idle", sent |-> 0, out |-> "none", token |-> 0, stale |-> FALSE]
NoCall == [st |-> "none", acct |-> Nobody, stale |-> FALSE]
Staying == [st |-> "no", acct |-> Nobody, stale |-> FALSE]
Blank == [ready |-> FALSE, session |-> Nobody, access |-> "none", soon |-> FALSE]

TypeOK ==
    /\ stored \in Token \cup {0} /\ who \in Person /\ known \in Person
    /\ heard \in [Tab -> Seq(Person)]
    /\ page \in [Tab -> [ready: BOOLEAN, session: Person, access: {"none", "good", "stale"}, soon: BOOLEAN]]
    /\ ref \in [Tab -> [st: {"idle", "first", "second"}, sent: Token \cup {0},
                        out: {"none", "tokens", "refused", "offline"}, token: Token \cup {0}, stale: BOOLEAN]]
    /\ call \in [Tab -> [st: {"none", "token", "sent", "again", "resent"}, acct: Person, stale: BOOLEAN]]
    /\ leaving \in [Tab -> [st: {"no", "asked", "ended", "failed"}, acct: Person, stale: BOOLEAN]]
    /\ issued \in Seq(Acct) /\ Len(issued) <= MaxToken
    /\ good \subseteq 1 .. Len(issued) /\ revoking \subseteq 1 .. Len(issued)
    /\ acts \in 0 .. MaxAct

\* A device nobody has used, and one somebody is still signed in on.
Init ==
    /\ \/ stored = 0 /\ who = Nobody /\ issued = <<>> /\ good = {}
       \/ \E a \in Acct : MaxToken > 0 /\ stored = 1 /\ who = a /\ issued = <<a>> /\ good \in {{}, {1}}
    /\ known = who
    /\ heard = [t \in Tab |-> <<>>]
    /\ page = [t \in Tab |-> Blank]
    /\ ref = [t \in Tab |-> Idle]
    /\ call = [t \in Tab |-> NoCall]
    /\ leaving = [t \in Tab |-> Staying]
    /\ revoking = {} /\ acts = 0

-----------------------------------------------------------------------------
(* The helpers of auth.ts.                                                 *)

\* Wrong on purpose: the others hear of somebody signing in, and of nobody leaving.
AnnounceArrivals(t, p) ==
    /\ who' = p
    /\ heard' = IF who = p \/ p = Nobody THEN heard
                ELSE [u \in Tab |-> IF u = t THEN heard[u] ELSE Append(heard[u], p)]

\* announce: the account's id under its own key, written only when it changes; the others hear of it.
Announce(t, p) ==
    /\ who' = p
    /\ heard' = IF who = p THEN heard
                ELSE [u \in Tab |-> IF u = t THEN heard[u] ELSE Append(heard[u], p)]

Asking(k) == [Idle EXCEPT !.st = "first", !.sent = k]

\* refresh() as its callers see it: the one under way, or a new one from the stored token.
Refreshing(t) == IF ref[t].st = "idle" THEN Asking(stored) ELSE ref[t]

\* adopt: tokens in memory, the refresh token if there is a new one, the session here and for the others.
Adopted(pg, a, stale) == [pg EXCEPT !.session = a, !.access = IF stale THEN "stale" ELSE "good", !.soon = FALSE]
Adopt(t, a, k) ==
    /\ stored' = (IF k # 0 THEN k ELSE stored)
    /\ known' = a
    /\ Announce(t, a)

\* forget: nothing of the session left on the device.
Forgotten(pg) == [pg EXCEPT !.session = Nobody, !.access = "none", !.soon = FALSE]
\* Wrong on purpose: the tab that signs out tells nobody.
ForgetSilently(t) == stored' = 0 /\ known' = Nobody /\ who' = Nobody /\ UNCHANGED heard

Forget(t) == stored' = 0 /\ known' = Nobody /\ Announce(t, Nobody)

\* What a call does when the refresh it waited for is over: go on with whatever token there is now.
Resumed(c, pg, ok) ==
    LET under == IF pg.access = "none" THEN Nobody ELSE pg.session
        sent(st) == [st |-> st, acct |-> under, stale |-> pg.access = "stale"]
    IN CASE c.st = "token" -> sent("sent")
         [] c.st = "again" /\ ok -> sent("resent")
         [] c.st = "again" /\ ~ok -> NoCall
         [] OTHER -> c

-----------------------------------------------------------------------------
(* A page opens: what the device had is restored, once.                    *)

Restore(t) ==
    /\ ~page[t].ready /\ ref[t].st = "idle"
    /\ IF stored # 0
       THEN ref' = [ref EXCEPT ![t] = Asking(stored)] /\ UNCHANGED page
       ELSE page' = [page EXCEPT ![t].ready = TRUE] /\ UNCHANGED ref
    /\ UNCHANGED <<device, call, leaving, service, acts>>

\* The identity service answers a refresh, or cannot be reached.
RefreshAnswer(t) ==
    /\ ref[t].sent # 0 /\ ref[t].out = "none"
    /\ \/ /\ ref[t].sent \in good
          /\ \E rot \in Rotates :
               IF rot /\ Len(issued) < MaxToken
               THEN /\ issued' = Append(issued, issued[ref[t].sent])
                    /\ good' = (good \ {ref[t].sent}) \cup {Len(issued) + 1}
                    /\ ref' = [ref EXCEPT ![t].out = "tokens", ![t].token = Len(issued) + 1]
               ELSE /\ ref' = [ref EXCEPT ![t].out = "tokens"]
                    /\ UNCHANGED <<issued, good>>
       \/ /\ ref[t].sent \notin good
          /\ ref' = [ref EXCEPT ![t].out = "refused"]
          /\ UNCHANGED <<issued, good>>
       \/ /\ ref' = [ref EXCEPT ![t].out = "offline"]
          /\ UNCHANGED <<issued, good>>
    /\ UNCHANGED <<device, page, call, leaving, revoking, acts>>

\* The refresh is over and everyone who awaited it goes on: the restore, the call.
Finish(t, pg, ok) ==
    /\ ref' = [ref EXCEPT ![t] = Idle]
    /\ page' = [page EXCEPT ![t] = [pg EXCEPT !.ready = TRUE]]
    /\ call' = [call EXCEPT ![t] = Resumed(call[t], pg, ok)]
    /\ UNCHANGED <<leaving, service, acts>>

RefreshAdopts(t) ==
    LET a == issued[ref[t].sent] IN
    /\ ref[t].out = "tokens"
    /\ Adopt(t, a, ref[t].token)
    /\ Finish(t, Adopted(page[t], a, ref[t].stale), TRUE)

\* A call refused before it refreshed ends the session when the refresh brings nothing:
\* its answer still says token_expired.
EndsWithCall(t) == call[t].st = "again" /\ call[t].stale

\* Offline is not signed out; a page opened offline shows who was known to be signed in.
RefreshOffline(t) ==
    LET pg == IF page[t].ready THEN page[t] ELSE [page[t] EXCEPT !.session = known] IN
    /\ ref[t].st = "first" /\ ref[t].out = "offline"
    /\ IF EndsWithCall(t) /\ (pg.session # Nobody \/ stored # 0)
       THEN Forget(t) /\ Finish(t, Forgotten(pg), FALSE)
       ELSE UNCHANGED device /\ Finish(t, pg, FALSE)

\* Refused, but another tab stored a newer token meanwhile: that one is tried.
RefreshTriesNewer(t) ==
    /\ ref[t].st = "first" /\ ref[t].out = "refused"
    /\ stored # 0 /\ stored # ref[t].sent
    /\ ref' = [ref EXCEPT ![t] = [Asking(stored) EXCEPT !.st = "second"]]
    /\ UNCHANGED <<device, page, call, leaving, service, acts>>

\* The newer one failed too, and was replaced once more: it is left alone.
RefreshGivesUp(t) ==
    /\ ref[t].st = "second" /\ ref[t].out \in {"refused", "offline"}
    /\ stored # ref[t].sent
    /\ IF EndsWithCall(t) /\ (page[t].session # Nobody \/ stored # 0)
       THEN Forget(t) /\ Finish(t, Forgotten(page[t]), FALSE)
       ELSE UNCHANGED device /\ Finish(t, page[t], FALSE)

RefreshForgets(t) ==
    /\ \/ ref[t].st = "first" /\ ref[t].out = "refused" /\ stored \in {0, ref[t].sent}
       \/ ref[t].st = "second" /\ ref[t].out \in {"refused", "offline"} /\ stored = ref[t].sent
    /\ Forget(t)
    /\ Finish(t, Forgotten(page[t]), FALSE)

\* A refresh with nothing stored answers at once.
RefreshEmpty(t) ==
    /\ ref[t].st = "first" /\ ref[t].sent = 0 /\ ref[t].out = "none"
    /\ IF EndsWithCall(t) /\ (page[t].session # Nobody \/ stored # 0)
       THEN Forget(t) /\ Finish(t, Forgotten(page[t]), FALSE)
       ELSE UNCHANGED device /\ Finish(t, page[t], FALSE)

-----------------------------------------------------------------------------
(* What a tab hears from the others, and from the network.                 *)

\* The key changed in another tab: signed out there, someone else there, or signed in there.
OnStorage(t) ==
    LET p == Head(heard[t]) IN
    /\ heard[t] # <<>>
    /\ heard' = [heard EXCEPT ![t] = Tail(@)]
    /\ UNCHANGED <<stored, who, known, service, acts>>
    /\ \/ p = page[t].session /\ UNCHANGED <<page, ref, call, leaving>>
       \/ /\ p # page[t].session /\ p = Nobody
          /\ page' = [page EXCEPT ![t] = Forgotten(@)]
          /\ UNCHANGED <<ref, call, leaving>>
       \/ /\ p # page[t].session /\ p # Nobody /\ page[t].session = Nobody
          /\ ref' = [ref EXCEPT ![t] = Refreshing(t)]
          /\ UNCHANGED <<page, call, leaving>>

\* A different account's data is on screen: the page is loaded afresh.
Reload(t) ==
    LET p == Head(heard[t]) IN
    /\ heard[t] # <<>>
    /\ p # page[t].session /\ p # Nobody /\ page[t].session # Nobody
    /\ heard' = [heard EXCEPT ![t] = <<>>]
    /\ page' = [page EXCEPT ![t] = Blank]
    /\ ref' = [ref EXCEPT ![t] = Idle]
    /\ call' = [call EXCEPT ![t] = NoCall]
    /\ leaving' = [leaving EXCEPT ![t] = Staying]
    /\ UNCHANGED <<stored, who, known, service, acts>>

Online(t) ==
    /\ page[t].ready /\ page[t].session # Nobody /\ page[t].access = "none" /\ ref[t].st = "idle"
    /\ acts < MaxAct /\ acts' = acts + 1
    /\ ref' = [ref EXCEPT ![t] = Asking(stored)]
    /\ UNCHANGED <<device, page, call, leaving, service>>

-----------------------------------------------------------------------------
(* Signing in and out.                                                     *)

SignIn(t, a) ==
    /\ page[t].ready /\ page[t].session = Nobody
    /\ Len(issued) < MaxToken
    /\ issued' = Append(issued, a) /\ good' = good \cup {Len(issued) + 1}
    /\ Adopt(t, a, Len(issued) + 1)
    /\ page' = [page EXCEPT ![t] = Adopted(@, a, FALSE)]
    /\ UNCHANGED <<ref, call, leaving, revoking, acts>>

\* This device only: the tokens go at once, the revocation follows when it can.
SignOut(t) ==
    /\ page[t].ready /\ page[t].session # Nobody /\ leaving[t].st = "no" /\ acts < MaxAct
    /\ acts' = acts + 1
    /\ revoking' = revoking \cup ({stored} \ {0})
    /\ Forget(t)
    /\ page' = [page EXCEPT ![t] = Forgotten(@)]
    /\ UNCHANGED <<ref, call, leaving, issued, good>>

Revoked(k) ==
    /\ k \in revoking
    /\ revoking' = revoking \ {k}
    /\ good' \in {good, good \ {k}}
    /\ UNCHANGED <<device, page, ref, call, leaving, issued, acts>>

\* Everywhere: asked of the server first, which needs an access token.
AskEverywhere(t) ==
    /\ page[t].ready /\ page[t].session # Nobody /\ page[t].access # "none"
    /\ leaving[t].st = "no" /\ acts < MaxAct
    /\ acts' = acts + 1
    /\ leaving' = [leaving EXCEPT ![t] = [st |-> "asked", acct |-> page[t].session, stale |-> page[t].access = "stale"]]
    /\ UNCHANGED <<device, page, ref, call, service>>

\* The server ends every session of an account: the refresh tokens and every access token so far.
Void(a) ==
    /\ good' = {k \in good : issued[k] # a}
    /\ page' = [u \in Tab |-> IF page[u].session = a /\ page[u].access = "good"
                              THEN [page[u] EXCEPT !.access = "stale"] ELSE page[u]]
    /\ ref' = [u \in Tab |-> IF ref[u].out = "tokens" /\ issued[ref[u].sent] = a
                             THEN [ref[u] EXCEPT !.stale = TRUE] ELSE ref[u]]
    /\ call' = [u \in Tab |-> IF call[u].acct = a THEN [call[u] EXCEPT !.stale = TRUE] ELSE call[u]]

ServerEndsAsked(t) ==
    /\ leaving[t].st = "asked"
    /\ \/ /\ ~leaving[t].stale
          /\ Void(leaving[t].acct)
          /\ leaving' = [leaving EXCEPT ![t].st = "ended"]
       \/ /\ leaving' = [leaving EXCEPT ![t].st = "failed"]
          /\ UNCHANGED <<good, page, ref, call>>
    /\ UNCHANGED <<device, issued, revoking, acts>>

\* It said so: this device signs out too.  It did not, or the answer was lost: the person stays signed in.
LeaveEverywhere(t) ==
    /\ leaving[t].st \in {"ended", "failed"}
    /\ leaving' = [leaving EXCEPT ![t] = Staying]
    /\ UNCHANGED <<ref, call, service, acts>>
    /\ \/ leaving[t].st = "ended" /\ Forget(t) /\ page' = [page EXCEPT ![t] = Forgotten(@)]
       \/ UNCHANGED <<device, page>>

\* Another device signed out everywhere, or the account is gone.
EndElsewhere(a) ==
    /\ acts < MaxAct /\ acts' = acts + 1
    /\ Void(a)
    /\ leaving' = [u \in Tab |-> IF leaving[u].acct = a THEN [leaving[u] EXCEPT !.stale = TRUE] ELSE leaving[u]]
    /\ UNCHANGED <<device, issued, revoking>>

\* The access token comes within a minute of its end, or is refused before it.
Expire(t) ==
    /\ page[t].access = "good" /\ ~page[t].soon /\ acts < MaxAct
    /\ page' \in {[page EXCEPT ![t].soon = TRUE], [page EXCEPT ![t].access = "stale"]}
    /\ acts' = acts + 1
    /\ UNCHANGED <<device, ref, call, leaving, service>>

-----------------------------------------------------------------------------
(* A call to the API (send in repo.ts).                                    *)

\* accessToken(): the one in memory unless it is about to end; else the refresh comes first.
Send(t) ==
    /\ page[t].ready /\ page[t].session # Nobody /\ call[t].st = "none" /\ acts < MaxAct
    /\ acts' = acts + 1
    /\ IF (page[t].access # "none" /\ ~page[t].soon) \/ stored = 0
       THEN /\ call' = [call EXCEPT ![t] = Resumed([NoCall EXCEPT !.st = "token"], page[t], TRUE)]
            /\ UNCHANGED ref
       ELSE /\ call' = [call EXCEPT ![t].st = "token"]
            /\ ref' = [ref EXCEPT ![t] = Refreshing(t)]
    /\ UNCHANGED <<device, page, leaving, service>>

Answered(t) ==
    /\ call[t].st \in {"sent", "resent"}
    /\ call' = [call EXCEPT ![t] = NoCall]
    /\ UNCHANGED <<device, page, ref, leaving, service, acts>>

\* A 401: one refresh, one more try.
RefusedOnce(t) ==
    /\ call[t].st = "sent" /\ (call[t].stale \/ call[t].acct = Nobody)
    /\ call' = [call EXCEPT ![t].st = "again"]
    /\ ref' = [ref EXCEPT ![t] = Refreshing(t)]
    /\ UNCHANGED <<device, page, leaving, service, acts>>

\* Refused with the fresh token too: the session was ended elsewhere.
RefusedAgain(t) ==
    /\ call[t].st = "resent" /\ call[t].stale
    /\ call' = [call EXCEPT ![t] = NoCall]
    /\ IF page[t].session # Nobody \/ stored # 0
       THEN Forget(t) /\ page' = [page EXCEPT ![t] = Forgotten(@)]
       ELSE UNCHANGED <<device, page>>
    /\ UNCHANGED <<ref, leaving, service, acts>>

-----------------------------------------------------------------------------
RefreshStep(t) ==
    \/ RefreshAnswer(t) \/ RefreshAdopts(t) \/ RefreshOffline(t) \/ RefreshTriesNewer(t)
    \/ RefreshGivesUp(t) \/ RefreshForgets(t) \/ RefreshEmpty(t)
TabStep(t) == Restore(t) \/ OnStorage(t) \/ Reload(t)
CallStep(t) == Answered(t) \/ RefusedOnce(t) \/ RefusedAgain(t)
LeaveStep(t) == ServerEndsAsked(t) \/ LeaveEverywhere(t)
Act(t) == Online(t) \/ SignOut(t) \/ AskEverywhere(t) \/ Expire(t) \/ Send(t) \/ \E a \in Acct : SignIn(t, a)

Next ==
    \/ \E t \in Tab : RefreshStep(t) \/ TabStep(t) \/ CallStep(t) \/ LeaveStep(t) \/ Act(t)
    \/ \E k \in revoking : Revoked(k)
    \/ \E a \in Acct : EndElsewhere(a)

Spec == Init /\ [][Next]_vars

\* Promises settle, events are delivered, and fetch answers or fails.
Fairness == \A t \in Tab : WF_vars(RefreshStep(t)) /\ WF_vars(TabStep(t)) /\ WF_vars(CallStep(t)) /\ WF_vars(LeaveStep(t))
FairSpec == Spec /\ Fairness

-----------------------------------------------------------------------------
\* A tab that has heard everything shows the account the device is signed in to, or none: never
\* an account another tab signed out of (auth.ts announce, adopt, forget and the storage handler).
ScreenFollowsAccount == \A t \in Tab : heard[t] = <<>> => page[t].session \in {Nobody, who}

\* Signed out in one tab is signed out in every tab, in the end.
SignOutReachesAll == who = Nobody ~> (who # Nobody \/ \A t \in Tab : page[t].session = Nobody)

\* Tabs that follow each other come to rest, every page open and every call answered: no tab's
\* refresh sets off another's for ever, and no restore or call waits for a refresh that is over.
TabsComeToRest ==
    <>[](\A t \in Tab : /\ page[t].ready /\ heard[t] = <<>>
                        /\ ref[t].st = "idle" /\ call[t].st = "none" /\ leaving[t].st = "no")

\* Together: the tabs of one device follow each other, and stop.
TabsFollow == SignOutReachesAll /\ TabsComeToRest

\* "Offline is not signed out": a refresh token the identity service still takes is kept unless
\* somebody signed out or the server refused the session.
OfflineKeepsSession ==
    [][stored # 0 /\ stored' = 0 /\ stored \in good =>
         \/ \E t \in Tab : page[t].session # Nobody /\ SignOut(t)
         \/ \E t \in Tab : leaving[t].st = "ended" \/ call[t].st = "resent"]_vars

\* Nobody signed in becomes somebody by signing in only.
BackOnlyBySigningIn == [][who = Nobody /\ who' # Nobody => Len(issued') > Len(issued)]_vars
=============================================================================
