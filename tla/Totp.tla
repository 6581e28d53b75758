--------------------------------- MODULE Totp ---------------------------------
(***************************************************************************)
(* Staff turning on two-step sign-in (web/src/app/screens/Admin.tsx,       *)
(* Console and TotpSetup; data/auth.ts and cognito.ts), in several tabs:   *)
(* the console asks for the reports, the server refuses until the account  *)
(* has an authenticator app, and remembers that it had none                *)
(* (cappy_common/auth.py, StaffMfa).                                       *)
(***************************************************************************)
EXTENDS Naturals

CONSTANTS Tab, MaxSecret

Secret == 1 .. MaxSecret
None == 0

VARIABLES
    page,     \* of each tab: "asking" for the reports, "setup", or "open"
    form,     \* of each tab: "idle", "starting", "shown" or "checking"
    shown,    \* the secret on its page
    calls,    \* the calls of Cognito under way: [tab, kind, secret, live], live while its form is there
    made,     \* secrets Cognito has made
    assoc,    \* the newest: a first code is checked against it
    verified, \* the one whose codes sign in
    on,       \* the account asks for a code
    app,      \* what the authenticator app has
    cache     \* what the server remembers of the account: "nothing", "on" or "off"

vars == <<page, form, shown, calls, made, assoc, verified, on, app, cache>>
cognito == <<made, assoc, verified, on>>

TypeOK ==
    /\ page \in [Tab -> {"asking", "setup", "open"}]
    /\ form \in [Tab -> {"idle", "starting", "shown", "checking"}] /\ shown \in [Tab -> Secret \cup {None}]
    /\ calls \subseteq [tab : Tab, kind : {"associate", "verify", "prefer"}, secret : Secret \cup {None},
                       live : BOOLEAN]
    /\ made \in Secret \cup {None} /\ assoc \in Secret \cup {None} /\ verified \in Secret \cup {None}
    /\ on \in BOOLEAN /\ app \subseteq Secret /\ cache \in {"nothing", "on", "off"}

Init ==
    /\ page = [t \in Tab |-> "asking"] /\ form = [t \in Tab |-> "idle"] /\ shown = [t \in Tab |-> None]
    /\ calls = {} /\ made = None /\ assoc = None /\ verified = None /\ on = FALSE /\ app = {}
    /\ cache = "nothing"

\* StaffMfa.enabled: from the cache, else from Cognito, kept either way for five minutes.
Enabled == IF cache = "nothing" THEN on ELSE cache = "on"

Expires == cache # "nothing" /\ cache' = "nothing" /\ UNCHANGED <<page, form, shown, calls, cognito, app>>

Answer(t) ==
    /\ page[t] = "asking"
    /\ page' = [page EXCEPT ![t] = IF Enabled THEN "open" ELSE "setup"]
    /\ cache' = IF Enabled THEN "on" ELSE "off"
    /\ UNCHANGED <<form, shown, calls, cognito, app>>

\* The reports are asked for again: the error is gone meanwhile, and TotpSetup with what it showed.
AsksAgain(t, cs) ==
    /\ page' = [page EXCEPT ![t] = IF page[t] = "open" THEN "open" ELSE "asking"]
    /\ calls' = {[c EXCEPT !.live = c.live /\ c.tab # t] : c \in cs}
    /\ form' = [form EXCEPT ![t] = "idle"] /\ shown' = [shown EXCEPT ![t] = None]

\* Coming back to the window does so.
Focus(t) == page[t] = "setup" /\ AsksAgain(t, calls) /\ UNCHANGED <<cognito, app, cache>>

Start(t) ==
    /\ page[t] = "setup" /\ form[t] = "idle"
    /\ form' = [form EXCEPT ![t] = "starting"]
    /\ calls' = calls \cup {[tab |-> t, kind |-> "associate", secret |-> None, live |-> TRUE]}
    /\ UNCHANGED <<page, shown, cognito, app, cache>>

\* AssociateSoftwareToken: a new secret each time, shown where it is still waited for.
Associate(c) ==
    /\ c \in calls /\ c.kind = "associate" /\ made < MaxSecret
    /\ made' = made + 1 /\ assoc' = made + 1 /\ calls' = calls \ {c}
    /\ IF c.live
       THEN form' = [form EXCEPT ![c.tab] = "shown"] /\ shown' = [shown EXCEPT ![c.tab] = made + 1]
       ELSE UNCHANGED <<form, shown>>
    /\ UNCHANGED <<page, verified, on, app, cache>>

AddToApp(t) ==
    /\ form[t] = "shown" /\ shown[t] \notin app /\ app' = app \cup {shown[t]}
    /\ UNCHANGED <<page, form, shown, calls, cognito, cache>>

\* The first code, of any entry the app has.
Confirm(t, s) ==
    /\ form[t] = "shown" /\ s \in app
    /\ form' = [form EXCEPT ![t] = "checking"]
    /\ calls' = calls \cup {[tab |-> t, kind |-> "verify", secret |-> s, live |-> TRUE]}
    /\ UNCHANGED <<page, shown, cognito, app, cache>>

\* An error under the form, which is as it was before.
Sorry(c) ==
    form' = IF ~c.live THEN form
            ELSE [form EXCEPT ![c.tab] = IF c.kind = "associate" THEN "idle" ELSE "shown"]

\* VerifySoftwareToken, against the newest secret; then the other call is made, page or no page.
Verify(c) ==
    /\ c \in calls /\ c.kind = "verify"
    /\ IF c.secret = assoc
       THEN verified' = assoc /\ calls' = (calls \ {c}) \cup {[c EXCEPT !.kind = "prefer"]} /\ UNCHANGED form
       ELSE calls' = calls \ {c} /\ Sorry(c) /\ UNCHANGED verified
    /\ UNCHANGED <<page, shown, made, assoc, on, app, cache>>

\* SetUserMFAPreference, and onDone.
Prefer(c) ==
    /\ c \in calls /\ c.kind = "prefer"
    /\ on' = TRUE /\ AsksAgain(c.tab, calls \ {c})
    /\ UNCHANGED <<made, assoc, verified, app, cache>>

\* Any of them fails before it is done.
Fails(c) ==
    /\ c \in calls /\ calls' = calls \ {c} /\ Sorry(c)
    /\ UNCHANGED <<page, shown, cognito, app, cache>>

Next ==
    \/ Expires
    \/ (\E t \in Tab : Answer(t) \/ Focus(t) \/ Start(t) \/ AddToApp(t) \/ \E s \in app : Confirm(t, s))
    \/ (\E c \in calls : Associate(c) \/ Verify(c) \/ Prefer(c) \/ Fails(c))

Spec == Init /\ [][Next]_vars

\* The server answers, and what it remembers runs out.
FairSpec == Spec /\ WF_vars(Expires) /\ \A t \in Tab : WF_vars(Answer(t))

---------------------------------------------------------------------------
(* What is claimed of it. *)

\* Two-step sign-in never asks for the codes of a secret the app was not given, whichever tab's set-up
\* came through: nobody locks themselves out.
AskedIsHeld == on => verified \in app

\* Once it is on, the server lets in whoever asks, though it was told "off" just before and other tabs
\* ask meanwhile; a tab still on the set-up opens when it is looked at.
LetsIn == cache # "off" /\ \A t \in Tab : page[t] # "asking"
ConsoleOpens == on ~> LetsIn
=============================================================================
