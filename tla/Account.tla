-------------------------------- MODULE Account --------------------------------
(***************************************************************************)
(* The way in and the way out of an account on one device: the sign-in     *)
(* screen (web/src/app/screens/Login.tsx over data/cognito.ts), the gate   *)
(* that sends a signed-out reader there and back (App.tsx), the profile    *)
(* asked for first (Onboarding.tsx), and the deletion (Profile.tsx).  The  *)
(* user pool answers what it can; any call may also fail.                  *)
(***************************************************************************)
EXTENDS Naturals, Sequences

CONSTANTS Email,   \* addresses that are typed
          Guarded, \* those with two-step sign-in
          MaxTry   \* bound: presses of Submit and codes typed

None == "nobody"

VARIABLES
    login,    \* the user pool: "none", "unconfirmed", "confirmed" of each address
    profile,  \* the catalog: "none", "there" of each
    leaving,  \* profile.deleted on its way to notifications, which deletes the sign-in
    session,  \* the address signed in on this device
    pending,  \* the address whose sign-in waits for the authenticator's code
    page, next, \* where the device is, and where signing in leads
    mode, email, code, cooldown, \* the form
    call,     \* the calls still to answer of the one submission under way, and for whom; or <<>>
    deleting, \* the deletion under way: "no", "asked", "forgotten"
    wanted,   \* the page asked for last by the reader
    tries

pool == <<login, profile, leaving>>
form == <<mode, email, code, cooldown>>
vars == <<pool, session, pending, page, next, form, call, deleting, wanted, tries>>

Mode == {"in", "up", "confirm", "forgot", "reset", "mfa"}
Page == {"/", "/deep", "/earn"}
Op == {"signIn", "signUp", "confirm", "forgot", "reset", "resend", "mfa"}

TypeOK ==
    /\ login \in [Email -> {"none", "unconfirmed", "confirmed"}] /\ profile \in [Email -> {"none", "there"}]
    /\ leaving \subseteq Email /\ {session, pending} \subseteq Email \cup {None}
    /\ page \in Page \cup {"/welcome", "/login"} /\ next \in Page /\ wanted \in Page
    /\ mode \in Mode /\ email \in Email /\ {code, cooldown} \subseteq BOOLEAN
    /\ Len(call) <= 2 /\ \A i \in 1 .. Len(call) : call[i] \in Op \X Email
    /\ deleting \in {"no", "asked", "forgotten"} /\ tries \in 0 .. MaxTry

\* Signed out, every page but the public ones leads to sign-in and, from there, back (Gate).
Gated(p) == page' = "/login" /\ next' = p
Fresh == mode' = "in" /\ code' = FALSE /\ cooldown' = FALSE /\ UNCHANGED email
Init ==
    /\ login \in [Email -> {"none", "confirmed"}] /\ profile = [e \in Email |-> "none"] /\ leaving = {}
    /\ session = None /\ pending = None /\ page = "/login" /\ next \in {"/", "/deep"} /\ wanted = next
    /\ mode = "in" /\ email \in Email /\ code = FALSE /\ cooldown = FALSE
    /\ call = <<>> /\ deleting = "no" /\ tries = 0

OnForm == page = "/login" /\ session = None
Busy == call # <<>>

-----------------------------------------------------------------------------
(* The form.                                                               *)

Type(e) ==
    /\ OnForm /\ mode \in {"in", "up", "forgot"} /\ e # email /\ email' = e
    /\ UNCHANGED <<pool, session, pending, page, next, mode, code, cooldown, call, deleting, wanted, tries>>

\* go: the code starts over, and on the steps that mail one the wait for another does (the effect).
To(m) == mode' = m /\ code' = FALSE /\ cooldown' = (cooldown \/ m \in {"confirm", "reset"}) /\ UNCHANGED email
Go(m) ==
    /\ OnForm /\ m # mode
    /\ \/ mode \in {"in", "up"} /\ m \in {"in", "up"}
       \/ mode = "in" /\ m = "forgot"
       \/ mode \in {"forgot", "reset", "mfa"} /\ m = "in"
    /\ To(m)
    /\ UNCHANGED <<pool, session, pending, page, next, call, deleting, wanted, tries>>

\* run: the calls of a submission, one after the other.
Calls ==
    LET of(op) == <<op, email>> IN
    CASE mode = "in" -> <<of("signIn")>> [] mode = "up" -> <<of("signUp")>> [] mode = "forgot" -> <<of("forgot")>>
      [] mode = "confirm" -> <<of("confirm"), of("signIn")>> [] mode = "reset" -> <<of("reset"), of("signIn")>>
      [] mode = "mfa" -> <<of("mfa")>>
Press == tries < MaxTry /\ tries' = tries + 1 /\ call' = Calls
NeedsCode == mode \in {"confirm", "reset", "mfa"}

Submit ==
    /\ OnForm /\ ~Busy /\ (NeedsCode => code) /\ Press
    /\ UNCHANGED <<pool, session, pending, page, next, form, deleting, wanted>>

\* Six digits typed or pasted: two of the steps go at once, unless a submission is under way.
SendsItself == mode \in {"confirm", "mfa"} /\ ~Busy
TypeCode ==
    /\ OnForm /\ NeedsCode /\ ~code /\ code' = TRUE
    /\ IF SendsItself THEN Press ELSE UNCHANGED <<call, tries>>
    /\ UNCHANGED <<pool, session, pending, page, next, mode, email, cooldown, deleting, wanted>>
EraseCode ==
    /\ OnForm /\ code /\ code' = FALSE
    /\ UNCHANGED <<pool, session, pending, page, next, mode, email, cooldown, call, deleting, wanted, tries>>
\* The code step's button; its answer starts the wait again, the clock ends it.
SendCode ==
    /\ OnForm /\ mode = "confirm" /\ ~cooldown /\ cooldown' = TRUE
    /\ UNCHANGED <<pool, session, pending, page, next, mode, email, code, call, deleting, wanted, tries>>
MayAsk ==
    /\ cooldown /\ cooldown' = FALSE
    /\ UNCHANGED <<pool, session, pending, page, next, mode, email, code, call, deleting, wanted, tries>>

\* Back from the form, and into it again from the welcome, which leads home.  Bound: not into it
\* before the submission left under way is answered.
Back ==
    /\ OnForm /\ page' = "/welcome" /\ wanted' = (IF Busy THEN wanted ELSE "/") /\ Fresh
    /\ UNCHANGED <<pool, session, pending, next, call, deleting, tries>>
Enter(m) ==
    /\ page = "/welcome" /\ session = None /\ ~Busy /\ page' = "/login" /\ next' = "/" /\ wanted' = "/"
    /\ mode' = m /\ UNCHANGED <<pool, session, pending, email, code, cooldown, call, deleting, tries>>

-----------------------------------------------------------------------------
(* The user pool answers the first call of the submission.                 *)

op == Head(call)[1]
who == Head(call)[2]
Proceed(c) == call' = c /\ UNCHANGED <<deleting, tries>>

\* finish: adopted, and on to where the submission was to lead (`nav(next)`).
SignedIn(e) ==
    /\ session' = e /\ pending' = None /\ page' = next
    /\ Fresh /\ UNCHANGED <<pool, next, wanted>>
\* The other steps: the form goes on, if it is still there.
Step(m) ==
    /\ IF OnForm THEN To(m) ELSE UNCHANGED form
    /\ UNCHANGED <<session, page, next, wanted>>

AnswerSignIn ==
    /\ Busy /\ op = "signIn"
    /\ \/ login[who] = "confirmed" /\ who \notin Guarded /\ SignedIn(who) /\ Proceed(<<>>)
       \/ /\ login[who] = "confirmed" /\ who \in Guarded /\ pending' = who
          /\ Step("mfa") /\ Proceed(<<>>) /\ UNCHANGED pool
       \/ /\ login[who] = "unconfirmed" /\ Proceed(<<<<"resend", who>>>>)
          /\ UNCHANGED <<pool, session, pending, page, next, form, wanted>>
AnswerMfa ==
    /\ Busy /\ op = "mfa" /\ pending # None /\ login[pending] = "confirmed" /\ SignedIn(pending) /\ Proceed(<<>>)
AnswerSignUp ==
    /\ Busy /\ op = "signUp" /\ login[who] = "none" /\ login' = [login EXCEPT ![who] = "unconfirmed"]
    /\ Step("confirm") /\ Proceed(<<>>) /\ UNCHANGED <<profile, leaving, pending>>
\* A code for an address nobody has signed up with is never mailed; the form goes on all the same.
AnswerMailed ==
    /\ Busy /\ op \in {"resend", "forgot"} /\ Step(IF op = "resend" THEN "confirm" ELSE "reset")
    /\ Proceed(<<>>) /\ UNCHANGED <<pool, pending>>
\* The right code: the sign-in follows in the same submission.
AnswerCode ==
    /\ Busy /\ op \in {"confirm", "reset"} /\ login[who] = (IF op = "confirm" THEN "unconfirmed" ELSE "confirmed")
    /\ login' = [login EXCEPT ![who] = "confirmed"] /\ Proceed(Tail(call))
    /\ UNCHANGED <<profile, leaving, session, pending, page, next, form, wanted>>
\* Refused, or no connection: the message is under the form and what was typed stays.
Fail ==
    /\ Busy /\ Proceed(<<>>)
    /\ UNCHANGED <<pool, session, pending, page, next, form, wanted>>

-----------------------------------------------------------------------------
(* Inside.                                                                 *)

Inside == session # None
\* No profile yet: that comes first, whatever the page; one who came to earn goes on there.
Onboard(p) ==
    /\ Inside /\ profile[session] = "none" /\ deleting = "no" /\ p \in {page, "/earn"}
    /\ profile' = [profile EXCEPT ![session] = "there"] /\ page' = p /\ wanted' = p
    /\ UNCHANGED <<login, leaving, session, pending, next, form, call, deleting, tries>>
Visit(p) ==
    /\ Inside /\ profile[session] = "there" /\ deleting = "no" /\ p # page /\ page' = p /\ wanted' = p
    /\ UNCHANGED <<pool, session, pending, next, form, call, deleting, tries>>

\* The session ends elsewhere, or by Sign out (which goes home first).
Out == session' = None /\ Fresh
Ended ==
    /\ Inside /\ deleting = "no" /\ Out /\ Gated(page)
    /\ UNCHANGED <<pool, pending, call, deleting, wanted, tries>>
SignOut ==
    /\ Inside /\ deleting = "no" /\ Out /\ Gated("/") /\ wanted' = "/"
    /\ UNCHANGED <<pool, pending, call, deleting, tries>>

\* Delete my account: the platform forgets the person, or refuses (an open booking) ...
AskDelete ==
    /\ Inside /\ profile[session] = "there" /\ deleting = "no" /\ deleting' = "asked"
    /\ UNCHANGED <<pool, session, pending, page, next, form, call, wanted, tries>>
Forget ==
    /\ deleting = "asked"
    /\ profile' = [profile EXCEPT ![session] = "none"] /\ leaving' = leaving \cup {session} /\ deleting' = "forgotten"
    /\ UNCHANGED <<login, session, pending, page, next, form, call, wanted, tries>>
Refuse ==
    /\ deleting = "asked" /\ deleting' = "no"
    /\ UNCHANGED <<pool, session, pending, page, next, form, call, wanted, tries>>
\* ... then the sign-in goes too, tried twice, and the device is signed out whatever came of it.
Leave(gone) ==
    /\ deleting = "forgotten" /\ deleting' = "no"
    /\ login' = (IF gone THEN [login EXCEPT ![session] = "none"] ELSE login)
    /\ Out /\ Gated("/") /\ wanted' = "/" /\ UNCHANGED <<profile, leaving, pending, call, tries>>
\* notifications hears profile.deleted: the sign-in goes.
HearDeleted(e) ==
    /\ e \in leaving /\ leaving' = leaving \ {e} /\ login' = [login EXCEPT ![e] = "none"]
    /\ UNCHANGED <<profile, session, pending, page, next, form, call, deleting, wanted, tries>>

-----------------------------------------------------------------------------
Answers == AnswerSignIn \/ AnswerMfa \/ AnswerSignUp \/ AnswerMailed \/ AnswerCode \/ Fail
Next ==
    \/ (\E e \in Email : Type(e) \/ HearDeleted(e)) \/ (\E m \in Mode : Go(m)) \/ (\E m \in {"in", "up"} : Enter(m))
    \/ Submit \/ TypeCode \/ EraseCode \/ SendCode \/ MayAsk \/ Back \/ Answers
    \/ (\E p \in Page : Onboard(p) \/ Visit(p)) \/ Ended \/ SignOut
    \/ AskDelete \/ Forget \/ Refuse \/ (\E gone \in BOOLEAN : Leave(gone))

Spec == Init /\ [][Next]_vars
\* A call is answered or fails; what deletes an account goes on to its end; events are delivered.
FairSpec ==
    /\ Spec /\ WF_vars(Answers)
    /\ WF_vars(\E gone \in BOOLEAN : Leave(gone)) /\ \A e \in Email : WF_vars(HearDeleted(e))

-----------------------------------------------------------------------------
\* "the person arriving here was in the middle of something and gets sent straight back to it
\* afterwards" (Login.tsx): through a new code, a new password, the authenticator's code, a session
\* that ended on another page and the profile asked for first, one is inside on the page one wanted.
ReturnsToPage == Inside => page = wanted

\* A code that was refused is not sent again by itself: the form comes to rest until it is touched.
FormComesToRest == <>[]~Busy

\* A deleted account's sign-in goes, also when the device could not delete it or is signed in again.
Deleted(e) == deleting = "forgotten" /\ session = e
DeletionEnds == \A e \in Email : Deleted(e) ~> login[e] = "none"

\* A profile has a sign-in to reach it by.  Does not hold: after a deletion whose quick path failed,
\* the same sign-in makes a fresh profile (FL-11), and profile.deleted then deletes the sign-in.
ProfileHasSignIn == \A e \in Email : profile[e] = "there" => login[e] = "confirmed"
=============================================================================
