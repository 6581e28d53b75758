-------------------------------- MODULE Devices --------------------------------
(***************************************************************************)
(* Whose notifications one phone gets: the app's registration for push     *)
(* (web/src/native.ts, PushPrime.tsx, Profile.tsx), the end of a session   *)
(* (data/auth.ts), and the device row notifications keeps (routes.py).     *)
(* The operating system and the network answer when they do.               *)
(***************************************************************************)
EXTENDS Naturals, FiniteSets

CONSTANTS Person,
          MaxRun \* bound: sign-ins and starts of the app

Nobody == "nobody"

VARIABLES
    who,        \* signed in on this phone
    perm,       \* what the operating system says: "prompt", "granted", "denied"
    asked,      \* the app asked once (device().pushAsked)
    sheet,      \* the app's own question is open
    registered, \* this run of the app asked the operating system for a token
    due,        \* the token is on its way to the registration listener
    posts,      \* registrations on their way to the server, by whose access token
    kept,       \* the token is in app storage: the server took it once
    leaving,    \* the sign-out under way: "no", "asked", "removing"
    row,        \* whose device the server says this phone is
    ends,       \* sign-outs everywhere notifications has not heard of
    loose,      \* persons who left with a registration of theirs on its way, or with the server not known to have heard
    missed,     \* persons whose registration was lost, overtaken or taken back everywhere since they signed in
    runs

vars == <<who, perm, asked, sheet, registered, due, posts, kept, leaving, row, ends, loose, missed, runs>>

TypeOK ==
    /\ {who, row} \subseteq Person \cup {Nobody} /\ perm \in {"prompt", "granted", "denied"}
    /\ {asked, sheet, registered, due, kept} \subseteq BOOLEAN
    /\ posts \subseteq Person /\ ends \subseteq Person /\ loose \cup missed \subseteq Person
    /\ leaving \in {"no", "asked", "removing"} /\ runs \in 0 .. MaxRun

Init ==
    /\ who = Nobody /\ perm = "prompt" /\ asked = FALSE /\ sheet = FALSE /\ registered = FALSE
    /\ due = FALSE /\ posts = {} /\ kept = FALSE /\ leaving = "no" /\ row = Nobody /\ ends = {}
    /\ loose = {} /\ missed = {} /\ runs = 0

\* enablePush: once in a run of the app and a session, if the phone allows it.
EnablePush(p) ==
    LET on == p = "granted" /\ ~registered IN
    registered' = (registered \/ on) /\ due' = (due \/ on)

\* A session begins, or is restored when the app starts (Member, mounted).
Begin(p) == who' = p /\ UNCHANGED loose /\ missed' = missed \ {p} /\ runs < MaxRun /\ runs' = runs + 1
SignIn(p) ==
    /\ who = Nobody /\ Begin(p) /\ EnablePush(perm)
    /\ UNCHANGED <<perm, asked, sheet, posts, kept, leaving, row, ends>>
\* What unregister leaves: this person's row of the token is gone.
Cleared == IF row = who THEN Nobody ELSE row
\* Killed and started again: what this run remembered is gone; a removal it had sent may be done or not.
Restart ==
    /\ who # Nobody /\ Begin(who) /\ leaving' = "no" /\ sheet' = FALSE
    /\ registered' = (perm = "granted") /\ due' = (perm = "granted")
    /\ row' \in {row} \cup (IF leaving = "removing" THEN {Cleared} ELSE {})
    /\ UNCHANGED <<perm, asked, posts, kept, ends>>

\* After the first booking request or listing.
AskForPush ==
    /\ who # Nobody /\ ~asked /\ perm = "prompt" /\ ~sheet /\ sheet' = TRUE
    /\ UNCHANGED <<who, perm, asked, registered, due, posts, kept, leaving, row, ends, loose, missed, runs>>
NotNow ==
    /\ sheet /\ sheet' = FALSE /\ asked' = TRUE
    /\ UNCHANGED <<who, perm, registered, due, posts, kept, leaving, row, ends, loose, missed, runs>>
\* There, or from the settings: the operating system asks, and what it answers stays.
TurnOn(answer) ==
    /\ who # Nobody /\ perm = "prompt" /\ perm' = answer /\ EnablePush(answer)
    /\ sheet' = FALSE /\ asked' = (asked \/ sheet)
    /\ UNCHANGED <<who, posts, kept, leaving, row, ends, loose, missed, runs>>
\* The phone's own Settings; the screen shows it and nothing registers.
Settings ==
    /\ perm # "prompt" /\ perm' = (IF perm = "granted" THEN "denied" ELSE "granted")
    /\ UNCHANGED <<who, asked, sheet, registered, due, posts, kept, leaving, row, ends, loose, missed, runs>>

-----------------------------------------------------------------------------
\* The listener sends the token with the access token of whoever is signed in by then.
Registration ==
    /\ due /\ due' = FALSE /\ posts' = posts \cup ({who} \ {Nobody})
    /\ UNCHANGED <<who, perm, asked, sheet, registered, kept, leaving, row, ends, loose, missed, runs>>

\* register: the same install, so the token moves to whoever asks; the answer may be lost.  It is no
\* longer of whoever had it, unless a registration of theirs comes yet.
Land(p, heard) ==
    /\ p \in posts /\ posts' = posts \ {p} /\ row' = p /\ kept' = (kept \/ heard)
    /\ loose' = (loose \cap (posts' \cup ({p} \ {who}))) \cup (IF kept' THEN {} ELSE {p})
    /\ missed' = (IF p = who THEN missed ELSE missed \cup ({who} \ {Nobody}))
    /\ UNCHANGED <<who, perm, asked, sheet, registered, due, leaving, ends, runs>>
Drop(p) ==
    /\ p \in posts /\ posts' = posts \ {p} /\ missed' = missed \cup {p}
    /\ UNCHANGED <<who, perm, asked, sheet, registered, due, kept, leaving, row, ends, loose, runs>>

-----------------------------------------------------------------------------
\* forget: also for a session ended elsewhere (pushReset).
Forget == who' = Nobody /\ registered' = FALSE /\ leaving' = "no"
Open == posts \cap {who}

SignOut(everywhere) ==
    /\ who # Nobody /\ leaving = "no" /\ leaving' = "asked" /\ ends' = (IF everywhere THEN ends \cup {who} ELSE ends)
    /\ UNCHANGED <<who, perm, asked, sheet, registered, due, posts, kept, row, loose, missed, runs>>
\* pushSignedOut: nothing in storage, nothing to take back ...
NothingKept ==
    /\ leaving = "asked" /\ ~kept /\ Forget /\ loose' = loose \cup Open
    /\ UNCHANGED <<perm, asked, sheet, due, posts, kept, row, ends, missed, runs>>
Removing ==
    /\ leaving = "asked" /\ kept /\ leaving' = "removing"
    /\ UNCHANGED <<who, perm, asked, sheet, registered, due, posts, kept, row, ends, loose, missed, runs>>
\* Wrong on purpose: answered as done, and the row is still there.
RemovedHere ==
    /\ leaving = "removing" /\ UNCHANGED row /\ kept' = FALSE
    /\ Forget /\ loose' = (loose \ {who}) \cup Open
    /\ UNCHANGED <<perm, asked, sheet, due, posts, ends, missed, runs>>

\* ... else unregister takes this person's row of the token away (204).
Removed ==
    /\ leaving = "removing" /\ row' = Cleared /\ kept' = FALSE
    /\ Forget /\ loose' = (loose \ {who}) \cup Open
    /\ UNCHANGED <<perm, asked, sheet, due, posts, ends, missed, runs>>
\* Answered with an error, which nobody looks at: the access token was just revoked everywhere (401),
\* or the server failed, before or after.  The token is forgotten here all the same.
RemovalFails ==
    /\ leaving = "removing" /\ row' \in {row, Cleared} /\ kept' = FALSE
    /\ Forget /\ loose' = loose \cup {who}
    /\ UNCHANGED <<perm, asked, sheet, due, posts, ends, missed, runs>>
\* Never answered, done or not.
Offline ==
    /\ leaving = "removing" /\ row' \in {row, Cleared} /\ Forget /\ loose' = loose \cup {who}
    /\ UNCHANGED <<perm, asked, sheet, due, posts, kept, ends, missed, runs>>
\* Ended on another device, or run out, also at a sign-out that finds no access token: nobody takes the row back from here.
Ended(everywhere) ==
    /\ who # Nobody /\ leaving = "no" /\ Forget /\ loose' = loose \cup {who}
    /\ ends' = (IF everywhere THEN ends \cup {who} ELSE ends)
    /\ UNCHANGED <<perm, asked, sheet, due, posts, kept, row, missed, runs>>
\* notifications hears person.signed_out: every device of theirs goes.
HearEnd(p) ==
    /\ p \in ends /\ ends' = ends \ {p} /\ row' = (IF row = p THEN Nobody ELSE row) /\ missed' = missed \cup {p}
    /\ loose' = loose \ ({p} \ posts)
    /\ UNCHANGED <<who, perm, asked, sheet, registered, due, posts, kept, leaving, runs>>

-----------------------------------------------------------------------------
Phone ==
    \/ (\E p \in Person : SignIn(p)) \/ Restart \/ AskForPush \/ NotNow \/ Settings
    \/ (\E a \in {"granted", "denied"} : TurnOn(a)) \/ Registration
    \/ NothingKept \/ Removing \/ Removed \/ RemovalFails \/ Offline \/ \E all \in BOOLEAN : SignOut(all) \/ Ended(all)
Next == Phone \/ \E p \in Person : Drop(p) \/ HearEnd(p) \/ \E heard \in BOOLEAN : Land(p, heard)

Spec == Init /\ [][Next]_vars
FairSpec ==
    /\ Spec /\ WF_vars(Registration) /\ \A p \in Person : WF_vars(\E heard \in BOOLEAN : Land(p, heard))

-----------------------------------------------------------------------------
\* "this device stops getting this person's notifications" (routes.py, unregister): the phone is of
\* who is signed in on it, or of somebody whose leaving was cut short: offline, answered by an error,
\* ended elsewhere, a registration of theirs still on its way or its answer lost; and of those only
\* until the server hears of their sign-out everywhere or the phone registers for another.
OnlyTheirs == row = Nobody \/ row = who \/ row \in loose

\* "the token follows whoever is signed in" (native.ts): whoever signs in on a phone that allows it
\* gets their notifications there, whoever had it before, unless they leave, the registration is lost
\* or overtaken by an older one, a sign-out everywhere of theirs is heard of, or the app starts again without the permission.
Joins(p) == who = p /\ registered
Reached(p) == row = p \/ who # p \/ p \in missed \/ ~registered
FollowsWhoIsIn == \A p \in Person : Joins(p) ~> Reached(p)
=============================================================================
