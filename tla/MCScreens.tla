----------------------------- MODULE MCScreens ------------------------------
(***************************************************************************)
(* What has to catch up with something that happened elsewhere, in one     *)
(* run: the reviews of a booking (Reviews, whose names this module keeps)  *)
(* and five other machines that share nothing with it or with each other.  *)
(* ScreensInit says which of them moves; the others stay in one initial    *)
(* state.                                                                  *)
(***************************************************************************)
EXTENDS Reviews, Sequences

CONSTANTS Text, PageSize, MaxMsg,
          Email, Guarded, MaxTry,
          MaxRun,
          Tab, MaxSecret,
          MaxNote, MaxMark, MaxPress

ASSUME BoundsArePositive ==
    {PageSize, MaxMsg, MaxTry, MaxRun, MaxSecret, MaxNote, MaxMark, MaxPress, MaxPost} \subseteq Nat \ {0}
ASSUME TextsAreKnown == Text \subseteq {"plain", "contact"}
ASSUME GuardedAreEmails == Guarded \subseteq Email
ASSUME NobodyHasNoEmail == "nobody" \notin Email

VARIABLES focus,
          status, msgs, readTo, blocked, open, seen, thread, known, closedHere, refusedHere, draft,
          sending, kept, made, left,
          login, profile, leaving, session, pending, accountPage, next, mode, email, code, cooldown, call,
          deleting, wanted, tries,
          who, perm, asked, sheet, registered, due, phonePosts, phoneKept, phoneLeaving, row, ends, loose,
          missed, runs,
          setupPage, form, shown, calls, setupMade, assoc, verified, on, app, cache,
          come, unread, count, fetch, bellOpen, timer, marks, failed, marked, slipped, pressed

messages == <<status, msgs, readTo, blocked, open, seen, thread, known, closedHere, refusedHere, draft,
              sending, kept, made, left>>
account == <<login, profile, leaving, session, pending, accountPage, next, mode, email, code, cooldown, call,
             deleting, wanted, tries>>
phone == <<who, perm, asked, sheet, registered, due, phonePosts, phoneKept, phoneLeaving, row, ends, loose,
           missed, runs>>
setup == <<setupPage, form, shown, calls, setupMade, assoc, verified, on, app, cache>>
bell == <<come, unread, count, fetch, bellOpen, timer, marks, failed, marked, slipped, pressed>>
screensVars == <<focus, messages, account, phone, setup, bell, vars>>

C == INSTANCE Conversation
A == INSTANCE Account WITH page <- accountPage
D == INSTANCE Devices WITH Person <- Email, posts <- phonePosts, kept <- phoneKept, leaving <- phoneLeaving
T == INSTANCE Totp WITH page <- setupPage, made <- setupMade
N == INSTANCE Bell WITH open <- bellOpen

ScreensInit ==
    /\ focus \in {"messages", "account", "phone", "setup", "bell", "reviews"}
    /\ Init /\ C!Init /\ A!Init /\ D!Init /\ T!Init /\ N!Init
    /\ focus # "account" => next = "/" /\ (\A e \in Email : login[e] = "none") /\ email = CHOOSE e \in Email : TRUE

InMessages(a) == focus = "messages" /\ a /\ UNCHANGED <<focus, account, phone, setup, bell, vars>>
InAccount(a) == focus = "account" /\ a /\ UNCHANGED <<focus, messages, phone, setup, bell, vars>>
InPhone(a) == focus = "phone" /\ a /\ UNCHANGED <<focus, messages, account, setup, bell, vars>>
InSetup(a) == focus = "setup" /\ a /\ UNCHANGED <<focus, messages, account, phone, bell, vars>>
InBell(a) == focus = "bell" /\ a /\ UNCHANGED <<focus, messages, account, phone, setup, vars>>
InReviews(a) == focus = "reviews" /\ a /\ UNCHANGED <<focus, messages, account, phone, setup, bell>>

ScreensNext ==
    \/ InMessages(C!Next)
    \/ InAccount(A!Next)
    \/ InPhone(D!Next)
    \/ InSetup(T!Next)
    \/ InBell(N!Next)
    \/ InReviews(Next)

ScreensSpec == ScreensInit /\ [][ScreensNext]_screensVars

Ranks(S) == CHOOSE f \in [S -> 1 .. Cardinality(S)] : \A x, y \in S : f[x] = f[y] => x = y
RankE == Ranks(Email)
RankT == Ranks(Tab)

\* The steps of each machine that its own scheduling sees to, numbered.  Only one machine moves, so
\* that one condition for all those with the same number asks of each what it asks alone.
Sure(i) ==
    \/ /\ i = 1
       /\ \/ InMessages(C!PollThread) \/ InAccount(A!Answers) \/ InPhone(D!Registration)
          \/ InSetup(T!Expires) \/ InBell(N!Poll) \/ InReviews(Sweep)
    \/ /\ i = 2
       /\ \/ InMessages(seen = "requested" /\ C!PollBooking) \/ InBell(N!Read) \/ InAccount(\E gone \in BOOLEAN : A!Leave(gone)) \/ InReviews(Close)
    \/ i = 3 /\ (InBell(N!Arrives) \/ InReviews(HearRated("renter")))
    \/ i = 4 /\ (InBell(N!Fire) \/ InReviews(HearRated("owner")))
    \/ \E e \in Email :
         /\ i = 2 + RankE[e]
         /\ InAccount(A!HearDeleted(e)) \/ InPhone(\E heard \in BOOLEAN : D!Land(e, heard))
    \/ \E t \in Tab :
         i = 1 + RankT[t] /\ InSetup(T!Answer(t))
    \/ \E m \in 1 .. MaxMark :
         \/ i = 4 + m /\ InBell(N!MarkRead(m) \/ N!Fails(m))
         \/ i = 4 + MaxMark + m /\ InBell(N!Settles(m))

ScreensFairSpec ==
    /\ ScreensSpec
    /\ \A i \in 1 .. 4 + 2 * MaxMark : WF_screensVars(Sure(i))

ScreensTyped ==
    CASE focus = "messages" -> C!TypeOK
      [] focus = "account" -> A!TypeOK
      [] focus = "phone" -> D!TypeOK
      [] focus = "setup" -> T!TypeOK
      [] focus = "bell" -> N!TypeOK
      [] focus = "reviews" -> TypeOK

---------------------------------------------------------------------------
(* The properties of the machines, each stated in its own module; Reviews' WrittenBlind as it is. *)

\* A conversation that cannot be written in could not be answered either, and contact details are
\* hidden again once the booking they were for is cancelled.
ClosedForGood == C!ClosedForGood /\ C!HiddenWhenShut

\* Where signing in leads is where the reader was going; the phone rings for who is signed in on it;
\* and the code asked for is of the secret that was shown.
OnlyTheirs == A!ReturnsToPage /\ D!OnlyTheirs /\ T!AskedIsHeld

\* What e, of the accounts, or anybody waits for, and what ends the wait.
Waits(e) ==
    CASE focus = "messages" -> C!Behind
      [] focus = "account" -> A!Deleted(e)
      [] focus = "phone" -> D!Joins(e)
      [] focus = "setup" -> on
      [] focus = "bell" -> N!Lit
      [] focus = "reviews" -> Unheard
Served(e) ==
    CASE focus = "messages" -> ~C!Behind
      [] focus = "account" -> login[e] = "none"
      [] focus = "phone" -> D!Reached(e)
      [] focus = "setup" -> T!LetsIn
      [] focus = "bell" -> N!Emptied
      [] focus = "reviews" -> ~Unheard

\* What happened elsewhere arrives: on the thread left open, at the sign-in of a deleted account, on the
\* phone of who signed in, on the tabs of a console that two-step sign-in opens, on the bell, and with
\* catalog, which has the reviews.
NobodyWaits == \A e \in Email : Waits(e) ~> Served(e)
=============================================================================
