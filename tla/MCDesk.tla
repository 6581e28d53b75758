------------------------------- MODULE MCDesk -------------------------------
(***************************************************************************)
(* What staff and the two sides of a booking hand in and decide, what an   *)
(* owner edits, the search page and the sheets over every page, in one     *)
(* run: a dispute (Dispute, whose names this module keeps) and seven other *)
(* machines that share nothing with it or with each other.  DeskInit says  *)
(* which of them moves; the others stay in one initial state.              *)
(***************************************************************************)
EXTENDS Dispute, Sequences

CONSTANTS Body, MaxKey, MaxWish, MaxCopy,
          Plans, Dates, LastDay, MaxSlot,
          File, MaxPost,
          MaxPhotos, MaxPick, MaxEdit,
          Clerk, MaxSend, MaxDecide,
          MaxSheet,
          People, Cats, Places, Default, MaxAct

ASSUME BoundsArePositive ==
    {MaxKey, MaxWish, MaxCopy, LastDay, MaxSlot, MaxPost,
     MaxPhotos, MaxPick, MaxEdit, MaxSend, MaxDecide, MaxSheet,
     MaxAct, MaxOffer, MaxResolution} \subseteq Nat \ {0}
ASSUME PlansAreDays == Plans \subseteq SUBSET (1 .. LastDay) /\ {} \in Plans /\ Dates \subseteq 1 .. LastDay
ASSUME FilesAreFinite == IsFiniteSet(File)
ASSUME DefaultIsPlace == Default \in Places
ASSUME PriceIsPositive == Total \in Nat \ {0}
ASSUME LimitsAreOrdered == LimitSupport \in Nat /\ LimitLead \in Nat /\ LimitSupport <= LimitLead
ASSUME RolesAreApart == Support \cap Lead = {} /\ {"renter", "owner"} \cap (Support \cup Lead) = {}

VARIABLES focus,
          texts, blank, last, keys, busy, sent, copies, answers, attemptMade, told, refused,
          slots, spec, until, day, count, rolling, view, open, drafted, form, dropped, step, gone, todo,
          files, uploaded, job, call, key, kept, posts, row, used, stored, locked, doomed, evidence,
          mode, value, errors, touched, photos, flying, picked, edits, editorGone, editorSent,
          clock, claims, notices, latenessPage, reports, latenessSent, latenessDesk, toasts, decisions, decided,
          sheetsOpen, phase, sheetsLocked, prev, sheetsFocus, opener, inOrder,
          hist, pos, search, browseStored, ran, written, shown, who, home, loaded, acts, goal

attempt == <<texts, blank, last, keys, busy, sent, copies, answers, attemptMade, told, refused>>
listing == <<slots, spec, until, day, count, rolling, view, open, drafted, form, dropped, step, gone,
             todo>>
handover == <<files, uploaded, job, call, key, kept, posts, row, used, stored, locked, doomed, evidence>>
editor == <<mode, value, errors, touched, photos, flying, picked, edits, editorGone, editorSent>>
lateness == <<clock, claims, notices, latenessPage, reports, latenessSent, latenessDesk, toasts, decisions, decided>>
sheets == <<sheetsOpen, phase, sheetsLocked, prev, sheetsFocus, opener, inOrder>>
browse == <<hist, pos, search, browseStored, ran, written, shown, who, home, loaded, acts, goal>>
deskVars == <<focus, attempt, listing, handover, editor, lateness, sheets, browse, vars>>

A == INSTANCE Attempt WITH made <- attemptMade
L == INSTANCE Listings
P == INSTANCE Photos
F == INSTANCE ListingForm WITH gone <- editorGone, sent <- editorSent
C == INSTANCE Claims WITH Staff <- Clerk, page <- latenessPage, sent <- latenessSent, desk <- latenessDesk
S == INSTANCE Sheets WITH open <- sheetsOpen, locked <- sheetsLocked, focus <- sheetsFocus
B == INSTANCE Browse WITH stored <- browseStored

DeskInit ==
    /\ focus \in {"attempt", "listing", "handover", "editor", "lateness", "sheets", "browse", "dispute"}
    /\ A!Init /\ L!Init /\ P!Init /\ F!Init /\ C!Init /\ S!Init /\ B!Init /\ Init
    /\ focus # "attempt" => last.body = CHOOSE b \in Body : TRUE
    /\ focus # "listing" => spec = {} /\ slots = {}
    /\ focus # "browse" => hist = <<B!Blank>> /\ who = B!Nobody /\ \A p \in People : home[p] = B!None

InAttempt(a) == focus = "attempt" /\ a /\ UNCHANGED <<focus, listing, handover, editor, lateness, sheets, browse, vars>>
InListing(a) == focus = "listing" /\ a /\ UNCHANGED <<focus, attempt, handover, editor, lateness, sheets, browse, vars>>
InHandover(a) == focus = "handover" /\ a /\ UNCHANGED <<focus, attempt, listing, editor, lateness, sheets, browse, vars>>
InEditor(a) == focus = "editor" /\ a /\ UNCHANGED <<focus, attempt, listing, handover, lateness, sheets, browse, vars>>
InLateness(a) == focus = "lateness" /\ a /\ UNCHANGED <<focus, attempt, listing, handover, editor, sheets, browse, vars>>
InSheets(a) == focus = "sheets" /\ a /\ UNCHANGED <<focus, attempt, listing, handover, editor, lateness, browse, vars>>
InBrowse(a) == focus = "browse" /\ a /\ UNCHANGED <<focus, attempt, listing, handover, editor, lateness, sheets, vars>>
InDispute(a) == focus = "dispute" /\ a /\ UNCHANGED <<focus, attempt, listing, handover, editor, lateness, sheets, browse>>

DeskNext ==
    \/ InAttempt(A!Next)
    \/ InListing(L!Next)
    \/ InHandover(P!Next)
    \/ InEditor(F!Next)
    \/ InLateness(C!Next)
    \/ InSheets(S!Next)
    \/ InBrowse(B!Next)
    \/ InDispute(Next)

DeskSpec == DeskInit /\ [][DeskNext]_deskVars

DeskTyped ==
    CASE focus = "attempt" -> A!TypeOK
      [] focus = "listing" -> L!TypeOK
      [] focus = "handover" -> P!TypeOK
      [] focus = "editor" -> F!TypeOK
      [] focus = "lateness" -> C!TypeOK
      [] focus = "sheets" -> S!TypeOK
      [] focus = "browse" -> B!TypeOK
      [] focus = "dispute" -> TypeOK

---------------------------------------------------------------------------
(* The properties of the machines, each stated in its own module; Dispute's OneDecision as it is. *)

\* However a form's answers come, a wish is made twice only after a definite refusal of it, under no
\* key that another text had, and what is called done is there (attempt.ts, idempotency.py).
TwiceOnlyAfterRefusal == A!KeyFollowsBody /\ A!DoneIsItsOwn /\ A!TwiceOnlyAfterRefusal

\* A listing said to be saved has none of the windows taken away in it, and no two windows of its
\* schedule at one time, whatever the job and another device do between the requests of the save.
SavedMeansRemoved == []L!GeneratedApart /\ [][InListing(L!Saved) => gone \cap L!Ids = {}]_deskVars

\* No photo is swept while it is in use, and the save tried again keeps its key.
NotSweptInUse == []P!RetryKeepsKey /\ P!NotSweptInUse

\* A picture taken out never comes back with its upload's answer, and a form that is refused shows why.
GoneStaysGone == F!GoneStaysGone /\ F!RefusalIsSeen

\* One claim of a late return, with one outcome that everybody is told, whoever files and decides.
OneClaim == C!OneClaim /\ C!OutcomeIsOne

\* What opened over the page gives back what it took, and the page ends where the last tap led: sheets
\* the scrolling and the focus, the two effects of the search its address, an account its home.
ScreenSettles ==
    /\ S!ScrollsAgain /\ S!FocusInside
    /\ focus = "browse" => B!SettlesAsAsked
    /\ B!HomeStaysTheirs
=============================================================================
