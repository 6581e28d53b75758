---------------------------- MODULE ScreensProofs -----------------------------
(***************************************************************************)
(* Proofs about the machines of MCScreens, for every size of each.  The    *)
(* reviews are written blind because what publishes them also ends the     *)
(* time to write.  A conversation the page calls closed is closed at the   *)
(* server because no status without messages is ever left.  Signing in     *)
(* leads where the reader was going because nothing is under way inside,   *)
(* and outside the form's next page is always the one wanted.  A phone is  *)
(* of who is signed in on it, or of somebody who left a registration of    *)
(* theirs open, because whoever leaves any open is noted as such.  And the *)
(* code asked for is of a secret the app has because only codes of such    *)
(* secrets are ever sent.                                                  *)
(***************************************************************************)
EXTENDS MCScreens, SequenceTheorems, TLAPS

\* What TLC evaluates of the bounds, one by one.
LEMMA Bounds ==
  /\ PageSize \in Nat \ {0} /\ MaxMsg \in Nat \ {0} /\ MaxTry \in Nat \ {0} /\ MaxRun \in Nat \ {0}
  /\ MaxSecret \in Nat \ {0} /\ MaxNote \in Nat \ {0} /\ MaxMark \in Nat \ {0} /\ MaxPress \in Nat \ {0}
  /\ MaxPost \in Nat \ {0}
BY BoundsArePositive

\* Nobody is nobody's address, neither on the form nor on a phone.
LEMMA NobodySignsIn == A!None \notin Email /\ D!Nobody \notin Email
BY NobodyHasNoEmail DEF A!None, D!Nobody

---------------------------------------------------------------------------
(* The reviews of a booking.                                               *)

\* Published reviews are all that will be written, each with its event; the others have none.
OutInv ==
    /\ written \subseteq Side /\ published \in BOOLEAN
    /\ published => closed \/ written = Side
    /\ events = [s \in Side |-> IF published /\ s \in written THEN 1 ELSE 0]

\* Nobody knows the other's, and catalog has heard of none, before they are published.
BlindInv ==
    /\ catalog \subseteq {s \in Side : events[s] > 0}
    /\ (knows # {} \/ catalog # {}) => published
    /\ \A p \in posts : p.by \in Side

ReviewsInv == OutInv /\ BlindInv

\* It holds before the booking is completed.
LEMMA InvInit == Init => ReviewsInv
BY DEF Init, ReviewsInv, OutInv, BlindInv

\* A first publication gives each review that is in its event.
LEMMA PublishOnce ==
  ASSUME OutInv, NEW ws \in SUBSET Side, ~published, Publish(ws)
  PROVE  published' = TRUE /\ events' = [s \in Side |-> IF s \in ws THEN 1 ELSE 0]
BY DEF OutInv, Publish

\* Something published stays so.
LEMMA EventsStay ==
  ASSUME ReviewsInv, OutInv', published => published', written \subseteq written',
         UNCHANGED <<catalog, knows>>, posts' \subseteq posts
  PROVE  BlindInv'
BY DEF ReviewsInv, OutInv, BlindInv

\* A rating taken is one of somebody who does not know the other's.
LEMMA InvRate ==
  ASSUME ReviewsInv, NEW p \in posts, Rate(p)
  PROVE  ReviewsInv' /\ \A s \in written' \ written : s \notin knows
<1> USE DEF ReviewsInv
<1>1. p.by \in Side /\ UNCHANGED <<completed, closed, catalog, knows>> /\ posts' \subseteq posts
  BY DEF Rate, BlindInv
<1>2. CASE Takes(p.by)
  <2>1. ~published /\ written' = written \cup {p.by} /\ written' \subseteq Side
    BY <1>1, <1>2 DEF Takes, OutInv, Rate
  <2>2. CASE Other(p.by) \in written
    <3>1. written' = Side
      <4>1. CASE p.by = "renter"
        BY <1>1, <2>1, <2>2, <4>1 DEF Other, Side
      <4>2. CASE p.by = "owner"
        BY <1>1, <2>1, <2>2, <4>2 DEF Other, Side
      <4> QED
        BY <1>1, <4>1, <4>2 DEF Side
    <3>2. published' = TRUE /\ events' = [s \in Side |-> IF s \in written' THEN 1 ELSE 0]
      <4>1. Publish(written \cup {p.by}) /\ written \cup {p.by} \in SUBSET Side
        BY <1>2, <2>1, <2>2 DEF Rate
      <4> QED
        BY <2>1, <4>1, PublishOnce
    <3> QED
      BY <1>1, <2>1, <3>1, <3>2, EventsStay DEF OutInv, BlindInv
  <2>3. CASE Other(p.by) \notin written
    <3>1. UNCHANGED <<published, events>>
      BY <1>2, <2>3 DEF Rate
    <3> QED
      BY <1>1, <2>1, <3>1, EventsStay DEF OutInv, BlindInv
  <2> QED
    BY <2>2, <2>3
<1>3. CASE ~Takes(p.by)
  <2>1. UNCHANGED <<written, published, events>>
    BY <1>3 DEF Rate
  <2> QED
    BY <1>1, <2>1, EventsStay DEF OutInv
<1> QED
  BY <1>2, <1>3

\* Any step keeps it, and only a rating of somebody still blind adds one.
LEMMA InvNext ==
  ASSUME ReviewsInv, [Next]_vars
  PROVE  ReviewsInv' /\ \A s \in written' \ written : s \notin knows
<1> USE DEF ReviewsInv
<1>1. CASE Complete \/ Close \/ UNCHANGED vars
  BY <1>1 DEF Complete, Close, vars, booking, pages, OutInv, BlindInv
<1>2. CASE Sweep
  <2>1. ~published /\ closed /\ UNCHANGED <<closed, written, posts, catalog, knows>> /\ Publish(written)
    BY <1>2 DEF Sweep, Due, pages
  <2>2. published' = TRUE /\ events' = [s \in Side |-> IF s \in written THEN 1 ELSE 0]
    BY <2>1, PublishOnce DEF OutInv
  <2> QED
    BY <2>1, <2>2, EventsStay DEF OutInv
<1>3. CASE ReadReviews
  <2>1. UNCHANGED <<closed, written, published, events, posts, catalog>>
        /\ (knows' # {} => knows # {} \/ catalog # {})
    BY <1>3 DEF ReadReviews, booking
  <2> QED
    BY <2>1 DEF OutInv, BlindInv
<1>4. ASSUME NEW s \in Side, ReadBooking(s)
      PROVE  ReviewsInv' /\ \A w \in written' \ written : w \notin knows
  <2>1. UNCHANGED <<closed, written, published, events, posts, catalog>>
    BY <1>4 DEF ReadBooking, booking
  <2>2. Other(s) \in Shows(s) => published
    BY DEF Other, Side, Shows
  <2>3. knows' # {} => published
    BY <1>4, <2>2 DEF ReadBooking, BlindInv
  <2> QED
    BY <2>1, <2>3 DEF OutInv, BlindInv
<1>5. ASSUME NEW s \in Side, Post(s)
      PROVE  ReviewsInv' /\ \A w \in written' \ written : w \notin knows
  BY <1>5 DEF Post, booking, OutInv, BlindInv
<1>6. ASSUME NEW s \in Side, HearRated(s)
      PROVE  ReviewsInv' /\ \A w \in written' \ written : w \notin knows
  <2>1. UNCHANGED <<closed, written, published, events, posts, knows>> /\ catalog' = catalog \cup {s} /\ events[s] > 0
    BY <1>6 DEF HearRated, booking, pages
  <2>2. published
    BY <2>1 DEF OutInv
  <2> QED
    BY <2>1, <2>2 DEF OutInv, BlindInv
<1>7. CASE \E p \in posts : Rate(p)
  BY <1>7, InvRate
<1> QED
  BY <1>1, <1>2, <1>3, <1>4, <1>5, <1>6, <1>7 DEF Next

---------------------------------------------------------------------------

\* Whoever writes a review has not seen the other side's, on the booking's page or the listing's.
THEOREM BlindUntilWritten == Spec => BlindWhenWritten
<1>1. Init => ReviewsInv
  BY InvInit
<1>2. ReviewsInv /\ [Next]_vars => ReviewsInv'
  BY InvNext
<1>3. ReviewsInv /\ [Next]_vars => [\A s \in written' \ written : s \notin knows]_vars
  BY InvNext
<1> QED
  BY <1>1, <1>2, <1>3, PTL DEF Spec, BlindWhenWritten

\* Two ratings, repeats and the sweep: each review that is in goes out once, and none that is not.
THEOREM EachGoesOutOnce == Spec => []OutOnce
<1>1. Init => ReviewsInv
  BY InvInit
<1>2. ReviewsInv /\ [Next]_vars => ReviewsInv'
  BY InvNext
<1>3. ReviewsInv => OutOnce
  BY DEF ReviewsInv, OutInv, OutOnce
<1> QED
  BY <1>1, <1>2, <1>3, PTL DEF Spec

\* The two together: reviews are written blind and go out once.
THEOREM Blind == Spec => WrittenBlind
BY BlindUntilWritten, EachGoesOutOnce, PTL DEF WrittenBlind

---------------------------------------------------------------------------

\* What was published is somebody's, and ratings are numbered.
PostsInv ==
    /\ published => written # {}
    /\ completed \in BOOLEAN /\ closed \in BOOLEAN /\ knows \subseteq Side
    /\ page \in [Side -> SUBSET Side] /\ posted \in [Side -> 0 .. MaxPost]
    /\ posts \subseteq [by : Side, n : 1 .. MaxPost]

\* Any step keeps it.
LEMMA PostsNext ==
  ASSUME MaxPost \in Nat, ReviewsInv, PostsInv, [Next]_vars
  PROVE  PostsInv'
<1> USE DEF PostsInv, ReviewsInv
<1>3. CASE Complete \/ Close \/ UNCHANGED vars
  <2>1. UNCHANGED <<published, written, page, posts, posted, knows>>
    BY <1>3 DEF Complete, Close, pages, vars
  <2>2. completed' \in BOOLEAN /\ closed' \in BOOLEAN
    BY <1>3, Zenon DEF Complete, Close, vars
  <2> QED
    BY <2>1, <2>2
<1>4. CASE Sweep
  BY <1>4 DEF Sweep, Due, Publish, pages
<1>5. CASE ReadReviews
  BY <1>5 DEF ReadReviews, booking, Side
<1>6. ASSUME NEW s \in Side, ReadBooking(s) \/ HearRated(s) PROVE PostsInv'
  <2>1. Shows(s) \subseteq Side
    BY DEF Shows, OutInv
  <2> QED
    BY <1>6, <2>1 DEF ReadBooking, HearRated, booking, pages
<1>7. ASSUME NEW s \in Side, Post(s) PROVE PostsInv'
  <2>1. posted[s] + 1 \in 1 .. MaxPost
    BY <1>7 DEF Post
  <2>2. [by |-> s, n |-> posted[s] + 1] \in [by : Side, n : 1 .. MaxPost]
    BY <2>1
  <2>3. posted' \in [Side -> 0 .. MaxPost]
    BY <1>7, <2>1 DEF Post
  <2> QED
    BY <1>7, <2>2, <2>3 DEF Post, booking
<1>8. ASSUME NEW p \in posts, Rate(p) PROVE PostsInv'
  <2>1. posts' \subseteq posts /\ UNCHANGED <<completed, closed, page, posted, knows>>
    BY <1>8 DEF Rate
  <2>2. published' => written' # {}
    BY <1>8 DEF Rate, Publish
  <2> QED
    BY <2>1, <2>2
<1> QED
  BY <1>3, <1>4, <1>5, <1>6, <1>7, <1>8 DEF Next

\* At first nothing is there.
LEMMA PostsInit == ASSUME MaxPost \in Nat, Init PROVE PostsInv
<1>2. completed \in BOOLEAN /\ closed \in BOOLEAN /\ ~published
  BY Zenon DEF Init
<1> QED
  BY <1>2 DEF Init, PostsInv

\* What is known of the events types the rest.
LEMMA PostsTyped == ReviewsInv /\ PostsInv => TypeOK
<1> SUFFICES ASSUME ReviewsInv, PostsInv PROVE TypeOK
  OBVIOUS
<1>1. events \in [Side -> 0 .. 1]
  BY DEF ReviewsInv, OutInv
<1> QED
  BY <1>1 DEF ReviewsInv, OutInv, BlindInv, PostsInv, TypeOK

---------------------------------------------------------------------------
(* A conversation.                                                         *)

\* The two statuses without messages have no others after them, and only they close the conversation; what
\* is kept under the key of a cancelled booking was never answered as agreed.
ShutForGood ==
    /\ seen = "cancelled" => status = "cancelled"
    /\ closedHere => ~C!OpenForMessages
    /\ ~thread["cancelled"].agreed

ConversationInv == C!TypeOK /\ ShutForGood

---------------------------------------------------------------------------
\* A message more, where there is room for it.
LEMMA Adding ==
  ASSUME C!TypeOK, C!Room, NEW mine \in BOOLEAN, NEW text \in Text, C!Add(mine, text)
  PROVE  msgs' \in C!BoundedSeq([mine: BOOLEAN, kind: C!Kind], MaxMsg)
<1> DEFINE Message == [mine: BOOLEAN, kind: C!Kind]
           m == [mine |-> mine, kind |-> C!Stored(text)]
<1>1. m \in Message /\ msgs' = Append(msgs, m)
  BY DEF C!Add, C!Stored, C!Kind
<1>2. PICK n \in 0 .. MaxMsg : msgs \in [1 .. n -> Message]
  BY DEF C!TypeOK, C!BoundedSeq, C!SeqOf
<1> HIDE DEF m, Message
<1>3. msgs \in Seq(Message) /\ n \in Nat
  <2>1. n \in Nat
    BY <1>2, Bounds
  <2> QED
    BY <1>2, <2>1
<1>4. Len(msgs) = n
  BY <1>2, <1>3, LenProperties
<1>5. /\ Append(msgs, m) \in Seq(Message) /\ Len(Append(msgs, m)) = n + 1
  BY <1>1, <1>3, <1>4, AppendProperties
<1>6. Append(msgs, m) \in [1 .. n + 1 -> Message]
  BY <1>5, LenProperties
<1>7. n + 1 \in 0 .. MaxMsg
  BY <1>2, <1>4, Bounds DEF C!Room
<1>8. msgs' \in C!BoundedSeq(Message, MaxMsg)
  BY <1>1, <1>6, <1>7 DEF C!BoundedSeq, C!SeqOf
<1> QED
  BY <1>8 DEF Message

\* How many messages there are.
LEMMA HowMany == ASSUME C!TypeOK PROVE Len(msgs) \in 0 .. MaxMsg /\ C!Oldest \in 0 .. MaxMsg
<1> DEFINE Message == [mine: BOOLEAN, kind: C!Kind]
<1>1. PICK n \in 0 .. MaxMsg : msgs \in [1 .. n -> Message]
  BY DEF C!TypeOK, C!BoundedSeq, C!SeqOf
<1> HIDE DEF Message
<1>2. msgs \in Seq(Message) /\ n \in Nat
  <2>1. n \in Nat
    BY <1>1, Bounds
  <2> QED
    BY <1>1, <2>1
<1>3. Len(msgs) = n
  BY <1>1, <1>2, LenProperties
<1> QED
  BY <1>1, <1>3, Bounds DEF C!Oldest

\* It holds at first.
LEMMA ConversationBegins == C!Init => ConversationInv
<1> SUFFICES ASSUME C!Init PROVE ConversationInv
  OBVIOUS
<1>1. msgs \in C!BoundedSeq([mine: BOOLEAN, kind: C!Kind], MaxMsg)
  <2>1. msgs = <<>> /\ <<>> \in [1 .. 0 -> [mine: BOOLEAN, kind: C!Kind]] /\ 0 \in 0 .. MaxMsg
    BY Bounds DEF C!Init
  <2> QED
    BY <2>1 DEF C!BoundedSeq, C!SeqOf
<1>2. thread \in [C!Status \ {"over"} -> C!View] /\ readTo \in 0 .. MaxMsg /\ ~thread["cancelled"].agreed
  BY Bounds DEF C!Init, C!View, C!Unasked, C!Status
<1> QED
  BY <1>1, <1>2 DEF C!Init, ConversationInv, C!TypeOK, ShutForGood, C!Status

\* What the screen has read changes with what is read.
LEMMA PollKeeps ==
  ASSUME ConversationInv, C!PollThread \/ C!PollBooking \/ C!OpenThread \/ C!Leave
  PROVE  ConversationInv'
<1> USE DEF ConversationInv
<1>1. /\ UNCHANGED <<C!booking, msgs, known>> /\ draft' \in {draft, C!None} /\ sending' \in {sending, C!None}
      /\ left' \subseteq left \cup ({sending} \ {C!None})
      /\ readTo' \in {readTo, Len(msgs)} /\ open' \in BOOLEAN
      /\ kept' \in {kept, C!None} /\ made' \in {made, FALSE}
      /\ closedHere' \in {closedHere, FALSE} /\ refusedHere' \in {refusedHere, FALSE}
  <2>1. CASE C!PollThread
    BY <2>1 DEF C!PollThread, C!Reads, C!booking, C!composer, C!TypeOK
  <2>2. CASE C!PollBooking
    BY <2>2 DEF C!PollBooking, C!Reads, C!booking, C!composer, C!TypeOK
  <2>3. CASE C!OpenThread
    BY <2>3 DEF C!OpenThread, C!Reads, C!booking
  <2>4. CASE C!Leave
    BY <2>4 DEF C!Leave, C!booking
  <2> QED
    BY <2>1, <2>2, <2>3, <2>4
<1>2. thread' \in [C!Status \ {"over"} -> C!View] /\ ~thread'["cancelled"].agreed
  <2>1. CASE C!PollThread
    <3>1. C!Answer \in C!View
      BY HowMany DEF C!Answer, C!View, C!Agreed
    <3>2. seen = "cancelled" => ~C!Answer.agreed
      BY DEF C!Answer, C!Agreed, C!Named, ShutForGood
    <3>3. seen \in C!Status \ {"over"} /\ "cancelled" \in C!Status \ {"over"} /\ thread' = [thread EXCEPT ![seen] = C!Answer]
      BY <2>1 DEF C!PollThread, C!KeyOf, C!TypeOK, C!Status
    <3>4. thread \in [C!Status \ {"over"} -> C!View] /\ ~thread["cancelled"].agreed
      BY DEF C!TypeOK, ShutForGood
    <3> HIDE DEF ConversationInv
    <3> QED
      BY <3>1, <3>2, <3>3, <3>4
  <2>2. CASE C!PollBooking
    <3>1. C!Unasked \in C!View /\ ~C!Unasked.agreed
      BY Bounds DEF C!Unasked, C!View
    <3>2. /\ seen \in C!Status \ {"over"} /\ "cancelled" \in C!Status \ {"over"}
          /\ thread' = thread \/ thread' = [thread EXCEPT ![seen] = C!Unasked]
      BY <2>2 DEF C!PollBooking, C!KeyOf, C!TypeOK, C!Status
    <3>3. thread \in [C!Status \ {"over"} -> C!View] /\ ~thread["cancelled"].agreed
      BY DEF C!TypeOK, ShutForGood
    <3> HIDE DEF ConversationInv
    <3> QED
      BY <3>1, <3>2, <3>3
  <2>3. CASE C!OpenThread \/ C!Leave
    BY <2>3 DEF C!OpenThread, C!Leave, C!TypeOK, ShutForGood
  <2> QED
    BY <2>1, <2>2, <2>3
<1>3. seen' \in C!Status \ {"over"} /\ (seen' = "cancelled" => status = "cancelled")
  <2>1. C!Named \in C!Status \ {"over"} /\ (C!Named = "cancelled" => status = "cancelled")
    BY DEF C!Named, C!TypeOK, C!Status
  <2>2. seen' \in {seen, C!Named}
    BY DEF C!PollThread, C!PollBooking, C!OpenThread, C!Leave
  <2> QED
    BY <2>1, <2>2 DEF C!TypeOK, ShutForGood
<1>4. C!TypeOK'
  BY <1>1, <1>2, <1>3, HowMany DEF C!TypeOK, C!booking
<1>5. ShutForGood'
  <2>1. status' = status
    BY <1>1 DEF C!booking
  <2>2. closedHere' => closedHere
    BY <1>1
  <2>3. C!OpenForMessages' = C!OpenForMessages
    BY <2>1 DEF C!OpenForMessages
  <2> QED
    BY <1>2, <1>3, <2>1, <2>2, <2>3 DEF ShutForGood
<1> QED
  BY <1>4, <1>5

\* The booking ends, messages come, and people block each other.
LEMMA OthersKeep ==
  ASSUME ConversationInv, C!Server \/ C!Block \/ C!Unblock
  PROVE  ConversationInv'
<1> USE DEF ConversationInv
<1>1. /\ UNCHANGED <<readTo, open, seen, thread, C!composer, left>> /\ known' \in BOOLEAN
      /\ blocked' \subseteq {"me", "them"}
  BY DEF C!Server, C!Move, C!TheyWrite, C!TheyBlock, C!Block, C!Unblock, C!booking, C!page, C!TypeOK
<1>2. status' \in C!Status /\ (status \in {"cancelled", "over"} => status' = status)
  BY DEF C!Server, C!Move, C!Moves, C!TheyWrite, C!TheyBlock, C!Block, C!Unblock, C!booking, C!TypeOK, C!Status
<1>3. msgs' \in C!BoundedSeq([mine: BOOLEAN, kind: C!Kind], MaxMsg)
  <2>1. CASE \E x \in Text : C!TheyWrite(x)
    BY <2>1, Adding DEF C!TheyWrite
  <2>2. CASE ~\E x \in Text : C!TheyWrite(x)
    BY <2>2 DEF C!Server, C!Move, C!TheyBlock, C!Block, C!Unblock, C!TypeOK
  <2> QED
    BY <2>1, <2>2
<1>4. C!TypeOK'
  BY <1>1, <1>2, <1>3 DEF C!TypeOK, C!composer
<1>5. ShutForGood'
  BY <1>1, <1>2 DEF ShutForGood, C!OpenForMessages, C!composer
<1> QED
  BY <1>4, <1>5

\* A message is typed, sent and answered.
LEMMA WritesKeep ==
  ASSUME ConversationInv, C!Writes
  PROVE  ConversationInv'
<1> USE DEF ConversationInv
<1>1. /\ UNCHANGED <<C!booking, readTo, C!page>>
      /\ draft' \in Text \cup {C!None} /\ sending' \in Text \cup {C!None} /\ kept' \in Text \cup {C!None}
      /\ made' \in BOOLEAN /\ refusedHere' \in BOOLEAN /\ closedHere' \in BOOLEAN /\ left' \subseteq left
  BY DEF C!Writes, C!Type, C!Send, C!Sent, C!RefusedAsBlocked, C!RefusedAsClosed, C!Sorry, C!LeftSettles, C!Idle, C!TypeOK
<1>4. closedHere' => closedHere \/ ~C!OpenForMessages
  BY DEF C!Writes, C!Type, C!Send, C!Sent, C!RefusedAsBlocked, C!RefusedAsClosed, C!Sorry, C!LeftSettles
<1>2. msgs' \in C!BoundedSeq([mine: BOOLEAN, kind: C!Kind], MaxMsg)
  <2>1. ASSUME C!Sent \/ C!Sorry, msgs' # msgs PROVE sending \in Text /\ C!Room /\ C!Add(TRUE, sending)
    BY <2>1 DEF C!Sent, C!Sorry, C!TypeOK
  <2>2. ASSUME NEW x \in left, C!LeftSettles(x), msgs' # msgs PROVE x \in Text /\ C!Room /\ C!Add(TRUE, x)
    BY <2>2 DEF C!LeftSettles, C!TypeOK
  <2>3. ASSUME ~(C!Sent \/ C!Sorry), ~\E x \in left : C!LeftSettles(x) PROVE msgs' = msgs
    BY <2>3 DEF C!Writes, C!Type, C!Send, C!RefusedAsBlocked, C!RefusedAsClosed
  <2> QED
    BY <2>1, <2>2, <2>3, Adding DEF C!TypeOK
<1>3. C!TypeOK'
  BY <1>1, <1>2 DEF C!TypeOK, C!booking, C!page
<1>5. ShutForGood'
  BY <1>1, <1>4 DEF ShutForGood, C!OpenForMessages, C!booking, C!page
<1> QED
  BY <1>3, <1>5

\* Any step keeps it.
LEMMA ConversationNext ==
  ASSUME ConversationInv, [C!Next]_(C!vars)
  PROVE  ConversationInv'
<1>1. CASE UNCHANGED C!vars
  BY <1>1 DEF C!vars, C!booking, C!page, C!composer, ConversationInv, C!TypeOK, ShutForGood, C!OpenForMessages
<1> QED
  BY <1>1, PollKeeps, OthersKeep, WritesKeep DEF C!Next, C!Polls

\* A conversation closed on the page is one the server refuses for good, and nothing on it is bare that
\* was masked before.
LEMMA ClosedAndHidden == ConversationInv => C!ClosedForGood /\ C!HiddenWhenShut
BY DEF ConversationInv, ShutForGood, C!ClosedForGood, C!HiddenWhenShut, C!Closed, C!OpenForMessages, C!Shown, C!KeyOf

---------------------------------------------------------------------------
(* Signing in and out of an account.                                       *)

\* A submission is at most a code and the sign-in after it.
CallsAreFew == call \in Seq(A!Op \X Email) /\ Len(call) <= 2

\* Inside, one is on the page one wanted and nothing is under way; outside, on one of two pages, of
\* which the form, and whatever was sent from it, leads where one wanted to go.
LeadsBack ==
    /\ A!Inside => accountPage = wanted /\ accountPage \in A!Page /\ call = <<>>
    /\ ~A!Inside => accountPage \in {"/login", "/welcome"} /\ deleting = "no"
    /\ ~A!Inside /\ (accountPage = "/login" \/ A!Busy) => next = wanted

AccountInv == A!TypeOK /\ CallsAreFew /\ LeadsBack

---------------------------------------------------------------------------
\* What a submission consists of.
LEMMA CallsAreCalls == ASSUME A!TypeOK PROVE A!Calls \in Seq(A!Op \X Email) /\ Len(A!Calls) <= 2 /\ \A i \in 1 .. Len(A!Calls) : A!Calls[i] \in A!Op \X Email
<1> DEFINE S == A!Op \X Email
<1>1. \A x \in A!Op : <<x, email>> \in S
  BY DEF A!TypeOK
<1>2. \A x \in S : <<x>> \in Seq(S) /\ Len(<<x>>) = 1
  OBVIOUS
<1>3. \A x, y \in S : <<x, y>> \in Seq(S) /\ Len(<<x, y>>) = 2
  OBVIOUS
<1>4. {"signIn", "signUp", "confirm", "forgot", "reset", "resend", "mfa"} = A!Op
  BY DEF A!Op
<1> HIDE DEF S
<1>5. A!Calls \in Seq(S) /\ Len(A!Calls) <= 2
  BY <1>1, <1>2, <1>3, <1>4 DEF A!Calls, A!Mode, A!TypeOK
<1>6. \A i \in 1 .. Len(A!Calls) : A!Calls[i] \in S
  BY <1>5
<1> QED
  BY <1>5, <1>6 DEF S

\* The call answered first.
LEMMA FirstCall == ASSUME AccountInv, A!Busy PROVE A!op \in A!Op /\ A!who \in Email /\ ~A!Inside
<1>1. call \in Seq(A!Op \X Email) /\ call # <<>>
  BY DEF AccountInv, CallsAreFew, A!Busy
<1>2. Head(call) \in A!Op \X Email
  BY <1>1
<1> QED
  BY <1>1, <1>2 DEF A!op, A!who, AccountInv, LeadsBack, A!Inside

\* What is left of a submission.
LEMMA LastCall == ASSUME AccountInv, A!Busy PROVE Tail(call) \in Seq(A!Op \X Email) /\ Len(Tail(call)) <= 2 /\ \A i \in 1 .. Len(Tail(call)) : Tail(call)[i] \in A!Op \X Email
<1> DEFINE S == A!Op \X Email
<1>1. call \in Seq(S) /\ call # <<>> /\ Len(call) <= 2
  BY DEF AccountInv, CallsAreFew, A!Busy
<1> HIDE DEF S
<1>2. Tail(call) \in Seq(S) /\ Len(Tail(call)) <= 2
  BY <1>1
<1>3. \A i \in 1 .. Len(Tail(call)) : Tail(call)[i] \in S
  BY <1>2
<1> QED
  BY <1>2, <1>3 DEF S

\* It holds at first.
LEMMA AccountBegins == A!Init => AccountInv
<1> SUFFICES ASSUME A!Init PROVE AccountInv
  OBVIOUS
<1>1. A!TypeOK
  <2>1. login \in [Email -> {"none", "unconfirmed", "confirmed"}] /\ profile \in [Email -> {"none", "there"}]
    BY DEF A!Init
  <2>2. Len(call) <= 2 /\ \A i \in 1 .. Len(call) : call[i] \in A!Op \X Email
    BY DEF A!Init
  <2>3. code \in BOOLEAN /\ cooldown \in BOOLEAN
    BY Zenon DEF A!Init
  <2>4. wanted \in A!Page /\ next \in A!Page /\ accountPage = "/login" /\ mode \in A!Mode
    BY DEF A!Init, A!Page, A!Mode
  <2> QED
    BY <2>1, <2>2, <2>3, <2>4, Bounds DEF A!Init, A!TypeOK
<1>2. CallsAreFew /\ LeadsBack
  BY DEF A!Init, CallsAreFew, LeadsBack, A!Inside, A!Busy
<1> QED
  BY <1>1, <1>2 DEF AccountInv

\* The form changes nothing but what it shows and what it sends.
LEMMA FormKeeps ==
  ASSUME AccountInv,
         \/ (\E e \in Email : A!Type(e)) \/ (\E m \in A!Mode : A!Go(m)) \/ A!Submit \/ A!TypeCode \/ A!EraseCode \/ A!SendCode \/ A!MayAsk
  PROVE  AccountInv'
<1>1. UNCHANGED <<A!pool, session, pending, accountPage, next, deleting, wanted>>
  BY DEF A!Type, A!Go, A!Submit, A!TypeCode, A!EraseCode, A!SendCode, A!MayAsk, A!form
<1>2. mode' \in A!Mode /\ email' \in Email /\ {code', cooldown'} \subseteq BOOLEAN
  BY DEF A!Type, A!Go, A!To, A!Submit, A!TypeCode, A!EraseCode, A!SendCode, A!MayAsk, A!form, AccountInv, A!TypeOK
<1>3. \/ UNCHANGED <<call, tries>>
      \/ A!OnForm /\ call' = A!Calls /\ tries < MaxTry /\ tries' = tries + 1
  BY DEF A!Type, A!Go, A!Submit, A!TypeCode, A!EraseCode, A!SendCode, A!MayAsk, A!Press
<1>4. call' \in Seq(A!Op \X Email) /\ Len(call') <= 2 /\ \A i \in 1 .. Len(call') : call'[i] \in A!Op \X Email
  BY <1>3, CallsAreCalls DEF AccountInv, CallsAreFew, A!TypeOK
<1>5. tries' \in 0 .. MaxTry
  BY <1>3, Bounds DEF AccountInv, A!TypeOK
<1>6. A!TypeOK'
  BY <1>1, <1>2, <1>4, <1>5 DEF AccountInv, A!TypeOK, A!pool
<1>7. LeadsBack'
  BY <1>1, <1>3 DEF AccountInv, LeadsBack, A!OnForm, A!Inside, A!Busy
<1> QED
  BY <1>4, <1>6, <1>7 DEF AccountInv, CallsAreFew

\* An answer leads inside, on to the next step, or to a message.
LEMMA AnswersKeep == ASSUME AccountInv, A!Answers PROVE AccountInv'
<1>1. A!Busy /\ UNCHANGED <<deleting, tries, next, wanted>>
  BY DEF A!Answers, A!AnswerSignIn, A!AnswerMfa, A!AnswerSignUp, A!AnswerMailed, A!AnswerCode, A!Fail, A!SignedIn, A!Step, A!Proceed
<1>2. A!op \in A!Op /\ A!who \in Email /\ ~A!Inside /\ <<"resend", A!who>> \in A!Op \X Email
  BY <1>1, FirstCall DEF A!Op
<1>3. \/ UNCHANGED <<session, accountPage>>
      \/ session' \in Email /\ accountPage' = next /\ call' = <<>>
  BY <1>2 DEF A!Answers, A!AnswerSignIn, A!AnswerMfa, A!AnswerSignUp, A!AnswerMailed, A!AnswerCode, A!Fail, A!SignedIn, A!Step, A!Proceed, AccountInv, A!TypeOK
<1>4. call' \in {<<>>, <<<<"resend", A!who>>>>, Tail(call)}
  BY DEF A!Answers, A!AnswerSignIn, A!AnswerMfa, A!AnswerSignUp, A!AnswerMailed, A!AnswerCode, A!Fail, A!Proceed
<1>5. call' \in Seq(A!Op \X Email) /\ Len(call') <= 2 /\ \A i \in 1 .. Len(call') : call'[i] \in A!Op \X Email
  <2>1. CASE call' = <<>>
    BY <2>1
  <2>2. CASE call' = <<<<"resend", A!who>>>>
    BY <1>2, <2>2
  <2>3. CASE call' = Tail(call)
    BY <1>1, <2>3, LastCall
  <2> QED
    BY <1>4, <2>1, <2>2, <2>3
<1>6. mode' \in A!Mode /\ email' \in Email /\ {code', cooldown'} \subseteq BOOLEAN
  BY DEF A!Answers, A!AnswerSignIn, A!AnswerMfa, A!AnswerSignUp, A!AnswerMailed, A!AnswerCode, A!Fail, A!SignedIn, A!Step, A!To, A!Fresh, A!form, A!Mode, AccountInv, A!TypeOK
<1>7. /\ login' \in [Email -> {"none", "unconfirmed", "confirmed"}] /\ UNCHANGED <<profile, leaving>>
      /\ pending' \in Email \cup {A!None}
  BY <1>2 DEF A!Answers, A!AnswerSignIn, A!AnswerMfa, A!AnswerSignUp, A!AnswerMailed, A!AnswerCode, A!Fail, A!SignedIn, A!Step, A!pool, AccountInv, A!TypeOK
<1>8. A!TypeOK'
  BY <1>1, <1>3, <1>5, <1>6, <1>7 DEF AccountInv, A!TypeOK
<1>9. LeadsBack'
  BY <1>1, <1>2, <1>3, NobodySignsIn DEF AccountInv, A!TypeOK, LeadsBack, A!Inside, A!Busy
<1> QED
  BY <1>5, <1>8, <1>9 DEF AccountInv, CallsAreFew

\* From the form to the welcome and back, and all that is done inside.
LEMMA PagesKeep ==
  ASSUME AccountInv, \/ A!Back \/ (\E m \in {"in", "up"} : A!Enter(m)) \/ (\E p \in A!Page : A!Onboard(p) \/ A!Visit(p)) \/ A!Ended \/ A!SignOut
  PROVE  AccountInv'
<1>1. UNCHANGED <<login, leaving, pending, call, deleting, tries>>
  BY DEF A!Back, A!Enter, A!Onboard, A!Visit, A!Ended, A!SignOut, A!pool
<1>2. mode' \in A!Mode /\ email' \in Email /\ {code', cooldown'} \subseteq BOOLEAN
  BY DEF A!Back, A!Enter, A!Onboard, A!Visit, A!Ended, A!SignOut, A!Out, A!Fresh, A!form, A!Mode, AccountInv, A!TypeOK
<1>3. session' \in {session, A!None} /\ profile' \in [Email -> {"none", "there"}]
  BY DEF A!Back, A!Enter, A!Onboard, A!Visit, A!Ended, A!SignOut, A!Out, A!pool, AccountInv, A!TypeOK
<1>4. accountPage' \in A!Page \cup {"/welcome", "/login"} /\ next' \in A!Page /\ wanted' \in A!Page
  BY DEF A!Back, A!Enter, A!Onboard, A!Visit, A!Ended, A!SignOut, A!Gated, A!Page, AccountInv, A!TypeOK, LeadsBack
<1>5. A!TypeOK'
  BY <1>1, <1>2, <1>3, <1>4 DEF AccountInv, A!TypeOK
<1>6. LeadsBack'
  <2>1. CASE A!Back \/ (\E m \in {"in", "up"} : A!Enter(m))
    BY <1>1, <2>1 DEF A!Back, A!Enter, A!OnForm, A!Busy, A!Inside, AccountInv, LeadsBack
  <2>2. CASE \E p \in A!Page : A!Onboard(p) \/ A!Visit(p)
    BY <1>1, <2>2 DEF A!Onboard, A!Visit, A!Busy, A!Inside, AccountInv, LeadsBack
  <2>3. CASE A!Ended \/ A!SignOut
    BY <1>1, <2>3 DEF A!Ended, A!SignOut, A!Out, A!Gated, A!Busy, A!Inside, AccountInv, LeadsBack
  <2> QED
    BY <2>1, <2>2, <2>3
<1> QED
  BY <1>1, <1>5, <1>6 DEF AccountInv, CallsAreFew

\* An account is deleted.
LEMMA DeletingKeeps ==
  ASSUME AccountInv, A!AskDelete \/ A!Forget \/ A!Refuse \/ (\E gone \in BOOLEAN : A!Leave(gone)) \/ \E e \in Email : A!HearDeleted(e)
  PROVE  AccountInv'
<1>1. deleting # "no" => A!Inside /\ session \in Email
  BY DEF AccountInv, A!TypeOK, LeadsBack, A!Inside
<1>2. /\ login' \in [Email -> {"none", "unconfirmed", "confirmed"}]
      /\ profile' \in [Email -> {"none", "there"}] /\ leaving' \subseteq Email
  BY <1>1 DEF A!AskDelete, A!Forget, A!Refuse, A!Leave, A!HearDeleted, A!pool, AccountInv, A!TypeOK
<1>3. /\ UNCHANGED <<pending, call, tries>> /\ deleting' \in {"no", "asked", "forgotten"}
      /\ mode' \in A!Mode /\ email' \in Email /\ {code', cooldown'} \subseteq BOOLEAN
  BY DEF A!AskDelete, A!Forget, A!Refuse, A!Leave, A!HearDeleted, A!Out, A!Fresh, A!form, A!Mode, AccountInv, A!TypeOK
<1>4. \/ UNCHANGED <<session, accountPage, next, wanted>> /\ (A!Inside \/ deleting' = deleting)
      \/ session' = A!None /\ accountPage' = "/login" /\ next' = "/" /\ wanted' = "/" /\ deleting' = "no"
  BY <1>1 DEF A!AskDelete, A!Forget, A!Refuse, A!Leave, A!HearDeleted, A!Out, A!Gated
<1>5. A!TypeOK'
  BY <1>2, <1>3, <1>4 DEF AccountInv, A!TypeOK, A!Page
<1>6. LeadsBack'
  BY <1>3, <1>4 DEF AccountInv, LeadsBack, A!Inside, A!Busy
<1> QED
  BY <1>3, <1>5, <1>6 DEF AccountInv, CallsAreFew

\* Any step keeps it.
LEMMA AccountNext ==
  ASSUME AccountInv, [A!Next]_(A!vars)
  PROVE  AccountInv'
<1>1. CASE UNCHANGED A!vars
  BY <1>1 DEF A!vars, A!pool, A!form, AccountInv, A!TypeOK, CallsAreFew, LeadsBack, A!Inside, A!Busy
<1> QED
  BY <1>1, FormKeeps, AnswersKeep, PagesKeep, DeletingKeeps DEF A!Next

\* Inside, one is on the page one wanted.
LEMMA BackWhereOneWas == AccountInv => A!ReturnsToPage
BY DEF AccountInv, LeadsBack, A!ReturnsToPage

---------------------------------------------------------------------------
(* The phone.                                                              *)

\* A row that is not of somebody who left it open is of who is signed in, whose token is kept, and so
\* is each registration on its way.
LooseOrTheirs ==
    /\ row # D!Nobody /\ row \notin loose => row = who /\ phoneKept
    /\ \A p \in phonePosts : p = who \/ p \in loose
    /\ phoneLeaving # "no" => who # D!Nobody

DevicesInv == D!TypeOK /\ LooseOrTheirs

---------------------------------------------------------------------------
\* It holds at first.
LEMMA DevicesBegin == D!Init => DevicesInv
<1> SUFFICES ASSUME D!Init PROVE DevicesInv
  OBVIOUS
<1>1. D!TypeOK
  <2>1. asked \in BOOLEAN /\ sheet \in BOOLEAN /\ registered \in BOOLEAN /\ due \in BOOLEAN /\ phoneKept \in BOOLEAN
    BY Zenon DEF D!Init
  <2> QED
    BY <2>1, Bounds DEF D!Init, D!TypeOK
<1>2. LooseOrTheirs
  BY DEF D!Init, LooseOrTheirs
<1> QED
  BY <1>1, <1>2 DEF DevicesInv

\* A session begins, and what the phone and its owner say to the app's question.
LEMMA QuestionsKeep ==
  ASSUME DevicesInv,
         \/ (\E p \in Email : D!SignIn(p)) \/ D!Restart \/ D!AskForPush \/ D!NotNow \/ D!Settings
         \/ (\E a \in {"granted", "denied"} : D!TurnOn(a)) \/ D!Removing \/ (\E all \in BOOLEAN : D!SignOut(all))
  PROVE  DevicesInv'
<1>1. UNCHANGED <<phonePosts, phoneKept, loose>> /\ row' \in {row, D!Nobody}
  BY DEF D!Cleared, D!SignIn, D!Restart, D!AskForPush, D!NotNow, D!Settings, D!TurnOn, D!Removing, D!SignOut, D!Begin
<1>6. who' = who \/ (who = D!Nobody /\ phoneLeaving' = phoneLeaving /\ who' \in Email)
  BY DEF D!SignIn, D!Restart, D!AskForPush, D!NotNow, D!Settings, D!TurnOn, D!Removing, D!SignOut, D!Begin
<1>7. phoneLeaving' # "no" => who' # D!Nobody
  <2>1. phoneLeaving' # "no" => phoneLeaving # "no" \/ (who # D!Nobody /\ who' = who)
    BY DEF D!SignIn, D!Restart, D!AskForPush, D!NotNow, D!Settings, D!TurnOn, D!Removing, D!SignOut
  <2> QED
    BY <1>6, <2>1, NobodySignsIn DEF DevicesInv, LooseOrTheirs
<1>2. /\ perm' \in {"prompt", "granted", "denied"} /\ {asked', sheet', registered', due'} \subseteq BOOLEAN
      /\ ends' \subseteq Email /\ missed' \subseteq Email /\ phoneLeaving' \in {"no", "asked", "removing"}
  BY DEF D!SignIn, D!Restart, D!AskForPush, D!NotNow, D!Settings, D!TurnOn, D!Removing, D!SignOut, D!Begin, D!EnablePush, DevicesInv, D!TypeOK
<1>3. runs' \in 0 .. MaxRun
  <2>1. runs' = runs \/ (runs < MaxRun /\ runs' = runs + 1)
    BY DEF D!SignIn, D!Restart, D!AskForPush, D!NotNow, D!Settings, D!TurnOn, D!Removing, D!SignOut, D!Begin
  <2> QED
    BY <2>1, Bounds DEF DevicesInv, D!TypeOK
<1>4. D!TypeOK'
  BY <1>1, <1>2, <1>3, <1>6 DEF DevicesInv, D!TypeOK
<1>5. LooseOrTheirs'
  BY <1>1, <1>6, <1>7, NobodySignsIn DEF DevicesInv, LooseOrTheirs, D!TypeOK
<1> QED
  BY <1>4, <1>5 DEF DevicesInv

\* A registration is sent, comes to the server, or does not.
LEMMA RegistrationsKeep ==
  ASSUME DevicesInv,
         D!Registration \/ \E p \in Email : D!Drop(p) \/ \E heard \in BOOLEAN : D!Land(p, heard)
  PROVE  DevicesInv'
<1>1. CASE D!Registration
  BY <1>1 DEF D!Registration, DevicesInv, D!TypeOK, LooseOrTheirs
<1>2. ASSUME NEW p \in Email, D!Drop(p) PROVE DevicesInv'
  BY <1>2 DEF D!Drop, DevicesInv, D!TypeOK, LooseOrTheirs
<1>3. ASSUME NEW p \in Email, NEW heard \in BOOLEAN, D!Land(p, heard) PROVE DevicesInv'
  <2>1. D!TypeOK'
    BY <1>3 DEF D!Land, DevicesInv, D!TypeOK
  <2>2. LooseOrTheirs'
    BY <1>3 DEF D!Land, DevicesInv, D!TypeOK, LooseOrTheirs
  <2> QED
    BY <2>1, <2>2 DEF DevicesInv
<1> QED
  BY <1>1, <1>2, <1>3

\* A session ends, here or elsewhere.
LEMMA EndsKeep ==
  ASSUME DevicesInv,
         \/ D!NothingKept \/ D!Removed \/ D!RemovalFails \/ D!Offline \/ (\E all \in BOOLEAN : D!Ended(all)) \/ \E p \in Email : D!HearEnd(p)
  PROVE  DevicesInv'
<1>1. D!Open \subseteq {who}
  BY DEF D!Open
<1>2. CASE D!NothingKept
  <2>1. D!TypeOK'
    BY <1>1, <1>2 DEF D!NothingKept, D!Forget, DevicesInv, D!TypeOK, LooseOrTheirs
  <2>2. LooseOrTheirs'
    BY <1>2 DEF D!NothingKept, D!Forget, D!Open, DevicesInv, D!TypeOK, LooseOrTheirs
  <2> QED
    BY <2>1, <2>2 DEF DevicesInv
<1>3. CASE D!Removed
  <2>1. D!TypeOK'
    BY <1>1, <1>3 DEF D!Removed, D!Cleared, D!Forget, DevicesInv, D!TypeOK, LooseOrTheirs
  <2>2. LooseOrTheirs'
    BY <1>3 DEF D!Removed, D!Cleared, D!Forget, D!Open, DevicesInv, D!TypeOK, LooseOrTheirs
  <2> QED
    BY <2>1, <2>2 DEF DevicesInv
<1>4. CASE D!RemovalFails \/ D!Offline \/ \E all \in BOOLEAN : D!Ended(all)
  <2>1. D!TypeOK'
    BY <1>4 DEF D!RemovalFails, D!Offline, D!Ended, D!Cleared, D!Forget, DevicesInv, D!TypeOK, LooseOrTheirs
  <2>2. LooseOrTheirs'
    BY <1>4 DEF D!RemovalFails, D!Offline, D!Ended, D!Cleared, D!Forget, DevicesInv, D!TypeOK, LooseOrTheirs
  <2> QED
    BY <2>1, <2>2 DEF DevicesInv
<1>5. CASE \E p \in Email : D!HearEnd(p)
  BY <1>5 DEF D!HearEnd, DevicesInv, D!TypeOK, LooseOrTheirs
<1> QED
  BY <1>2, <1>3, <1>4, <1>5

\* Any step keeps it.
LEMMA DevicesNext ==
  ASSUME DevicesInv, [D!Next]_(D!vars)
  PROVE  DevicesInv'
<1>1. CASE UNCHANGED D!vars
  BY <1>1 DEF D!vars, DevicesInv, D!TypeOK, LooseOrTheirs
<1> QED
  BY <1>1, QuestionsKeep, RegistrationsKeep, EndsKeep DEF D!Next, D!Phone

\* The phone is of who is signed in on it, or of somebody who left it open.
LEMMA RowIsTheirs == DevicesInv => D!OnlyTheirs
BY DEF DevicesInv, LooseOrTheirs, D!OnlyTheirs

---------------------------------------------------------------------------
(* Two-step sign-in.                                                       *)

\* A code is of a secret that the app has, and with the answer to it so is the secret verified.
CodesAreHeld ==
    /\ \A c \in calls : c.kind \in {"verify", "prefer"} => c.secret \in app
    /\ \A c \in calls : c.kind = "prefer" => verified # T!None
    /\ verified # T!None => verified \in app
    /\ on => verified # T!None

\* A form that shows a secret, or may come to show it again, has one.
FormsShow ==
    /\ \A t \in Tab : form[t] \in {"shown", "checking"} => shown[t] # T!None
    /\ \A c \in calls : c.live /\ c.kind \in {"verify", "prefer"} => shown[c.tab] # T!None

TotpInv == T!TypeOK /\ CodesAreHeld /\ FormsShow

Call == [tab : Tab, kind : {"associate", "verify", "prefer"}, secret : T!Secret \cup {T!None}, live : BOOLEAN]

\* A call as it was before tab t asked for the reports again.
Kept(t, d, c) == d.kind = c.kind /\ d.secret = c.secret /\ d.tab = c.tab /\ (d.live => c.live /\ c.tab # t)

---------------------------------------------------------------------------
\* It holds at first.
LEMMA TotpBegins == T!Init => TotpInv
BY DEF T!Init, TotpInv, T!TypeOK, CodesAreHeld, FormsShow

\* Another secret's number.
LEMMA NextSecret == ASSUME T!TypeOK, setupMade < MaxSecret PROVE setupMade + 1 \in T!Secret
BY Bounds DEF T!TypeOK, T!Secret, T!None

\* A call with its form gone, or with its other kind, is the same call otherwise.
LEMMA SameCall ==
  ASSUME NEW c \in Call, NEW live \in BOOLEAN
  PROVE  /\ [c EXCEPT !.live = live] \in Call
         /\ [c EXCEPT !.live = live].kind = c.kind /\ [c EXCEPT !.live = live].secret = c.secret
         /\ [c EXCEPT !.live = live].live = live /\ [c EXCEPT !.live = live].tab = c.tab
         /\ [c EXCEPT !.kind = "prefer"] \in Call
         /\ [c EXCEPT !.kind = "prefer"].kind = "prefer" /\ [c EXCEPT !.kind = "prefer"].secret = c.secret
         /\ [c EXCEPT !.kind = "prefer"].tab = c.tab /\ [c EXCEPT !.kind = "prefer"].live = c.live
BY DEF Call

\* Where the reports are asked for again, fewer calls have their form.
LEMMA AskingKeeps ==
  ASSUME T!TypeOK, NEW t \in Tab, NEW cs \in SUBSET calls, T!AsksAgain(t, cs)
  PROVE  /\ setupPage' \in [Tab -> {"asking", "setup", "open"}] /\ calls' \subseteq Call
         /\ form' \in [Tab -> {"idle", "starting", "shown", "checking"}] /\ shown' \in [Tab -> T!Secret \cup {T!None}]
         /\ \A d \in calls' : \E c \in cs : Kept(t, d, c)
<1>1. cs \subseteq Call
  BY DEF T!TypeOK, Call
<1>2. ASSUME NEW d \in calls' PROVE d \in Call /\ \E c \in cs : Kept(t, d, c)
  <2>1. PICK c \in cs : d = [c EXCEPT !.live = c.live /\ c.tab # t]
    BY <1>2 DEF T!AsksAgain
  <2>2. c \in Call /\ (c.live /\ c.tab # t) \in BOOLEAN
    BY <1>1
  <2>3. \E live \in BOOLEAN : d = [c EXCEPT !.live = live] /\ (live => c.live /\ c.tab # t)
    BY <2>1, <2>2, Zenon
  <2>4. PICK live \in BOOLEAN : d = [c EXCEPT !.live = live] /\ (live => c.live /\ c.tab # t)
    BY <2>3
  <2>5. d \in Call /\ d.kind = c.kind /\ d.secret = c.secret /\ d.tab = c.tab
    BY <2>2, <2>4 DEF Call
  <2>6. d.live => live
    BY <2>2, <2>4 DEF Call
  <2> QED
    BY <2>4, <2>5, <2>6, Zenon DEF Kept
<1>3. /\ setupPage' \in [Tab -> {"asking", "setup", "open"}]
      /\ form' \in [Tab -> {"idle", "starting", "shown", "checking"}] /\ shown' \in [Tab -> T!Secret \cup {T!None}]
  BY DEF T!AsksAgain, T!TypeOK
<1> QED
  BY <1>2, <1>3

\* ... and on the others the forms show what they did.
LEMMA AskingForgets ==
  ASSUME TotpInv, NEW t \in Tab, NEW cs \in SUBSET calls, T!AsksAgain(t, cs),
         \A d \in calls' : \E c \in cs : Kept(t, d, c)
  PROVE  FormsShow'
<1>1. form' = [form EXCEPT ![t] = "idle"] /\ shown' = [shown EXCEPT ![t] = T!None]
  BY DEF T!AsksAgain
<1>2. \A x \in Tab : form'[x] \in {"shown", "checking"} => shown'[x] # T!None
  BY <1>1 DEF TotpInv, T!TypeOK, FormsShow
<1>3. ASSUME NEW d \in calls', d.live, d.kind \in {"verify", "prefer"} PROVE shown'[d.tab] # T!None
  <2>1. PICK c \in cs : Kept(t, d, c)
    OBVIOUS
  <2>2. c \in calls /\ c.tab # t /\ c.live /\ d.tab = c.tab /\ c.kind \in {"verify", "prefer"}
    BY <1>3, <2>1, Zenon DEF Kept
  <2>3. c.tab \in Tab
    BY <2>2 DEF TotpInv, T!TypeOK
  <2> QED
    BY <1>1, <2>2, <2>3 DEF TotpInv, T!TypeOK, FormsShow
<1> QED
  BY <1>2, <1>3 DEF FormsShow

\* What a tab does.
LEMMA TabsKeep ==
  ASSUME TotpInv, NEW t \in Tab, T!Answer(t) \/ T!Focus(t) \/ T!Start(t) \/ T!AddToApp(t) \/ \E s \in app : T!Confirm(t, s)
  PROVE  TotpInv'
<1> USE DEF TotpInv
<1>1. CASE T!Answer(t)
  BY <1>1 DEF T!Answer, T!cognito, T!TypeOK, CodesAreHeld, FormsShow
<1>2. CASE T!Focus(t)
  <2>1. T!AsksAgain(t, calls) /\ UNCHANGED <<T!cognito, app, cache>>
    BY <1>2 DEF T!Focus
  <2>2. /\ setupPage' \in [Tab -> {"asking", "setup", "open"}] /\ calls' \subseteq Call
        /\ form' \in [Tab -> {"idle", "starting", "shown", "checking"}] /\ shown' \in [Tab -> T!Secret \cup {T!None}]
        /\ \A d \in calls' : \E c \in calls : Kept(t, d, c)
    BY <2>1, AskingKeeps
  <2>3. T!TypeOK'
    BY <2>1, <2>2 DEF T!cognito, T!TypeOK, Call
  <2>4. CodesAreHeld'
    BY <2>1, <2>2 DEF T!cognito, CodesAreHeld, Kept
  <2>5. FormsShow'
    BY <2>1, <2>2, AskingForgets
  <2> QED
    BY <2>3, <2>4, <2>5
<1>3. CASE T!Start(t)
  <2> DEFINE k == [tab |-> t, kind |-> "associate", secret |-> T!None, live |-> TRUE]
  <2>1. k \in Call /\ k.kind = "associate" /\ calls' = calls \cup {k}
    BY <1>3 DEF T!Start, Call
  <2> HIDE DEF k
  <2>2. form' = [form EXCEPT ![t] = "starting"] /\ UNCHANGED <<setupPage, shown, setupMade, assoc, verified, on, app, cache>>
    BY <1>3 DEF T!Start, T!cognito
  <2>3. T!TypeOK'
    BY <2>1, <2>2 DEF T!TypeOK, Call
  <2>4. CodesAreHeld' /\ FormsShow'
    BY <2>1, <2>2 DEF T!TypeOK, CodesAreHeld, FormsShow
  <2> QED
    BY <2>3, <2>4
<1>4. CASE T!AddToApp(t)
  <2>1. shown[t] \in T!Secret
    BY <1>4 DEF T!AddToApp, T!TypeOK, FormsShow
  <2> QED
    BY <1>4, <2>1 DEF T!AddToApp, T!cognito, T!TypeOK, CodesAreHeld, FormsShow
<1>5. ASSUME NEW s \in app, T!Confirm(t, s) PROVE TotpInv'
  <2> DEFINE k == [tab |-> t, kind |-> "verify", secret |-> s, live |-> TRUE]
  <2>1. k \in Call /\ k.kind = "verify" /\ k.secret \in app /\ k.tab = t /\ calls' = calls \cup {k}
    BY <1>5 DEF T!Confirm, Call, T!TypeOK
  <2> HIDE DEF k
  <2>2. /\ form' = [form EXCEPT ![t] = "checking"] /\ shown[t] # T!None
        /\ UNCHANGED <<setupPage, shown, setupMade, assoc, verified, on, app, cache>>
    BY <1>5 DEF T!Confirm, T!cognito, FormsShow
  <2>3. T!TypeOK'
    BY <2>1, <2>2 DEF T!TypeOK, Call
  <2>4. CodesAreHeld' /\ FormsShow'
    BY <2>1, <2>2 DEF T!TypeOK, CodesAreHeld, FormsShow
  <2> QED
    BY <2>3, <2>4
<1> QED
  BY <1>1, <1>2, <1>3, <1>4, <1>5

\* What Cognito answers.
LEMMA CognitoKeeps ==
  ASSUME TotpInv, NEW c \in calls, T!Associate(c) \/ T!Verify(c) \/ T!Prefer(c) \/ T!Fails(c)
  PROVE  TotpInv'
<1> USE DEF TotpInv
<1>1. c \in Call /\ calls \subseteq Call /\ c.tab \in Tab
  BY DEF T!TypeOK, Call
<1>2. CASE T!Associate(c)
  <2>1. setupMade + 1 \in T!Secret
    BY <1>2, NextSecret DEF T!Associate
  <2>2. T!TypeOK'
    BY <1>1, <1>2, <2>1 DEF T!Associate, T!TypeOK
  <2>3. CodesAreHeld'
    BY <1>2 DEF T!Associate, CodesAreHeld
  <2>4. setupMade + 1 # T!None
    BY <2>1, Bounds DEF T!Secret, T!None
  <2>5. FormsShow'
    BY <1>1, <1>2, <2>4 DEF T!Associate, FormsShow, T!TypeOK
  <2> QED
    BY <2>2, <2>3, <2>5
<1>3. T!Sorry(c) => form' \in [Tab -> {"idle", "starting", "shown", "checking"}]
  BY <1>1 DEF T!Sorry, T!TypeOK
<1>7. ASSUME T!Sorry(c), UNCHANGED shown, calls' = calls \ {c} PROVE FormsShow'
  BY <1>1, <1>7 DEF T!Sorry, T!TypeOK, FormsShow
<1>4. CASE T!Verify(c)
  <2>1. CASE c.secret = assoc
    <3>1. /\ verified' = c.secret /\ calls' = (calls \ {c}) \cup {[c EXCEPT !.kind = "prefer"]} /\ form' = form
          /\ c.secret \in app /\ UNCHANGED <<setupPage, shown, setupMade, assoc, on, app, cache>>
      BY <1>4, <2>1 DEF T!Verify, CodesAreHeld
    <3>2. /\ [c EXCEPT !.kind = "prefer"] \in Call /\ [c EXCEPT !.kind = "prefer"].secret = c.secret
          /\ [c EXCEPT !.kind = "prefer"].tab = c.tab /\ [c EXCEPT !.kind = "prefer"].live = c.live
      BY <1>1, SameCall
    <3>3. c.secret \in T!Secret /\ c.secret # T!None
      BY <3>1, Bounds DEF T!TypeOK, T!Secret, T!None
    <3>4. T!TypeOK'
      BY <1>1, <3>1, <3>2, <3>3 DEF T!TypeOK, Call
    <3>5. CodesAreHeld'
      BY <3>1, <3>2, <3>3 DEF CodesAreHeld
    <3>6. FormsShow'
      BY <1>4, <3>1, <3>2 DEF FormsShow, T!Verify
    <3> QED
      BY <3>4, <3>5, <3>6
  <2>2. CASE c.secret # assoc
    <3>1. T!Sorry(c) /\ calls' = calls \ {c} /\ UNCHANGED <<setupPage, shown, setupMade, assoc, verified, on, app, cache>>
      BY <1>4, <2>2 DEF T!Verify
    <3> QED
      BY <1>3, <1>7, <3>1 DEF T!TypeOK, CodesAreHeld
  <2> QED
    BY <2>1, <2>2
<1>5. CASE T!Prefer(c)
  <2>1. T!AsksAgain(c.tab, calls \ {c}) /\ on' = TRUE /\ c.kind = "prefer" /\ UNCHANGED <<setupMade, assoc, verified, app, cache>>
    BY <1>5 DEF T!Prefer
  <2>2. /\ setupPage' \in [Tab -> {"asking", "setup", "open"}] /\ calls' \subseteq Call
        /\ form' \in [Tab -> {"idle", "starting", "shown", "checking"}] /\ shown' \in [Tab -> T!Secret \cup {T!None}]
        /\ \A d \in calls' : \E x \in calls \ {c} : Kept(c.tab, d, x)
    <3>1. calls \ {c} \in SUBSET calls
      OBVIOUS
    <3> QED
      BY <1>1, <2>1, <3>1, AskingKeeps
  <2>3. T!TypeOK'
    BY <2>1, <2>2 DEF T!TypeOK, Call
  <2>4. CodesAreHeld'
    BY <2>1, <2>2 DEF CodesAreHeld, Kept
  <2>5. calls \ {c} \in SUBSET calls
    OBVIOUS
  <2>6. FormsShow'
    BY <1>1, <2>1, <2>2, <2>5, AskingForgets
  <2> QED
    BY <2>3, <2>4, <2>6
<1>6. CASE T!Fails(c)
  <2>1. T!Sorry(c) /\ calls' = calls \ {c} /\ UNCHANGED <<setupPage, shown, T!cognito, app, cache>>
    BY <1>6 DEF T!Fails
  <2> QED
    BY <1>3, <1>7, <2>1 DEF T!cognito, T!TypeOK, CodesAreHeld
<1> QED
  BY <1>2, <1>4, <1>5, <1>6

\* Any step keeps it.
LEMMA TotpNext ==
  ASSUME TotpInv, [T!Next]_(T!vars)
  PROVE  TotpInv'
<1>1. CASE UNCHANGED T!vars
  BY <1>1 DEF T!vars, TotpInv, T!TypeOK, CodesAreHeld, FormsShow
<1>2. CASE T!Expires
  BY <1>2 DEF T!Expires, T!cognito, TotpInv, T!TypeOK, CodesAreHeld, FormsShow
<1> QED
  BY <1>1, <1>2, TabsKeep, CognitoKeeps DEF T!Next

\* Two-step sign-in asks for codes of a secret the app has.
LEMMA HeldWhatIsAsked == TotpInv => T!AskedIsHeld
BY DEF TotpInv, CodesAreHeld, T!AskedIsHeld

---------------------------------------------------------------------------
(* The bell.                                                               *)

\* An answer under way counts no more than has come.
AnswersCount == timer \in BOOLEAN /\ fetch.n <= come

BellInv == N!TypeOK /\ AnswersCount

Slot == {N!Free} \cup [by : {"timer", "button"}, at : {"sent", "done", "failed"}]

---------------------------------------------------------------------------
\* The counts are numbers.
LEMMA BellCounts ==
  ASSUME BellInv
  PROVE  /\ come \in Nat /\ unread \in Nat /\ count \in Nat /\ fetch.n \in Nat /\ pressed \in Nat
         /\ MaxNote \in Nat /\ MaxMark \in Nat /\ MaxPress \in Nat
         /\ come <= MaxNote /\ unread <= come /\ count <= come /\ fetch.n <= come /\ pressed <= MaxPress
<1>1. MaxNote \in Nat /\ MaxMark \in Nat /\ MaxPress \in Nat
  BY Bounds
<1>2. fetch.n \in Nat
  <2>1. CASE fetch \in [at : {"none", "asked"}, n : {0}]
    BY <2>1
  <2>2. CASE fetch \in [at : {"read", "fresh"}, n : N!Note]
    BY <1>1, <2>2 DEF N!Note
  <2> QED
    BY <2>1, <2>2 DEF BellInv, N!TypeOK
<1> QED
  BY <1>1, <1>2 DEF BellInv, N!TypeOK, AnswersCount, N!Note

\* It holds at first.
LEMMA BellBegins == N!Init => BellInv
<1> SUFFICES ASSUME N!Init PROVE BellInv
  OBVIOUS
<1>1. MaxNote \in Nat /\ MaxPress \in Nat
  BY Bounds
<1>2. fetch \in [at : {"none", "asked"}, n : {0}] /\ fetch.n = 0
  BY DEF N!Init, N!NoFetch
<1>3. timer \in BOOLEAN /\ bellOpen \in BOOLEAN /\ failed \in BOOLEAN /\ marked \in BOOLEAN /\ slipped \in BOOLEAN /\ ~timer
  BY Zenon DEF N!Init
<1>4. marks \in [1 .. MaxMark -> {N!Free} \cup [by : {"timer", "button"}, at : {"sent", "done", "failed"}]]
  BY DEF N!Init
<1> QED
  BY <1>1, <1>2, <1>3, <1>4 DEF N!Init, BellInv, N!TypeOK, AnswersCount, N!Note

\* A request is sent where one is free.
LEMMA Sending ==
  ASSUME BellInv, NEW b \in {"timer", "button"}, N!Send(b)
  PROVE  marks' \in [1 .. MaxMark -> Slot]
<1>1. PICK i \in 1 .. MaxMark : marks' = [marks EXCEPT ![i] = [by |-> b, at |-> "sent"]]
  BY DEF N!Send
<1>2. [by |-> b, at |-> "sent"] \in Slot
  BY DEF Slot
<1> QED
  BY <1>1, <1>2 DEF BellInv, N!TypeOK, Slot

\* Notices come, and the count is asked for.
LEMMA CountsKeep == ASSUME BellInv, N!Notify \/ N!Poll \/ N!Read \/ N!Arrives PROVE BellInv'
<1> USE DEF BellInv
<1>1. CASE N!Notify
  <2>1. come' \in N!Note /\ unread' \in 0 .. come' /\ count' \in 0 .. come' /\ fetch'.n <= come'
    BY <1>1, BellCounts DEF N!Notify, N!Note
  <2> QED
    BY <1>1, <2>1 DEF N!Notify, N!TypeOK, AnswersCount
<1>2. CASE N!Poll
  <2>1. fetch' \in [at : {"none", "asked"}, n : {0}] /\ fetch'.n = 0
    BY <1>2 DEF N!Poll, N!Asked
  <2> QED
    BY <1>2, <2>1, BellCounts DEF N!Poll, N!server, N!ghosts, N!TypeOK, AnswersCount
<1>3. CASE N!Read
  <2>1. fetch' = [at |-> IF marked THEN "fresh" ELSE "read", n |-> unread]
    BY <1>3 DEF N!Read
  <2>2. unread \in N!Note /\ (IF marked THEN "fresh" ELSE "read") \in {"read", "fresh"}
    BY BellCounts DEF N!Note
  <2>3. fetch' \in [at : {"read", "fresh"}, n : N!Note] /\ fetch'.n = unread
    BY <2>1, <2>2
  <2> QED
    BY <1>3, <2>3, BellCounts DEF N!Read, N!server, N!ghosts, N!TypeOK, AnswersCount
<1>4. CASE N!Arrives
  <2>1. fetch' \in [at : {"none", "asked"}, n : {0}] /\ fetch'.n = 0
    BY <1>4 DEF N!Arrives, N!NoFetch
  <2>2. count' = fetch.n /\ count' \in 0 .. come
    BY <1>4, BellCounts DEF N!Arrives
  <2>3. timer' \in BOOLEAN /\ (timer' => bellOpen /\ count' > 0) /\ marked' \in BOOLEAN
    BY <1>4, <2>2 DEF N!Arrives, N!TypeOK, AnswersCount
  <2> QED
    BY <1>4, <2>1, <2>2, <2>3, BellCounts DEF N!Arrives, N!server, N!TypeOK, AnswersCount
<1> QED
  BY <1>1, <1>2, <1>3, <1>4

\* The page is opened and left, and marks what is on it.
LEMMA PageKeeps == ASSUME BellInv, N!Open \/ N!Leave \/ N!Fire \/ N!Press PROVE BellInv'
<1> USE DEF BellInv
<1>1. UNCHANGED <<come, unread, count, fetch, failed, marked, slipped>>
  BY DEF N!Open, N!Leave, N!Fire, N!Press, N!server, N!ghosts
<1>2. marks' \in [1 .. MaxMark -> Slot]
  <2>1. CASE N!Open \/ N!Leave
    BY <2>1 DEF N!Open, N!Leave, N!TypeOK, Slot
  <2>2. CASE N!Fire
    BY <2>2, Sending DEF N!Fire
  <2>3. CASE N!Press
    BY <2>3, Sending DEF N!Press
  <2> QED
    BY <2>1, <2>2, <2>3
<1>3. /\ bellOpen' \in BOOLEAN /\ timer' \in BOOLEAN /\ (timer' => bellOpen' /\ count > 0)
  <2>1. CASE N!Open
    <3>1. bellOpen' = TRUE /\ timer' = (count > 0)
      BY <2>1, Zenon DEF N!Open
    <3>2. bellOpen' /\ bellOpen' \in BOOLEAN
      BY <3>1, Zenon
    <3>3. (count > 0) \in BOOLEAN
      OBVIOUS
    <3>4. timer' \in BOOLEAN /\ (timer' => count > 0)
      BY <3>1, <3>3, Zenon
    <3> QED
      BY <3>2, <3>4
  <2>2. CASE N!Leave \/ N!Fire
    <3>1. bellOpen' \in BOOLEAN /\ timer' \in BOOLEAN /\ ~timer'
      BY <2>2, Zenon DEF N!Leave, N!Fire, N!TypeOK
    <3> QED
      BY <3>1
  <2>3. CASE N!Press
    BY <2>3 DEF N!Press, N!TypeOK, AnswersCount
  <2> QED
    BY <2>1, <2>2, <2>3
<1>4. pressed' \in 0 .. MaxPress
  BY BellCounts DEF N!Open, N!Leave, N!Fire, N!Press
<1> QED
  BY <1>1, <1>2, <1>3, <1>4 DEF N!TypeOK, AnswersCount, Slot

\* A request is done, or fails, and the count is asked for again.
LEMMA MarksKeep == ASSUME BellInv, NEW i \in 1 .. MaxMark, N!MarkRead(i) \/ N!Fails(i) \/ N!Settles(i) PROVE BellInv'
<1> USE DEF BellInv
<1>1. UNCHANGED <<come, count, bellOpen, timer, slipped, pressed>>
  BY DEF N!MarkRead, N!Fails, N!Settles, N!server, N!ghosts
<1>2. marks \in [1 .. MaxMark -> Slot] /\ marks[i] \in Slot
  BY DEF N!TypeOK, Slot
<1>3. N!Free.at = "free" /\ N!Free \in Slot
  BY DEF N!Free, Slot
<1>4. marks' \in [1 .. MaxMark -> Slot]
  <2>1. ASSUME NEW m \in Slot, NEW a \in {"done", "failed"}, m.at # "free" PROVE [m EXCEPT !.at = a] \in Slot
    BY <2>1, <1>3 DEF Slot
  <2>2. CASE N!MarkRead(i)
    <3>1. [marks[i] EXCEPT !.at = "done"] \in Slot
      BY <1>2, <2>1, <2>2 DEF N!MarkRead
    <3>2. marks' = [marks EXCEPT ![i] = [marks[i] EXCEPT !.at = "done"]]
      BY <2>2 DEF N!MarkRead
    <3> QED
      BY <1>2, <3>1, <3>2
  <2>3. CASE N!Fails(i)
    <3>1. [marks[i] EXCEPT !.at = "failed"] \in Slot
      BY <1>2, <2>1, <2>3 DEF N!Fails
    <3>2. marks' = [marks EXCEPT ![i] = [marks[i] EXCEPT !.at = "failed"]]
      BY <2>3 DEF N!Fails
    <3> QED
      BY <1>2, <3>1, <3>2
  <2>4. CASE N!Settles(i)
    BY <1>2, <1>3, <2>4 DEF N!Settles
  <2> QED
    BY <2>2, <2>3, <2>4
<1>5. unread' \in 0 .. come /\ failed' \in BOOLEAN /\ marked' \in BOOLEAN
  <2>1. unread' \in 0 .. come
    BY BellCounts DEF N!MarkRead, N!Fails, N!Settles, N!server
  <2>2. failed' \in BOOLEAN /\ marked' \in BOOLEAN
    BY Zenon DEF N!MarkRead, N!Fails, N!Settles, N!ghosts, BellInv, N!TypeOK
  <2> QED
    BY <2>1, <2>2
<1>6. fetch' = fetch \/ (fetch' \in [at : {"none", "asked"}, n : {0}] /\ fetch'.n = 0)
  BY DEF N!MarkRead, N!Fails, N!Settles, N!Asked
<1> QED
  BY <1>1, <1>4, <1>5, <1>6, BellCounts DEF N!TypeOK, AnswersCount, Slot

\* Any step keeps it.
LEMMA BellNext ==
  ASSUME BellInv, [N!Next]_(N!vars)
  PROVE  BellInv'
<1>1. CASE UNCHANGED N!vars
  BY <1>1 DEF N!vars, BellInv, N!TypeOK, AnswersCount
<1> QED
  BY <1>1, CountsKeep, PageKeeps, MarksKeep DEF N!Next

---------------------------------------------------------------------------
(* The screens implement each of the six, so what those keep they keep.    *)

\* Every machine starts in a state of its own specification.
LEMMA EachBegins == ScreensInit => C!Init /\ A!Init /\ D!Init /\ T!Init /\ N!Init /\ Init
BY DEF ScreensInit

\* A machine whose variables stay as they are stutters.
LEMMA EachRests ==
  /\ UNCHANGED messages => UNCHANGED C!vars
  /\ UNCHANGED account => UNCHANGED A!vars
  /\ UNCHANGED phone => UNCHANGED D!vars
  /\ UNCHANGED setup => UNCHANGED T!vars
  /\ UNCHANGED bell => UNCHANGED N!vars
<1>1. UNCHANGED messages => UNCHANGED C!vars
  BY DEF messages, C!vars, C!booking, C!page, C!composer
<1>2. UNCHANGED account => UNCHANGED A!vars
  BY DEF account, A!vars, A!pool, A!form
<1>3. UNCHANGED phone => UNCHANGED D!vars
  BY DEF phone, D!vars
<1>4. UNCHANGED setup => UNCHANGED T!vars
  BY DEF setup, T!vars
<1>5. UNCHANGED bell => UNCHANGED N!vars
  BY DEF bell, N!vars
<1> QED
  BY <1>1, <1>2, <1>3, <1>4, <1>5

\* And every step is a step of it, or leaves it alone.
LEMMA EachMoves ==
  ASSUME [ScreensNext]_screensVars
  PROVE  /\ [C!Next]_(C!vars) /\ [A!Next]_(A!vars) /\ [D!Next]_(D!vars)
         /\ [T!Next]_(T!vars) /\ [N!Next]_(N!vars) /\ [Next]_vars
<1>1. CASE UNCHANGED screensVars
  BY <1>1, EachRests, Zenon DEF screensVars
<1>2. CASE InMessages(C!Next)
  BY <1>2, EachRests, Zenon DEF InMessages
<1>3. CASE InAccount(A!Next)
  BY <1>3, EachRests, Zenon DEF InAccount
<1>4. CASE InPhone(D!Next)
  BY <1>4, EachRests, Zenon DEF InPhone
<1>5. CASE InSetup(T!Next)
  BY <1>5, EachRests, Zenon DEF InSetup
<1>6. CASE InBell(N!Next)
  BY <1>6, EachRests, Zenon DEF InBell
<1>7. CASE InReviews(Next)
  BY <1>7, EachRests, Zenon DEF InReviews
<1> QED
  BY <1>1, <1>2, <1>3, <1>4, <1>5, <1>6, <1>7 DEF ScreensNext

\* What the screens do is, seen from any of the six, that machine running by itself.
THEOREM TheScreens ==
  ScreensSpec => C!Spec /\ A!Spec /\ D!Spec /\ T!Spec /\ N!Spec /\ Spec
<1>1. ScreensInit => C!Init /\ A!Init /\ D!Init /\ T!Init /\ N!Init /\ Init
  BY EachBegins
<1>2. [ScreensNext]_screensVars =>
        /\ [C!Next]_(C!vars) /\ [A!Next]_(A!vars) /\ [D!Next]_(D!vars)
        /\ [T!Next]_(T!vars) /\ [N!Next]_(N!vars) /\ [Next]_vars
  BY EachMoves
<1> QED
  BY <1>1, <1>2, PTL DEF ScreensSpec, C!Spec, A!Spec, D!Spec, T!Spec, N!Spec, Spec

\* The inductive invariant of each.
LEMMA ConversationHolds == ScreensSpec => []ConversationInv
<1>1. C!Init => ConversationInv
  BY ConversationBegins
<1>2. ConversationInv /\ [C!Next]_(C!vars) => ConversationInv'
  BY ConversationNext
<1> QED
  BY <1>1, <1>2, TheScreens, PTL DEF C!Spec

\* Always.
LEMMA AccountHolds == ScreensSpec => []AccountInv
<1>1. A!Init => AccountInv
  BY AccountBegins
<1>2. AccountInv /\ [A!Next]_(A!vars) => AccountInv'
  BY AccountNext
<1> QED
  BY <1>1, <1>2, TheScreens, PTL DEF A!Spec

\* Always.
LEMMA DevicesHold == ScreensSpec => []DevicesInv
<1>1. D!Init => DevicesInv
  BY DevicesBegin
<1>2. DevicesInv /\ [D!Next]_(D!vars) => DevicesInv'
  BY DevicesNext
<1> QED
  BY <1>1, <1>2, TheScreens, PTL DEF D!Spec

\* Always.
LEMMA TotpHolds == ScreensSpec => []TotpInv
<1>1. T!Init => TotpInv
  BY TotpBegins
<1>2. TotpInv /\ [T!Next]_(T!vars) => TotpInv'
  BY TotpNext
<1> QED
  BY <1>1, <1>2, TheScreens, PTL DEF T!Spec

\* Always.
LEMMA BellHolds == ScreensSpec => []BellInv
<1>1. N!Init => BellInv
  BY BellBegins
<1>2. BellInv /\ [N!Next]_(N!vars) => BellInv'
  BY BellNext
<1> QED
  BY <1>1, <1>2, TheScreens, PTL DEF N!Spec

\* Always.
LEMMA ReviewsHold == ScreensSpec => [](ReviewsInv /\ PostsInv)
<1>1. Init => ReviewsInv /\ PostsInv
  BY InvInit, PostsInit, Bounds
<1>2. ReviewsInv /\ PostsInv /\ [Next]_vars => (ReviewsInv /\ PostsInv)'
  BY InvNext, PostsNext, Bounds
<1> QED
  BY <1>1, <1>2, TheScreens, PTL DEF Spec

\* Whichever moves is in its types, and the others too.
THEOREM ScreensAreTyped == ScreensSpec => []ScreensTyped
<1> DEFINE One == focus \in {"messages", "account", "phone", "setup", "bell", "reviews"}
<1>1. /\ ConversationInv /\ AccountInv /\ DevicesInv /\ TotpInv /\ BellInv /\ ReviewsInv /\ PostsInv
      => (One => ScreensTyped)
  BY PostsTyped DEF ConversationInv, AccountInv, DevicesInv, TotpInv, BellInv, ScreensTyped
<1>2. ScreensInit => One
  BY DEF ScreensInit
<1>3. One /\ [ScreensNext]_screensVars => One'
  BY DEF ScreensNext, InMessages, InAccount, InPhone, InSetup, InBell, InReviews, screensVars
<1> HIDE DEF One
<1> QED
  BY <1>1, <1>2, <1>3, ConversationHolds, AccountHolds, DevicesHold, TotpHolds, BellHolds, ReviewsHold, PTL DEF ScreensSpec

\* The page never closes a conversation that the server would still take a message of, and contact
\* details it showed are hidden again once it knows the booking was cancelled.
THEOREM ClosedOnlyForGood == ScreensSpec => []ClosedForGood
<1>1. ConversationInv => ClosedForGood
  BY ClosedAndHidden DEF ClosedForGood
<1> QED
  BY <1>1, ConversationHolds, PTL

\* One comes back to the page one wanted, the phone rings for who is signed in on it, and the code
\* asked for is of a secret the app has.
THEOREM OnlyWhatIsTheirs == ScreensSpec => []OnlyTheirs
<1>1. AccountInv /\ DevicesInv /\ TotpInv => OnlyTheirs
  BY BackWhereOneWas, RowIsTheirs, HeldWhatIsAsked DEF OnlyTheirs
<1> QED
  BY <1>1, AccountHolds, DevicesHold, TotpHolds, PTL

\* Of the screens' booking: its reviews are written blind and go out once.
THEOREM ScreensAreBlind == ScreensSpec => WrittenBlind
BY TheScreens, Blind
=============================================================================
