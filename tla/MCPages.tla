------------------------------ MODULE MCPages ------------------------------
(***************************************************************************)
(* Three pages with the servers behind them, which share nothing, in one   *)
(* run: a listing on the market (Market, whose names this module keeps), a *)
(* booking (BookingPage), and the choice of a window and its payment       *)
(* (Checkout).  PagesInit says which of them moves; the others stay in one *)
(* initial state.  The listing has two such parts: "market", without edits *)
(* of it, and "edits", without the sheets and the renters.                 *)
(***************************************************************************)
EXTENDS Market

CONSTANTS Total, Phases,
          Hours, LastHour, MaxRate, MaxCall, MaxOther, MaxPick

ASSUME PriceHalves == Total \in Nat /\ Total > 0 /\ Total % 2 = 0
ASSUME PhasesAreKnown == Phases \subseteq 0 .. 8 /\ \E p \in Phases : p < 3 \* booked ahead
ASSUME HoursArePositive == Hours \subseteq Nat \ {0} /\ Hours # {}
ASSUME BoundsAreNaturals == {LastHour, MaxCall, MaxOther, MaxPick, MaxPut} \subseteq Nat /\ MaxRate \in Nat \ {0}

VARIABLES status, phase, lapsed, moderate, card, rated, claim, back,
          role, seen, pageSheet, photos, toFinish, cmd, confirming, quote, said, deal,
          rate, others, mine, checked, hours, quotes, lastQuote, free, lastFree, picked, picks,
          confirm, calls, checkoutAsked, last, keys, paying, idSheet, checking, open,
          focus

bookingPage == <<status, phase, lapsed, moderate, card, rated, claim, back,
                 role, seen, pageSheet, photos, toFinish, cmd, confirming, quote, said, deal>>
checkout == <<rate, others, mine, checked, hours, quotes, lastQuote, free, lastFree, picked, picks,
              confirm, calls, checkoutAsked, last, keys, paying, idSheet, checking, open>>
pagesVars == <<focus, bookingPage, checkout, vars>>

B == INSTANCE BookingPage WITH sheet <- pageSheet
C == INSTANCE Checkout WITH sheet <- confirm, asked <- checkoutAsked

PagesInit ==
    /\ focus \in {"booking", "market", "edits", "checkout"}
    /\ Init /\ B!Init /\ C!Init
    /\ moderate /\ (focus # "booking" => role = "owner")
    /\ focus \in {"booking", "checkout"} => ~dear /\ ~abroad
    /\ focus # "checkout" => checked = "free" /\ hours = CHOOSE h \in Hours : TRUE

InBooking(a) == focus = "booking" /\ a /\ UNCHANGED <<focus, checkout, vars>>
InMarket(a) ==
    /\ a /\ UNCHANGED <<focus, bookingPage, checkout>>
    /\ \/ focus = "market" /\ UNCHANGED edits
       \/ focus = "edits" /\ UNCHANGED <<request, asked, sheet, queue, decision>>
\* The owner reprices it, or others book it.
InCheckout(a) ==
    focus = "checkout" /\ a /\ (rate' = 1 \/ others' = {}) /\ UNCHANGED <<focus, bookingPage, vars>>

PagesNext == InBooking(B!Next) \/ InMarket(Next) \/ InCheckout(C!Next)

PagesSpec == PagesInit /\ [][PagesNext]_pagesVars

PagesTyped ==
    CASE focus = "booking" -> B!TypeOK [] focus \in {"market", "edits"} -> TypeOK [] focus = "checkout" -> C!TypeOK

---------------------------------------------------------------------------
(* The properties of the three, each stated in its own module; Market's DownForGood as it is. *)

\* The page and the server have one table of who may do what and when, and a command called done was
\* done: by whichever side, however late its answer.
PageTellsTheTruth == focus = "booking" => B!OfferedIsTaken /\ B!SaidIsTrue

\* What is held is what the button said, whatever loaded meanwhile.
HeldAsShown == C!HeldAsShown
=============================================================================
