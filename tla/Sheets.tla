-------------------------------- MODULE Sheets --------------------------------
(***************************************************************************)
(* The sheets of one page (web/src/app/components/ui.tsx, Sheet), the      *)
(* stack of the open ones Android's back button takes the top of           *)
(* (sheets.ts), and the two things each of them holds on to while it is    *)
(* open: the page's scrolling and what had the focus.                      *)
(***************************************************************************)
EXTENDS Naturals, SequencesExt

CONSTANT MaxSheet \* the sheets are 1 .. MaxSheet, as they follow each other in the page

Sheet == 1 .. MaxSheet
Page == 0 \* the focus on the page itself

VARIABLES
    open,   \* the open ones, top last (sheets.ts)
    phase,  \* of each: "out", "in", or "leaving" while it slides away
    locked, \* the page does not scroll (body.style.overflow)
    prev,   \* what each found there when it opened
    focus, opener, \* the sheet that has the focus, or the page; where each found it
    inOrder \* every sheet so far closed before those it opened over

vars == <<open, phase, locked, prev, focus, opener, inOrder>>

TypeOK ==
    /\ open \in SeqOf(Sheet, MaxSheet) /\ IsInjective(open)
    /\ phase \in [Sheet -> {"out", "in", "leaving"}]
    /\ locked \in BOOLEAN /\ prev \in [Sheet -> BOOLEAN] /\ inOrder \in BOOLEAN
    /\ focus \in Sheet \cup {Page} /\ opener \in [Sheet -> Sheet \cup {Page}]

Init ==
    /\ open = <<>> /\ phase = [s \in Sheet |-> "out"] /\ locked = FALSE /\ prev = [s \in Sheet |-> FALSE]
    /\ focus = Page /\ opener = [s \in Sheet |-> Page] /\ inOrder = TRUE

Opened == ToSet(open)
Mounted == {s \in Sheet : phase[s] # "out"}

\* A tap on the page or in the top sheet opens another; so does an answer that arrives.
Open(s) ==
    /\ s \notin Opened
    /\ open' = Append(open, s) /\ phase' = [phase EXCEPT ![s] = "in"]
    /\ prev' = [prev EXCEPT ![s] = locked] /\ locked' = TRUE
    /\ opener' = [opener EXCEPT ![s] = focus] /\ focus' = s
    /\ UNCHANGED inOrder

\* What had the focus is still there to have it back.
Returns(s) == opener[s] = Page \/ opener[s] \in Mounted
Leave(S) ==
    /\ phase' = [s \in Sheet |-> IF s \in S THEN "leaving" ELSE phase[s]]
    /\ UNCHANGED <<prev, opener>>

\* Wrong on purpose: a sheet that closes lets the page scroll, whatever is open under it.
ClosesUnlocking(s) ==
    \E i \in DOMAIN open :
      /\ open[i] = s /\ open' = RemoveAt(open, i) /\ inOrder' = (inOrder /\ i = Len(open))
      /\ locked' = FALSE /\ focus' = (IF Returns(s) THEN opener[s] ELSE focus)
      /\ Leave({s})

\* The effect of opening is undone: off the stack, the scrolling and the focus as they were found.
Closes(s) ==
    \E i \in DOMAIN open :
      /\ open[i] = s /\ open' = RemoveAt(open, i) /\ inOrder' = (inOrder /\ i = Len(open))
      /\ locked' = prev[s] /\ focus' = (IF Returns(s) THEN opener[s] ELSE focus)
      /\ Leave({s})

\* Its cross, the scrim behind it, a drag down, Android's back button: the top one goes.
CloseTop == open # <<>> /\ Closes(Last(open))
\* What a sheet was for is done, wherever it is on the stack.
CloseDone(s) == Closes(s)

\* Escape is heard by every open sheet.  React undoes the effects of one render in the order of the
\* page: what the last of them found is what stays.
Escape ==
    LET back == {s \in Opened : Returns(s)} IN
    /\ open # <<>> /\ open' = <<>> /\ Leave(Opened)
    /\ locked' = prev[Max(Opened)]
    /\ focus' = (IF back = {} THEN focus ELSE opener[Max(back)])
    /\ inOrder' = (inOrder /\ \A i, j \in DOMAIN open : i < j => open[j] < open[i])

\* The end of the animation, or 400 ms later.
Gone(s) ==
    /\ phase[s] = "leaving" /\ phase' = [phase EXCEPT ![s] = "out"]
    /\ focus' = (IF focus = s THEN Page ELSE focus)
    /\ UNCHANGED <<open, locked, prev, opener, inOrder>>

Next == CloseTop \/ Escape \/ \E s \in Sheet : Open(s) \/ CloseDone(s) \/ Gone(s)
Spec == Init /\ [][Next]_vars

-----------------------------------------------------------------------------
\* While a sheet is open the page behind does not scroll, and once none is it does, as long as each
\* closed before those it opened over.
ScrollsAgain == inOrder => locked = (open # <<>>)

\* Then, too, the focus is in the top sheet, and on the page when there is none: never on one that
\* slid away.
FocusInside == inOrder => focus = (IF open = <<>> THEN Page ELSE Last(open))
=============================================================================
