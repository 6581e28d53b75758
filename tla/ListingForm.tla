----------------------------- MODULE ListingForm -----------------------------
(***************************************************************************)
(* The form of a listing (web/src/app/screens/AddListing.tsx) up to the    *)
(* moment its answer is in: what is typed, which errors are shown, and the *)
(* grid of pictures, each of which goes up by itself while the form is     *)
(* edited, sent or left.  Its free windows are Listings'.                  *)
(***************************************************************************)
EXTENDS Naturals, SequencesExt

CONSTANTS MaxPhotos, \* the grid's room (MAX_PHOTOS)
          MaxPick,   \* the pictures ever picked
          MaxEdit    \* the edits that make a field worse

Modes == {"none", "window", "batch"} \* no category yet; one booked by the hour; by the piece

\* "title" stands for the four texts with a least length, and for the dates picked by hand; "rate"
\* for the numbers, of which the form looks at the price only.
Field == {"title", "machine", "rate", "postal"}
Shows(m) == (IF m = "batch" THEN Field ELSE Field \ {"machine"}) \cup {"photos"}

\* What the form refuses is "bad"; what only catalog refuses is "over" (a price above the market's most,
\* a postal code of 13 letters, a shortest booking longer than the longest).
CanBe(f) == {"ok"} \cup (IF f # "postal" THEN {"bad"} ELSE {}) \cup (IF f \in {"rate", "postal"} THEN {"over"} ELSE {})

VARIABLES
    mode, value, errors, touched,
    photos, \* the grid: [key, at], at "up" while it is sent, then "there" or "failed"
    flying, \* the uploads under way: [key, batch], batch 0 for one tried again
    picked, edits,
    gone,   \* the pictures taken out
    sent    \* what is posted, Null while nothing is

vars == <<mode, value, errors, touched, photos, flying, picked, edits, gone, sent>>
typed == <<mode, value, edits>>
grid == <<photos, flying, picked, gone>>
Null == [photos |-> <<>>, over |-> {"nothing"}]

Keys(ps) == {p.key : p \in ToSet(ps)}
\* Those of a sequence at the places I, in their order.
Sub(ps, I) ==
    LET e == CHOOSE e \in [1 .. Cardinality(I) -> I] : \A i, j \in 1 .. Cardinality(I) : i < j => e[i] < e[j] IN
    [i \in 1 .. Cardinality(I) |-> ps[e[i]]]
\* Wrong on purpose: the pictures that failed go along.
ThereOrFailed(ps) == Sub(ps, {i \in DOMAIN ps : ps[i].at # "up"})

There(ps) == Sub(ps, {i \in DOMAIN ps : ps[i].at = "there"})
Pending == \E p \in ToSet(photos) : p.at = "up"

TypeOK ==
    /\ mode \in Modes /\ value \in [Field -> {"ok", "bad", "over"}] /\ \A f \in Field : value[f] \in CanBe(f)
    /\ errors \subseteq Field \cup {"photos"} /\ touched \subseteq Field \cup {"photos"}
    /\ photos \in Seq([key: 1 .. picked, at: {"up", "there", "failed"}]) /\ Len(photos) <= MaxPhotos
    /\ \A i, j \in DOMAIN photos : photos[i].key = photos[j].key => i = j
    /\ \A u \in flying : u.key \in 1 .. picked /\ u.batch \in 0 .. picked
    /\ picked \in 0 .. MaxPick /\ edits \in 0 .. MaxEdit /\ gone \subseteq 1 .. picked
    /\ sent # Null => \A p \in ToSet(sent.photos) : p.at = "there"

\* A new listing: the texts are empty.
Init ==
    /\ mode = "none" /\ value = [f \in Field |-> IF f \in {"title", "machine"} THEN "bad" ELSE "ok"]
    /\ errors = {} /\ touched = {} /\ photos = <<>> /\ flying = {} /\ picked = 0 /\ edits = 0 /\ gone = {}
    /\ sent = Null

\* Step 1; the tag above the form leads back to it, and everything else stays.
Choose(m) ==
    /\ mode = "none" /\ m # "none"
    /\ mode' = m /\ value' = [value EXCEPT !["rate"] = "ok"]
    /\ UNCHANGED <<errors, touched, edits, grid, sent>>
ChangeCategory ==
    /\ mode # "none" /\ mode' = "none"
    /\ UNCHANGED <<value, errors, touched, edits, grid, sent>>

\* An amount that cannot be read is zero (MoneyInput); so a price is always a number of cents.
Edit(f, v) ==
    /\ mode # "none" /\ f \in Shows(mode) /\ v # value[f]
    /\ v # "ok" => edits < MaxEdit
    /\ value' = [value EXCEPT ![f] = v] /\ edits' = IF v = "ok" THEN edits ELSE edits + 1
    /\ UNCHANGED <<mode, errors, touched, grid, sent>>

\* validate: what the form itself refuses.
Problems ==
    {f \in Field \cap Shows(mode) : value[f] = "bad"} \cup (IF Pending THEN {"photos"} ELSE {})

Blur(f) ==
    /\ mode # "none" /\ f \in Shows(mode) \ {"rate", "photos"}
    /\ touched' = touched \cup {f} /\ errors' = (errors \ {f}) \cup (Problems \cap {f})
    /\ UNCHANGED <<typed, grid, sent>>

---------------------------------------------------------------------------
(* The grid. *)

\* addPhotos: shown at once, as many as there is room for, and all sent side by side.
Pick(n) ==
    LET room == MaxPhotos - Len(photos)
        new == [i \in 1 .. (IF n < room THEN n ELSE room) |-> [key |-> picked + i, at |-> "up"]] IN
    /\ mode # "none" /\ room > 0 /\ picked + n <= MaxPick
    /\ photos' = photos \o new /\ picked' = picked + Len(new)
    /\ flying' = flying \cup {[key |-> p.key, batch |-> picked + 1] : p \in ToSet(new)}
    /\ touched' = touched \cup {"photos"}
    /\ UNCHANGED <<typed, errors, gone, sent>>

\* Wrong on purpose: the answer puts its picture into the grid, found there or not.
PatchedBack(k, at) ==
    IF k \notin Keys(photos) THEN Append(photos, [key |-> k, at |-> at])
    ELSE [i \in DOMAIN photos |-> IF photos[i].key = k THEN [key |-> k, at |-> at] ELSE photos[i]]

\* patchPhoto: nothing, of a picture that was taken out.
Patched(k, at) ==
    [i \in DOMAIN photos |-> IF photos[i].key = k THEN [key |-> k, at |-> at] ELSE photos[i]]

LastOfBatch(u) == u.batch # 0 /\ \A w \in flying \ {u} : w.batch # u.batch

\* upload ends, and the last of those picked together takes the error off the grid.
Upload(u, at) ==
    /\ u \in flying /\ flying' = flying \ {u} /\ photos' = Patched(u.key, at)
    /\ errors' = errors \ (IF LastOfBatch(u) THEN {"photos"} ELSE {})
    /\ UNCHANGED <<typed, touched, picked, gone, sent>>

Retry(k) ==
    /\ mode # "none" /\ \E p \in ToSet(photos) : p.key = k /\ p.at = "failed"
    /\ photos' = Patched(k, "up") /\ flying' = flying \cup {[key |-> k, batch |-> 0]}
    /\ UNCHANGED <<typed, errors, touched, picked, gone, sent>>

TakeOut(k) ==
    /\ mode # "none" /\ gone' = gone \cup {k}
    /\ \E i \in DOMAIN photos : photos[i].key = k /\ photos' = RemoveAt(photos, i)
    /\ UNCHANGED <<typed, errors, touched, flying, picked, sent>>

MakeCover(i) ==
    /\ mode # "none" /\ i \in 2 .. Len(photos) /\ photos[i].at = "there"
    /\ photos' = <<photos[i]>> \o RemoveAt(photos, i)
    /\ UNCHANGED <<typed, errors, touched, flying, picked, gone, sent>>

---------------------------------------------------------------------------
(* Sending it. *)

Over == {f \in Field \cap Shows(mode) : value[f] = "over"}

\* submit: a press validates everything, shows what is wrong, and posts when nothing is.  The pictures
\* that failed stay behind.
Submit ==
    /\ mode # "none" /\ sent = Null
    /\ errors' = Problems /\ touched' = (Field \cup {"photos"}) \ {"postal"}
    /\ sent' = IF Problems # {} THEN Null ELSE [photos |-> There(photos), over |-> Over]
    /\ UNCHANGED <<typed, grid>>

\* catalog: every rule of the form, and those "over" stands for.
Accepted ==
    /\ sent # Null /\ sent.over = {}
    /\ mode' = "none" /\ sent' = Null
    /\ value' = [f \in Field |-> IF f \in {"title", "machine"} THEN "bad" ELSE "ok"]
    /\ errors' = {} /\ touched' = {} /\ photos' = <<>> /\ flying' = {} /\ gone' = {}
    /\ UNCHANGED <<picked, edits>>

\* A refusal goes under the field it names, when it names one; a lost answer is only a toast.
Refused ==
    /\ sent # Null
    /\ \E named \in {sent.over \cap {"postal"}, {}} :
         /\ errors' = errors \cup named /\ touched' = touched \cup named
    /\ sent' = Null
    /\ UNCHANGED <<typed, grid>>

\* A reload: the draft has every field, and of the pictures those that were there.
Reload ==
    /\ photos' = There(photos) /\ flying' = {} /\ errors' = {} /\ touched' = {} /\ sent' = Null
    /\ UNCHANGED <<typed, picked, gone>>

Next ==
    \/ (\E m \in Modes : Choose(m)) \/ ChangeCategory \/ Submit \/ Accepted \/ Refused \/ Reload
    \/ (\E f \in Field : Blur(f) \/ \E v \in CanBe(f) : Edit(f, v))
    \/ (\E n \in 1 .. 2 : Pick(n)) \/ (\E i \in 2 .. MaxPhotos : MakeCover(i))
    \/ (\E u \in flying, at \in {"there", "failed"} : Upload(u, at))
    \/ (\E k \in 1 .. picked : Retry(k) \/ TakeOut(k))

Spec == Init /\ [][Next]_vars

\* Every upload ends: with its answer, or with the timeout of its request (uploadPhoto).
Ends(k) == \E u \in flying, at \in {"there", "failed"} : u.key = k /\ Upload(u, at)
FairSpec == Spec /\ \A k \in 1 .. MaxPick : WF_vars(Ends(k))

---------------------------------------------------------------------------
(* What is claimed of it. *)

\* A press that posts nothing always shows why, under a field the form has on the page: also when the
\* category was changed meanwhile, and its own field is on the page no more.
RefusalIsSeen ==
  [][Submit => sent' # Null \/ (errors' \cap touched' \cap Shows(mode)) # {}]_vars

\* A picture taken out stays out: no step, and least of all the answer of its upload still under way,
\* brings it back into the grid, and from there into the listing.
GoneStaysGone == [][gone' \cap Keys(photos') = {}]_vars

\* No picture stays at "Uploading", with which the form cannot be sent.
Up(k) == [key |-> k, at |-> "up"] \in ToSet(photos)
UploadsEnd == \A k \in 1 .. MaxPick : Up(k) ~> ~Up(k)
=============================================================================
