-------------------------------- MODULE Photos --------------------------------
(***************************************************************************)
(* Hand-over photos, from the sheet they are picked in                     *)
(* (web/src/app/components/Evidence.tsx) through the upload and the store  *)
(* (catalog) to the evidence of a booking (booking), beside the sweep that *)
(* deletes uploads nobody used.  A photo's name is the hash of what it     *)
(* shows, so a photo sent twice is the same photo.  One person; the note   *)
(* and the stage (check-in or check-out) are left out.  A request dies     *)
(* with the answer it could not give.                                      *)
(***************************************************************************)
EXTENDS Naturals, SequencesExt

CONSTANTS File,    \* the photos there are to pick
          MaxPost  \* saves sent: bounds the tries

VARIABLES
    files,           \* what is picked in the sheet, open as long as anything is
    uploaded,        \* the page's record of what is up already
    job,             \* the save under way: its photos, those up when it began, how many are up now
    call,            \* the request it waits for, and how far the server is with it
    key, kept,       \* attemptKeys: the last key made; the photos it is kept for, if any
    posts,           \* every save sent: key, photos, and how it ended
    row, used,       \* catalog's rows: "none", "young" or "old" (a day), and the ones in use
    stored,          \* the files in the store
    locked, doomed,  \* the sweep: rows it has locked; files whose rows it deleted
    evidence         \* booking's rows, one of each save that went in

web == <<files, uploaded, job, key, kept, posts>>
sweep == <<locked, doomed>>
vars == <<web, call, row, used, stored, sweep, evidence>>

Idle == [photos |-> <<>>, had |-> {}, up |-> 0]
NoCall == [at |-> "none"]
Picks == {s \in SeqOf(File, Cardinality(File)) : IsInjective(s)}
Post == [key: 1 .. MaxPost, photos: Picks, end: {"waits", "unknown", "refused", "saved"}]

TypeOK ==
    /\ files \in Picks /\ uploaded \subseteq File
    /\ job.photos \in Picks /\ job.had \subseteq File /\ job.up \in 0 .. Len(job.photos)
    /\ call.at \in {"none", "sent", "put", "recorded", "asked", "owned", "marked"}
    /\ key \in 0 .. MaxPost /\ kept \in Picks
    /\ posts \in Seq(Post) /\ Len(posts) <= MaxPost
    /\ row \in [File -> {"none", "young", "old"}] /\ used \subseteq File /\ stored \subseteq File
    /\ locked \subseteq File /\ doomed \subseteq File
    /\ evidence \subseteq [n: 1 .. MaxPost, photos: Picks]

Init ==
    /\ files = <<>> /\ uploaded = {} /\ job = Idle /\ call = NoCall
    /\ key = 0 /\ kept = <<>> /\ posts = <<>>
    /\ row = [f \in File |-> "none"] /\ used = {} /\ stored = {} /\ locked = {} /\ doomed = {} /\ evidence = {}

-----------------------------------------------------------------------------
(* The sheet.                                                              *)

\* Each pick adds, while a save runs too.
Pick(f) ==
    /\ ~Contains(files, f)
    /\ files' = Append(files, f)
    /\ UNCHANGED <<uploaded, job, key, kept, posts, call, row, used, stored, sweep, evidence>>
TakeOut(i) ==
    /\ files' = RemoveAt(files, i)
    /\ UNCHANGED <<uploaded, job, key, kept, posts, call, row, used, stored, sweep, evidence>>

\* Not now: the sheet is closed, also while a save runs: the save goes on.
NotNow ==
    /\ files # <<>> /\ files' = <<>>
    /\ UNCHANGED <<uploaded, job, key, kept, posts, call, row, used, stored, sweep, evidence>>

Busy == job.photos # <<>>
\* save works on what the sheet held when it was pressed.
Save ==
    /\ files # <<>> /\ ~Busy /\ Len(posts) < MaxPost
    /\ job' = [photos |-> files, had |-> uploaded, up |-> 0]
    /\ UNCHANGED <<files, uploaded, key, kept, posts, call, row, used, stored, sweep, evidence>>

Upcoming == job.photos[job.up + 1]
ToSend == Busy /\ call = NoCall /\ job.up < Len(job.photos)
Advance == job' = [job EXCEPT !.up = @ + 1] /\ uploaded' = uploaded \cup {Upcoming}

\* A photo that is up already is not sent again.
Skip ==
    /\ ToSend /\ Upcoming \in job.had /\ Advance
    /\ UNCHANGED <<files, key, kept, posts, call, row, used, stored, sweep, evidence>>
SendPhoto ==
    /\ ToSend /\ Upcoming \notin job.had /\ call' = [at |-> "sent"]
    /\ UNCHANGED <<web, row, used, stored, sweep, evidence>>
PhotoUp ==
    /\ call.at = "recorded" /\ call' = NoCall /\ Advance
    /\ UNCHANGED <<files, key, kept, posts, row, used, stored, sweep, evidence>>

\* keyFor: the key kept for this body, or a new one.
SendSave ==
    /\ Busy /\ call = NoCall /\ job.up = Len(job.photos)
    /\ call' = [at |-> "asked"]
    /\ key' = (IF kept = job.photos THEN key ELSE key + 1) /\ kept' = job.photos
    /\ posts' = Append(posts, [key |-> key', photos |-> job.photos, end |-> "waits"])
    /\ UNCHANGED <<files, uploaded, job, row, used, stored, sweep, evidence>>

\* settle, and the end of the save: the sheet closes after a success, whatever it holds by then.
Settled(how) == IF how = "unknown" THEN kept ELSE <<>>
Ends(how) ==
    /\ job' = Idle /\ call' = NoCall
    /\ kept' = Settled(how) /\ posts' = [posts EXCEPT ![Len(posts)].end = how]
    /\ (IF how = "saved" THEN files' = <<>> ELSE UNCHANGED files)
    /\ UNCHANGED <<uploaded, key>>

\* The connection, the server or the day's quota fails an upload, wherever it is by then.
PhotoFails ==
    /\ call.at \in {"sent", "put", "recorded"}
    /\ job' = Idle /\ call' = NoCall
    /\ UNCHANGED <<files, uploaded, key, kept, posts, row, used, stored, sweep, evidence>>

-----------------------------------------------------------------------------
(* Catalog and booking.                                                    *)

\* upload: the file first, then its row, unless there is one.
Put ==
    /\ call.at = "sent" /\ call' = [at |-> "put"] /\ stored' = stored \cup {Upcoming}
    /\ UNCHANGED <<web, row, used, sweep, evidence>>
RecordMedia ==
    /\ call.at = "put" /\ Upcoming \notin locked
    /\ call' = [at |-> "recorded"]
    /\ row' = (IF row[Upcoming] = "none" THEN [row EXCEPT ![Upcoming] = "young"] ELSE row)
    /\ UNCHANGED <<web, used, stored, sweep, evidence>>

\* add_evidence and keep_evidence: the rows are read, then marked; marking waits for the sweep's locks.
Owned ==
    /\ call.at = "asked" /\ \A f \in ToSet(job.photos) : row[f] # "none"
    /\ call' = [at |-> "owned"]
    /\ UNCHANGED <<web, row, used, stored, sweep, evidence>>
\* Wrong on purpose: marking does not wait for the sweep's locks.
MarkUsedUnlocked ==
    /\ call.at = "owned" /\ call' = [at |-> "marked"]
    /\ used' = used \cup {f \in ToSet(job.photos) : row[f] # "none"}
    /\ UNCHANGED <<web, row, stored, sweep, evidence>>

MarkUsed ==
    /\ call.at = "owned" /\ ToSet(job.photos) \cap locked = {}
    /\ call' = [at |-> "marked"]
    /\ used' = used \cup {f \in ToSet(job.photos) : row[f] # "none"}
    /\ UNCHANGED <<web, row, stored, sweep, evidence>>
Insert == evidence \cup {[n |-> Len(posts), photos |-> job.photos]}
Saved ==
    /\ call.at = "marked" /\ evidence' = Insert /\ Ends("saved")
    /\ UNCHANGED <<row, used, stored, sweep>>
SavedUnheard ==
    /\ call.at = "marked" /\ evidence' = Insert /\ Ends("unknown")
    /\ UNCHANGED <<row, used, stored, sweep>>
\* Not a stage for photos any more, not this person's uploads, or too many requests.
Refused ==
    /\ call.at = "asked" /\ Ends("refused")
    /\ UNCHANGED <<row, used, stored, sweep, evidence>>
Lost ==
    /\ call.at \in {"asked", "owned", "marked"} /\ Ends("unknown")
    /\ UNCHANGED <<row, used, stored, sweep, evidence>>

\* sweep_orphans_once: rows older than a day that nothing uses; the files after the commit.
Orphans == {f \in File : row[f] = "old" /\ f \notin used}
SweepReads ==
    /\ locked = {} /\ doomed = {} /\ Orphans # {} /\ locked' = Orphans
    /\ UNCHANGED <<web, call, row, used, stored, doomed, evidence>>
SweepCommits ==
    /\ locked # {} /\ locked' = {} /\ doomed' = locked
    /\ row' = [f \in File |-> IF f \in locked THEN "none" ELSE row[f]]
    /\ UNCHANGED <<web, call, used, stored, evidence>>
DeleteFiles ==
    /\ doomed # {} /\ doomed' = {} /\ stored' = stored \ doomed
    /\ UNCHANGED <<web, call, row, used, locked, evidence>>
DayPasses ==
    /\ locked = {} /\ \E f \in File : row[f] = "young"
    /\ row' = [f \in File |-> IF row[f] = "young" THEN "old" ELSE row[f]]
    /\ UNCHANGED <<web, call, used, stored, sweep, evidence>>

-----------------------------------------------------------------------------
Next ==
    \/ (\E f \in File : Pick(f)) \/ (\E i \in DOMAIN files : TakeOut(i))
    \/ NotNow \/ Save \/ Skip \/ SendPhoto \/ PhotoUp \/ PhotoFails \/ SendSave
    \/ Put \/ RecordMedia \/ Owned \/ MarkUsed \/ Saved \/ SavedUnheard \/ Refused \/ Lost
    \/ SweepReads \/ SweepCommits \/ DeleteFiles \/ DayPasses

Spec == Init /\ [][Next]_vars

\* The sweep is a loop of catalog's own.
FairSpec == Spec /\ WF_vars(SweepReads) /\ WF_vars(SweepCommits) /\ WF_vars(DeleteFiles)

-----------------------------------------------------------------------------
Shows == UNION {ToSet(e.photos) : e \in evidence}

\* No photo is swept while it is in use: keeping waits for the rows the sweep has locked, so what is
\* marked in time stays, however old it is and however the two meet (mark_used, orphans).
NotSweptInUse == [][\A f \in doomed' \ doomed : f \notin used]_vars

\* The save pressed again on the same photos after an outcome nobody heard goes under the same key
\* (FL-1), with photos sent in between, sheets closed and opened again, and other saves failed.
RetryKeepsKey ==
    \A i \in 1 .. Len(posts) - 1 :
        LET p == posts[i] q == posts[i + 1] IN
        p.photos = q.photos => (p.key = q.key <=> p.end = "unknown")

\* An upload nobody used is gone in the end, unless it is used after all.
OrphansGo == \A f \in File : f \in Orphans ~> (row[f] = "none" \/ f \in used)

\* "They are never swept as unused" (catalog/routes.py keep_evidence): what the evidence shows is there.
KeptIsThere == \A f \in Shows : f \in stored

\* "Every create in the web (... evidence ...) takes its Idempotency-Key" (docs/FEATURES.md): what is
\* retried under one key is saved once.
SavedOnce == \A e, d \in evidence : posts[e.n].key = posts[d.n].key => e = d
=============================================================================
