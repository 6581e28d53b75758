------------------------------ MODULE Attempt ------------------------------
(***************************************************************************)
(* A form that posts something which must not be made twice (a message, a  *)
(* rating, a listing, a report), and the server that is sent an            *)
(* Idempotency-Key with it.  The form keeps one key per body while the     *)
(* outcome is unknown (web/src/domain/attempt.ts); the server writes the   *)
(* key and the answer in the transaction that makes the thing              *)
(* (cappy_common/idempotency.py).  The network may lose an answer, and the *)
(* form may try again while the first copy is still being handled.         *)
(***************************************************************************)
EXTENDS Naturals, Sequences

CONSTANTS Body,       \* what can be written in the form
          MaxKey,     \* keys the form makes: bounds the tries
          MaxWish,    \* things the person wants to post, one after the other
          MaxCopy     \* requests ever sent

VARIABLES
    texts,    \* what the person set out to post, one wish after the other; the last is in the form
    blank,    \* the form was cleared since
    last,     \* attemptKeys' `last`: the key kept, 0 for null, and the body it is for
    keys,     \* keys made so far
    busy,     \* the request the form waits for: its number, or 0, and the wish it is for
    sent,     \* requests sent so far
    copies,   \* requests the server has not finished with
    answers,  \* answers on their way to the form
    made,     \* what the server has made: one row of idempotency_keys each
    told,     \* wishes the form has called done, and the key they were sent under
    refused   \* wishes that met a definite refusal (a 4xx)

vars == <<texts, blank, last, keys, busy, sent, copies, answers, made, told, refused>>
form == <<texts, blank, last, keys, busy, sent, told, refused>>

Key == 1 .. MaxKey
Wish == 1 .. MaxWish
Answer == {"ok", "conflict", "invalid", "limited", "failed"}
Copy == [n: 1 .. MaxCopy, key: Key, body: Body, wish: Wish, st: {"new", "checked"}]
Row == [key: Key, body: Body, wish: Wish]

wish == Len(texts)
draft == texts[wish]

TypeOK ==
    /\ texts \in Seq(Body) /\ Len(texts) \in Wish /\ blank \in BOOLEAN
    /\ last \in [key: {0} \cup Key, body: Body] /\ keys \in {0} \cup Key
    /\ busy \in [n: 0 .. MaxCopy, wish: Wish] /\ sent \in 0 .. MaxCopy
    /\ copies \subseteq Copy /\ answers \subseteq [n: 1 .. MaxCopy, is: Answer]
    /\ made \subseteq Row /\ told \subseteq [wish: Wish, key: Key] /\ refused \subseteq Wish

Init ==
    /\ \E b \in Body : texts = <<b>> /\ last = [key |-> 0, body |-> b]
    /\ blank = FALSE /\ keys = 0 /\ busy = [n |-> 0, wish |-> 1] /\ sent = 0
    /\ copies = {} /\ answers = {} /\ made = {} /\ told = {} /\ refused = {}

-----------------------------------------------------------------------------
(* The form.                                                               *)

\* Another text, whether the one before it was done, is unknown or is given up; typing goes on while one is sent.
Write(b) ==
    /\ wish < MaxWish
    /\ texts' = Append(texts, b) /\ blank' = FALSE
    /\ UNCHANGED <<last, keys, busy, sent, copies, answers, made, told, refused>>

\* keyFor: the key kept for this very body, or a new one.
Kept(b) == last.key # 0 /\ last.body = b
KeyFor(b) == IF Kept(b) THEN last.key ELSE keys + 1

\* The button: nothing is sent while an answer is awaited, or from an empty form.
Submit ==
    LET k == KeyFor(draft) IN
    /\ busy.n = 0 /\ ~blank
    /\ sent < MaxCopy /\ k <= MaxKey
    /\ last' = [key |-> k, body |-> draft]
    /\ keys' = (IF Kept(draft) THEN keys ELSE keys + 1)
    /\ sent' = sent + 1 /\ busy' = [n |-> sent + 1, wish |-> wish]
    /\ copies' = copies \cup {[n |-> sent + 1, key |-> k, body |-> draft, wish |-> wish, st |-> "new"]}
    /\ UNCHANGED <<texts, blank, answers, made, told, refused>>

\* definite: the server answered, and would answer the same again.
Definite(a) == a \in {"conflict", "invalid", "limited"}

\* Wrong on purpose: a failure of ours ends the attempt too.
SettledByFailure(a) == [last EXCEPT !.key = 0]

\* settle: after a success or a definite refusal the next try is a new attempt.
Settled(a) == IF a = "ok" \/ Definite(a) THEN [last EXCEPT !.key = 0] ELSE last

\* The answer to the request the form waits for; the form is cleared by a success.
Hear(x) ==
    /\ x \in answers /\ x.n = busy.n
    /\ answers' = answers \ {x}
    /\ last' = Settled(x.is) /\ busy' = [busy EXCEPT !.n = 0]
    /\ blank' = (blank \/ x.is = "ok")
    /\ told' = (IF x.is = "ok" THEN told \cup {[wish |-> busy.wish, key |-> last.key]} ELSE told)
    /\ refused' = (IF Definite(x.is) THEN refused \cup {busy.wish} ELSE refused)
    /\ UNCHANGED <<texts, keys, sent, copies, made>>

\* No answer in time, or the connection goes: status 0, and the request may still be on its way.
GiveUp ==
    /\ busy.n # 0
    /\ busy' = [busy EXCEPT !.n = 0]
    /\ answers' = {x \in answers : x.n # busy.n}
    /\ UNCHANGED <<texts, blank, last, keys, sent, copies, made, told, refused>>

-----------------------------------------------------------------------------
(* The server.                                                             *)

\* An answer nobody waits for any more goes nowhere.
Say(c, a) ==
    /\ copies' = copies \ {c}
    /\ answers' = (IF c.n = busy.n THEN answers \cup {[n |-> c.n, is |-> a]} ELSE answers)

\* replayed: the first answer to this key, or a refusal when the key came with another body.
Check(c) ==
    /\ c \in copies /\ c.st = "new"
    /\ \/ \E r \in made : r.key = c.key /\ r.body = c.body /\ Say(c, "ok")
       \/ \E r \in made : r.key = c.key /\ r.body # c.body /\ Say(c, "invalid")
       \/ /\ \A r \in made : r.key # c.key
          /\ copies' = (copies \ {c}) \cup {[c EXCEPT !.st = "checked"]}
          /\ UNCHANGED answers
    /\ UNCHANGED <<form, made>>

\* remember: the thing and its key in one commit; the key was written meanwhile: 409, and nothing is made.
Make(c) ==
    /\ c \in copies /\ c.st = "checked"
    /\ IF \E r \in made : r.key = c.key
       THEN Say(c, "conflict") /\ UNCHANGED made
       ELSE /\ made' = made \cup {[key |-> c.key, body |-> c.body, wish |-> c.wish]}
            /\ Say(c, "ok")
    /\ UNCHANGED form

\* Refused before it is looked at (429), or a fault of ours that leaves nothing behind.
Turned(c) ==
    /\ c \in copies
    /\ \/ c.st = "new" /\ Say(c, "limited")
       \/ Say(c, "failed")
    /\ UNCHANGED <<form, made>>

-----------------------------------------------------------------------------
Next ==
    \/ Submit \/ GiveUp \/ \E b \in Body : Write(b)
    \/ \E x \in answers : Hear(x)
    \/ \E c \in copies : Check(c) \/ Make(c) \/ Turned(c)

Spec == Init /\ [][Next]_vars

-----------------------------------------------------------------------------
\* A key stands for one body for ever (attempt.ts keyFor): the server never meets a key it
\* knows with another body, so nothing the person wrote is refused for its key.
KeyFollowsBody == \A c \in copies : \A r \in made : r.key = c.key => r.body = c.body

\* Every wish the form called done has a thing of its own at the server, with its text: an answer
\* is never the replay of what an earlier success already made (attempt.ts settle, replayed).
DoneIsItsOwn ==
    \A w \in told : /\ \E r \in made : r.key = w.key /\ r.body = texts[w.wish]
                     /\ \A v \in told : v.key = w.key => v = w

\* Two of one wish only after a definite refusal of it: a lost answer, a time-out or a fault of
\* ours never makes a second copy by itself.
TwiceOnlyAfterRefusal ==
    \A r, s \in made : r.wish = s.wish /\ r # s => r.wish \in refused

\* "A retry after a lost answer gets the first answer back instead of a second copy"
\* (idempotency.py): what the person wrote once is made once.
OncePerWish == \A r, s \in made : r.wish = s.wish => r = s
=============================================================================
