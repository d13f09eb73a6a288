--------------------------- MODULE CustomerProfiles ---------------------------
(***************************************************************************)
(* The profiles that the calls of a customer and the requests of the API    *)
(* read and write (managers/customer_profile_manager.py).  Each database     *)
(* command is atomic; every method is a read, an await (often an LLM call)   *)
(* and a write computed from what was read, so a process keeps the copy it   *)
(* read.  A read of a profile that has no dnd object is followed by the      *)
(* write of a default one.                                                   *)
(***************************************************************************)
EXTENDS Integers, Sequences

CONSTANTS
  Calls,     \* calls, each ends in record_call_completion
  Requests,  \* requests of the API, each performs one operation
  Phones, Emails,
  Caller,    \* the identifier of a call's customer
  Inbound,   \* the inbound telephony calls
  Outbound,  \* the outbound ones; calls in neither come from the web
  Past,      \* calls that ended before: one of them may have left a profile
  Window     \* CUSTOMER_PROFILE_MAX_RECENT_SUMMARIES

Ids == Phones \union Emails
Procs == Calls \union Requests

ASSUME CallsAssumption ==
  /\ Caller \in [Calls -> Ids]
  /\ Inbound \subseteq Calls /\ Outbound \subseteq Calls /\ Inbound \intersect Outbound = {}
  /\ \A c \in Inbound \union Outbound : Caller[c] \in Phones
  /\ Past \subseteq Calls /\ Past \intersect (Inbound \union Outbound) = {}
ASSUME NamesAssumption ==
  /\ Calls \intersect Requests = {} /\ Phones \intersect Emails = {}
  /\ "none" \notin Ids /\ "unset" \notin Calls /\ "clear" \notin Calls
ASSUME WindowAssumption == Window \in Nat \ {0}

VARIABLES
  profiles,  \* the collection, in the order of insertion; a deleted one is "gone"
  pc,        \* what a process does next
  after,     \* where it goes on after the default dnd object has been written
  on,        \* the profile it works on (0: none)
  snap,      \* its copy of that profile
  whom       \* the identifier a request names

vars == <<profiles, pc, after, on, snap, whom>>

\* The document create_profile inserts: no history, and dnd is null.
NewProfile(id, email, phone) ==
  [primary |-> id,
   email |-> IF email = "none" /\ id \in Emails THEN id ELSE email,
   phone |-> IF phone = "none" /\ id \in Phones THEN id ELSE phone,
   linked |-> {}, recent |-> <<>>, older |-> {}, total |-> 0,
   dnd |-> "unset", gone |-> FALSE]

NoProfile == [NewProfile("none", "none", "none") EXCEPT !.gone = TRUE]

Profile ==
  [primary : Ids \union {"none"}, email : Emails \union {"none"}, phone : Phones \union {"none"},
   linked : SUBSET Ids, recent : Seq(Calls), older : SUBSET Calls, total : Nat,
   dnd : {"unset", "clear"} \union Calls, gone : BOOLEAN]

Blocked(p) == p.dnd \in Calls

-----------------------------------------------------------------------------
\* get_by_identifier: every profile that has the identifier in any field, the
\* canonical one first.
Matching(id) ==
  {i \in DOMAIN profiles :
     LET p == profiles[i]
     IN ~p.gone /\ (p.primary = id \/ p.email = id \/ p.phone = id \/ id \in p.linked)}

Score(p, id) ==
  IF id \in Phones
  THEN (IF p.primary = id THEN 100 ELSE 0) + (IF p.phone = id THEN 25 ELSE 0)
  ELSE 0

Before(i, j, id) ==
  LET s == Score(profiles[i], id)
      t == Score(profiles[j], id)
      m == profiles[i].total
      n == profiles[j].total
  IN s > t \/ (s = t /\ (m > n \/ (m = n /\ i < j)))

Canonical(id) == {i \in Matching(id) : \A j \in Matching(id) \ {i} : Before(i, j, id)}

\* p takes a copy of profile i, with a dnd object, and goes on at next.
Read(p, i, next) ==
  LET unset == profiles[i].dnd = "unset"
  IN /\ on' = [on EXCEPT ![p] = i]
     /\ snap' = [snap EXCEPT ![p] = [profiles[i] EXCEPT !.dnd = IF unset THEN "clear" ELSE @]]
     /\ pc' = [pc EXCEPT ![p] = IF unset THEN "backfill" ELSE next]
     /\ after' = [after EXCEPT ![p] = IF unset THEN next ELSE @]
     /\ UNCHANGED profiles

\* p goes on without its copy.
Goto(p, next) ==
  /\ pc' = [pc EXCEPT ![p] = next]
  /\ snap' = [snap EXCEPT ![p] = NoProfile]
  /\ UNCHANGED <<after, on>>

\* update_one on a profile that has been deleted matches nothing.
Update(i, new) == profiles' = [profiles EXCEPT ![i] = IF @.gone THEN @ ELSE new]

Insert(p, new, next) ==
  /\ profiles' = Append(profiles, new)
  /\ on' = [on EXCEPT ![p] = Len(profiles) + 1]
  /\ snap' = [snap EXCEPT ![p] = new]
  /\ pc' = [pc EXCEPT ![p] = next]
  /\ UNCHANGED after

\* _ensure_dnd_v2 returned a default object: the read writes it back.
Backfill(p) ==
  /\ pc[p] = "backfill"
  /\ Update(on[p], [profiles[on[p]] EXCEPT !.dnd = "clear"])
  /\ pc' = [pc EXCEPT ![p] = after[p]]
  /\ after' = [after EXCEPT ![p] = "done"]
  /\ UNCHANGED <<on, snap, whom>>

-----------------------------------------------------------------------------
(* A call.                                                                  *)

\* create_session: an outbound call to a customer who has opted out is refused.
Dial(c) ==
  /\ pc[c] = "dial"
  /\ \/ Matching(Caller[c]) = {} /\ Goto(c, "lookup") /\ UNCHANGED profiles
     \/ \E i \in Canonical(Caller[c]) :
          Read(c, i, IF Blocked(profiles[i]) THEN "refused" ELSE "lookup")
  /\ UNCHANGED whom

\* record_call_completion looks the customer up, create_profile once more.
Lookup(c) ==
  /\ pc[c] = "lookup"
  /\ \/ Matching(Caller[c]) = {} /\ Goto(c, "check") /\ UNCHANGED profiles
     \/ \E i \in Canonical(Caller[c]) : Read(c, i, "write")
  /\ UNCHANGED whom

Check(c) ==
  /\ pc[c] = "check"
  /\ \/ Matching(Caller[c]) = {} /\ Goto(c, "insert") /\ UNCHANGED profiles
     \/ \E i \in Canonical(Caller[c]) : Read(c, i, "failed")
  /\ UNCHANGED whom

InsertOwn(c) ==
  /\ pc[c] = "insert"
  /\ Insert(c, NewProfile(Caller[c], "none", "none"), "write")
  /\ UNCHANGED whom

\* Mutant: the window grows by one before it is folded.
WriteLate(c) ==
  LET recent == <<c>> \o snap[c].recent
      full == Len(recent) > Window + 1
  IN /\ pc[c] = "write"
     /\ Update(on[c],
          [profiles[on[c]] EXCEPT
             !.recent = IF full THEN SubSeq(recent, 1, Len(recent) - 1) ELSE recent,
             !.older = IF full THEN snap[c].older \union {recent[Len(recent)]} ELSE snap[c].older,
             !.total = snap[c].total + 1])
     /\ Goto(c, "reread")
     /\ UNCHANGED whom

\* The LLM merges the summary that leaves the window into the aggregate; when
\* it answers with nothing, the summary is lost, when it fails it is appended.
Write(c) ==
  LET recent == <<c>> \o snap[c].recent
      full == Len(recent) > Window
  IN /\ pc[c] = "write"
     /\ \E kept \in BOOLEAN :
          Update(on[c],
            [profiles[on[c]] EXCEPT
               !.recent = IF full THEN SubSeq(recent, 1, Len(recent) - 1) ELSE recent,
               !.older = IF full /\ kept THEN snap[c].older \union {recent[Len(recent)]}
                         ELSE snap[c].older,
               !.total = snap[c].total + 1])
     /\ Goto(c, "reread")
     /\ UNCHANGED whom

\* get_by_profile_id at the head of a method; when the profile has been
\* deleted the method returns None and the call goes on at missing.
Fetch(c, here, next, missing) ==
  /\ pc[c] = here
  /\ IF profiles[on[c]].gone THEN Goto(c, missing) /\ UNCHANGED profiles
     ELSE Read(c, on[c], next)
  /\ UNCHANGED whom

Reread(c) == Fetch(c, "reread", IF c \in Inbound THEN "clear" ELSE "extract", "done")

\* clear_telephony_outbound_dnd: nothing is written unless the copy is blocked.
Clear(c, here, next) ==
  \/ Fetch(c, here[1], here[2], next)
  \/ /\ pc[c] = here[2]
     /\ IF Blocked(snap[c]) THEN Update(on[c], [profiles[on[c]] EXCEPT !.dnd = "clear"])
        ELSE UNCHANGED profiles
     /\ Goto(c, next)
     /\ UNCHANGED whom

ClearAfterCall(c) == Clear(c, <<"clear", "clearing">>, "extract")
ClearAfterExtraction(c) == Clear(c, <<"reclear", "reclearing">>, "done")

\* Mutant: nothing is cleared after the extraction.
AfterExtractionDone(c) == "done"

AfterExtraction(c) == IF c \in Inbound THEN "reclear" ELSE "done"

Extract(c) == Fetch(c, "extract", "extracting", AfterExtraction(c))

\* Mutant: the dnd object of the copy is written in any case.
ExtractedWhole(c) ==
  /\ pc[c] = "extracting"
  /\ \E dnd \in {c, snap[c].dnd} : Update(on[c], [profiles[on[c]] EXCEPT !.dnd = dnd])
  /\ Goto(c, AfterExtraction(c))
  /\ UNCHANGED whom

\* extract_and_update_ai_data writes the dnd object only when the customer has
\* asked not to be called; a failure of the LLM leaves the profile alone.
Extracted(c) ==
  /\ pc[c] = "extracting"
  /\ \/ Update(on[c], [profiles[on[c]] EXCEPT !.dnd = c])
     \/ UNCHANGED profiles
  /\ Goto(c, AfterExtraction(c))
  /\ UNCHANGED whom

\* The database refuses a command, the default object's write among them: the
\* exception ends what the call was doing, and a call that was to be placed; the
\* first clearing's own handler lets it go on.
Refuse(c) ==
  LET clears == pc[c] \in {"clear", "clearing"} \/ (pc[c] = "backfill" /\ after[c] = "clearing")
  IN /\ pc[c] \notin {"extracting", "refused", "failed", "done"}
     /\ Goto(c, IF clears THEN "extract" ELSE "failed")
     /\ UNCHANGED <<profiles, whom>>

Call(c) ==
  \/ Dial(c) \/ Lookup(c) \/ Check(c) \/ InsertOwn(c) \/ Write(c) \/ Reread(c)
  \/ ClearAfterCall(c) \/ Extract(c) \/ Extracted(c) \/ ClearAfterExtraction(c) \/ Refuse(c)

-----------------------------------------------------------------------------
(* A request of the API: one operation on one profile.                      *)

\* A profile by its id; also the last command of update, link and unlink.
View(r) ==
  /\ pc[r] = "view"
  /\ IF profiles[on[r]].gone THEN Goto(r, "done") /\ UNCHANGED profiles
     ELSE Read(r, on[r], "done")
  /\ UNCHANGED whom

\* A profile by an identifier, as the start of a pipeline looks for it too.
Look(r) ==
  /\ pc[r] = "idle"
  /\ \E id \in Ids : \E i \in Canonical(id) : Read(r, i, "done")
  /\ UNCHANGED whom

CreateCheck(r) ==
  /\ pc[r] = "idle"
  /\ \E id \in Ids :
       /\ whom' = [whom EXCEPT ![r] = id]
       /\ \/ Matching(id) = {} /\ Goto(r, "create") /\ UNCHANGED profiles
          \/ \E i \in Canonical(id) : Read(r, i, "done")

\* The request may name an email and a phone of its own: nobody looks for them.
Create(r) ==
  /\ pc[r] = "create"
  /\ \E email \in Emails \union {"none"}, phone \in Phones \union {"none"} :
       Insert(r, NewProfile(whom[r], email, phone), "done")
  /\ UNCHANGED whom

\* p is changed and read again.
Change(r, i, new) ==
  /\ pc[r] = "idle"
  /\ Update(i, new)
  /\ on' = [on EXCEPT ![r] = i]
  /\ pc' = [pc EXCEPT ![r] = IF profiles[i].gone THEN "done" ELSE "view"]
  /\ UNCHANGED <<after, snap, whom>>

WithField(p, id) == IF id \in Emails THEN [p EXCEPT !.email = id] ELSE [p EXCEPT !.phone = id]

UpdateProfile(r) ==
  \E i \in DOMAIN profiles, id \in Ids : Change(r, i, WithField(profiles[i], id))

\* Only the list of linked identities: the field link_identity filled stays.
Unlink(r) ==
  \E i \in DOMAIN profiles, id \in Ids :
    Change(r, i, [profiles[i] EXCEPT !.linked = @ \ {id}])

Delete(r) ==
  /\ pc[r] = "idle"
  /\ \E i \in DOMAIN profiles : profiles' = [profiles EXCEPT ![i].gone = TRUE]
  /\ Goto(r, "done")
  /\ UNCHANGED whom

\* link_identity: another profile that has the identity is refused, then the
\* profile is read, then the identity is pushed.
LinkCheck(r) ==
  /\ pc[r] = "idle"
  /\ \E i \in DOMAIN profiles, id \in Ids :
       /\ whom' = [whom EXCEPT ![r] = id]
       /\ \/ /\ Matching(id) = {}
             /\ pc' = [pc EXCEPT ![r] = "fetch"]
             /\ on' = [on EXCEPT ![r] = i]
             /\ UNCHANGED <<profiles, after, snap>>
          \/ \E j \in Canonical(id) : Read(r, j, IF i = j THEN "fetch" ELSE "done")

LinkFetch(r) ==
  /\ pc[r] = "fetch"
  /\ IF profiles[on[r]].gone THEN Goto(r, "done") /\ UNCHANGED profiles
     ELSE Read(r, on[r], IF whom[r] \in profiles[on[r]].linked THEN "done" ELSE "link")
  /\ UNCHANGED whom

\* The field of the identity's type is set when the copy had none.
Link(r) ==
  LET id == whom[r]
      now == [profiles[on[r]] EXCEPT !.linked = @ \union {id}]
      empty == IF id \in Emails THEN snap[r].email = "none" ELSE snap[r].phone = "none"
  IN /\ pc[r] = "link"
     /\ Update(on[r], IF empty THEN WithField(now, id) ELSE now)
     /\ Goto(r, "view")
     /\ UNCHANGED whom

\* Or of a request, which answers with an error.
RefuseRequest(r) ==
  /\ pc[r] \notin {"idle", "done"} /\ Goto(r, "done")
  /\ UNCHANGED <<profiles, whom>>

Request(r) ==
  \/ RefuseRequest(r) \/ View(r) \/ Look(r) \/ CreateCheck(r) \/ Create(r) \/ UpdateProfile(r) \/ Unlink(r)
  \/ Delete(r) \/ LinkCheck(r) \/ LinkFetch(r) \/ Link(r)

-----------------------------------------------------------------------------
\* The profile of a customer who has called once; profiles older than the dnd
\* object have none.
Known(c, dnd) ==
  [NewProfile(Caller[c], "none", "none") EXCEPT !.recent = <<c>>, !.total = 1, !.dnd = dnd]

Init ==
  /\ \/ profiles = <<>>
     \/ \E c \in Past, dnd \in {"unset", "clear"} : profiles = <<Known(c, dnd)>>
  /\ pc = [p \in Procs |-> CASE p \in Requests -> "idle"
                             [] p \in Past -> "done"
                             [] p \in Outbound -> "dial"
                             [] OTHER -> "lookup"]
  /\ after = [p \in Procs |-> "done"]
  /\ on = [p \in Procs |-> 0]
  /\ snap = [p \in Procs |-> NoProfile]
  /\ whom = [r \in Requests |-> "none"]

Next ==
  \/ \E c \in Calls : Call(c)
  \/ \E r \in Requests : Request(r)
  \/ \E p \in Procs : Backfill(p)

Spec == Init /\ [][Next]_vars

-----------------------------------------------------------------------------
Steps ==
  {"idle", "dial", "lookup", "check", "insert", "write", "reread", "clear", "clearing",
   "extract", "extracting", "reclear", "reclearing", "backfill", "view", "create",
   "fetch", "link", "refused", "failed", "done"}

\* Every value has its type; the fields of a profile hold identifiers of their
\* kind, and a process works on a profile that exists.
TypeOK ==
  /\ profiles \in Seq(Profile)
  /\ pc \in [Procs -> Steps] /\ after \in [Procs -> Steps]
  /\ on \in [Procs -> {0} \union DOMAIN profiles]
  /\ snap \in [Procs -> Profile]
  /\ whom \in [Requests -> Ids \union {"none"}]

\* Whatever calls and requests interleave, a profile's history is that of some
\* run of calls one after the other: the window is as full as the count says, and
\* no call is told twice (record_call_completion writes the three together).
WholeHistory(p) ==
  /\ Len(p.recent) = IF p.total < Window THEN p.total ELSE Window
  /\ \A i, j \in DOMAIN p.recent : i # j => p.recent[i] # p.recent[j]
  /\ \A i \in DOMAIN p.recent : p.recent[i] \notin p.older

HistoryIsWhole == \A i \in DOMAIN profiles : WholeHistory(profiles[i])

\* An opt-out is taken back only by the clearing of an inbound call, or by the
\* default object of a read that met the profile before it had any dnd object.
OptOutStands ==
  [][\A i \in DOMAIN profiles :
       Blocked(profiles[i]) /\ ~Blocked(profiles'[i]) =>
         \E p \in Procs :
           /\ on[p] = i /\ pc'[p] # pc[p]
           /\ pc[p] = "backfill" \/ (p \in Inbound /\ Blocked(snap[p]))]_vars

\* When an inbound call is over, the opt-out its own extraction found does not
\* stand (the clearing after the extraction), unless the database refused it.
InboundEndsClear ==
  \A c \in Inbound, i \in DOMAIN profiles : pc[c] = "done" => profiles[i].dnd # c \/ profiles[i].gone

-----------------------------------------------------------------------------
(* What the repository says of the program and the program does not do.     *)

\* schemas/core/customer_profile.py:144, "Total number of calls with this
\* customer": two calls that end together are counted once.
CallsAreCounted ==
  \A c \in Calls, i \in DOMAIN profiles :
    pc[c] = "done" /\ on[c] = i =>
      c \in profiles[i].older \/ \E k \in DOMAIN profiles[i].recent : profiles[i].recent[k] = c

\* customer_profile_manager.py:307, "Safeguards against linking the same
\* identity across profiles", and :176: check and insertion are two commands.
IdentityIsExclusive == \A id \in Ids : \A i, j \in Matching(id) : i = j

\* customer_profile_manager.py:347, "Remove a linked identity from a customer
\* profile": the field that link_identity filled still finds it.
UnlinkedIsFree ==
  [][\A i \in DOMAIN profiles, id \in Ids :
       /\ id \in profiles[i].linked /\ id \notin profiles'[i].linked
       /\ profiles[i].primary # id
       => i \notin Matching(id)']_vars

\* docs/dnd_v2.md:100, "DND flags are only set, never automatically cleared".
OptOutIsNeverUnset ==
  [][\A i \in DOMAIN profiles : Blocked(profiles[i]) => Blocked(profiles'[i])]_vars

\* base_transport_service.py:1204, "For inbound calls, ALWAYS keep outbound DND
\* cleared": a refused command leaves the opt-out.
InboundKeepsClear ==
  \A c \in Inbound, i \in DOMAIN profiles :
    pc[c] \in {"done", "failed"} => profiles[i].dnd # c \/ profiles[i].gone

\* docs/dnd_v2.md:66, "Block outbound calls when telephony.outbound=true": of two
\* profiles of the number, only the canonical one is asked.
OptOutIsHonoured ==
  [][\A c \in Outbound : pc[c] = "dial" /\ pc'[c] = "lookup" =>
       \A i \in Matching(Caller[c]) : ~Blocked(profiles[i])]_vars
=============================================================================
